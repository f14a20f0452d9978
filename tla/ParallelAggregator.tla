-------------------------- MODULE ParallelAggregator --------------------------
(***************************************************************************)
(* The aggregation of one UVE attribute across its sources, as             *)
(* uveserver.py's ParallelAggregator computes it for get_uve.              *)
(*                                                                         *)
(* An attribute's contributions (oattr) are a sequence of <<source,        *)
(* contribution>> pairs in the dict's iteration order.  A contribution is  *)
(* the xmltodict form of the sandesh attribute with its formatting         *)
(* abstracted: the @type and @aggtype annotations, the integer of a        *)
(* scalar, the leaves of a struct (name -> [type, text]), the elements of  *)
(* a list and the <<key, value>> pairs of a map.  A list element of an     *)
(* append list is a record with its listkey value (NoKey when the struct  *)
(* has no listkey field) and its counters.  Elements compare equal when    *)
(* their JSON forms do; the sources are strings and the contributions     *)
(* dicts, so a source never equals a contribution.                         *)
(*                                                                         *)
(* The annotation-dropping uve_attr_flatten of flat results is not in this *)
(* repository and is left out; its one structural effect in aggregate,     *)
(* a single default entry returned without its source list, is kept.      *)
(***************************************************************************)
EXTENDS Integers, SequencesExt, Functions, FiniteSetsExt

CONSTANTS
    Sources,    \* "host:module:instance" of the generators
    Elems,      \* list elements of a union list
    ListKeys,   \* listkey values of append-list structs
    Leaves,     \* leaf names of a summed struct
    Ctrs,       \* counter names of append-list structs
    Vals,       \* values of non-aggregated attributes
    MaxItems,   \* bound on the length of one source's list
    MaxSources, \* bound on the sources of a struct or list attribute
    NoKey       \* an append-list struct without a listkey field

IntTypes == {"i8", "i16", "i32", "i64", "byte", "u8", "u16", "u32", "u64"}

(* akey = list(oattr.keys())[0]: the dispatch looks at one source only.   *)
FirstOf(o) == o[1][2]

Concat(o, f(_)) == FoldLeft(LAMBDA acc, p : acc \o f(p[2]), <<>>, o)

-----------------------------------------------------------------------------
(* The _is_* predicates of aggregate's dispatch.                           *)
IsElemSum(o)   == FirstOf(o).type \in IntTypes /\ FirstOf(o).agg = "sum"
IsStructSum(o) == FirstOf(o).type = "struct" /\ FirstOf(o).agg = "sum"
IsListUnion(o) == FirstOf(o).type = "list" /\ FirstOf(o).agg = "union"
IsMapUnion(o)  == FirstOf(o).type = "map" /\ FirstOf(o).agg = "union"
IsAppend(o)    == FirstOf(o).type = "list" /\ FirstOf(o).agg = "append"

(* Variant of DefaultStep that adds a repeated value's source to the      *)
(* newest entry instead of the one holding the value.                      *)
DefaultStep_LastEntry(result, p) ==
    IF p[2].val \notin {result[i].elem : i \in DOMAIN result}
    THEN Append(result, [elem |-> p[2].val, srcs |-> <<p[1]>>])
    ELSE [i \in DOMAIN result |->
            IF i = Len(result)
            THEN [result[i] EXCEPT !.srcs = Append(@, p[1])]
            ELSE result[i]]

(* _default_agg: one entry per distinct value, in order of first          *)
(* appearance, listing the sources that hold it.                           *)
DefaultStep(result, p) ==
    IF p[2].val \notin {result[i].elem : i \in DOMAIN result}
    THEN Append(result, [elem |-> p[2].val, srcs |-> <<p[1]>>])
    ELSE [i \in DOMAIN result |->
            IF result[i].elem = p[2].val
            THEN [result[i] EXCEPT !.srcs = Append(@, p[1])]
            ELSE result[i]]

DefaultAgg(o) == FoldLeft(DefaultStep, <<>>, o)

(* _elem_sum_agg: the first contribution with the sum of every #text.      *)
ElemSumAgg(o) ==
    [FirstOf(o) EXCEPT !.text = FoldLeft(LAMBDA n, p : n + p[2].text, 0, o)]

(* The integer-typed leaves of a struct contribution.                      *)
IntLeaves(c) == {f \in DOMAIN c.leaves : c.leaves[f].type \in IntTypes}

(* Variant of StructStep that sums only the leaves the first source has.  *)
StructStep_FirstLeaves(cmap, p) ==
    LET c == p[2] IN
    IF DOMAIN cmap = {} THEN [f \in IntLeaves(c) |-> c.leaves[f]]
    ELSE [f \in DOMAIN cmap |->
            IF f \in IntLeaves(c) THEN [cmap[f] EXCEPT !.text = @ + c.leaves[f].text]
            ELSE cmap[f]]

(* One source's pass of _struct_sum_agg's loop over cmap.                  *)
StructStep(cmap, p) ==
    LET c == p[2] IN
    [f \in DOMAIN cmap \cup IntLeaves(c) |->
        IF f \notin DOMAIN cmap THEN c.leaves[f]
        ELSE IF f \in IntLeaves(c) THEN [cmap[f] EXCEPT !.text = @ + c.leaves[f].text]
        ELSE cmap[f]]

(* _struct_sum_agg: the struct holds only the summed integer leaves.       *)
StructSumAgg(o) ==
    [FirstOf(o) EXCEPT !.leaves = FoldLeft(StructStep, [f \in {} |-> 0], o)]

(* _list_union_agg: the elements of all sources, each kept once, in order  *)
(* of first appearance, with @size their number.                           *)
UnionStep(items, e) == IF e \in ToSet(items) THEN items ELSE Append(items, e)

(* Variant of ListUnionAgg whose itemset is reset for every source.       *)
ListUnionAgg_PerSource(o) ==
    LET items == Concat(o, LAMBDA c : FoldLeft(UnionStep, <<>>, c.items))
    IN [FirstOf(o) EXCEPT !.items = items, !.size = Len(items)]

ListUnionAgg(o) ==
    LET items == FoldLeft(UnionStep, <<>>, Concat(o, LAMBDA c : c.items))
    IN [FirstOf(o) EXCEPT !.items = items, !.size = Len(items)]

(* _map_union_agg: every source's entries, the key prefixed by the source. *)
MapUnionAgg(o) ==
    LET elems == FoldLeft(LAMBDA acc, p :
                     acc \o [i \in DOMAIN p[2].elems |-> <<<<p[1], p[2].elems[i][1]>>,
                                                           p[2].elems[i][2]>>],
                     <<>>, o)
    IN [FirstOf(o) EXCEPT !.elems = elems, !.size = Len(elems)]

(* _append_agg: the concatenation of all sources' lists.                   *)
AppendAgg(o) ==
    LET items == Concat(o, LAMBDA c : c.items)
    IN [FirstOf(o) EXCEPT !.items = items, !.size = Len(items)]

(* Variant of ConsolidateStep that never sets matched: a folded item is   *)
(* also appended.                                                          *)
ConsolidateStep_NoMatched(res, it) ==
    LET added == [i \in DOMAIN res |->
                    IF res[i].lk = it.lk
                    THEN [res[i] EXCEPT !.ctrs = [c \in DOMAIN @ |-> @[c] + it.ctrs[c]]]
                    ELSE res[i]]
    IN Append(added, it)

(* One item of consolidate_list's loop: its counters are added to the     *)
(* entry with the same listkey, or it is appended as a new entry.          *)
ConsolidateStep(res, it) ==
    IF \E i \in DOMAIN res : res[i].lk = it.lk
    THEN [i \in DOMAIN res |->
            IF res[i].lk = it.lk
            THEN [res[i] EXCEPT !.ctrs = [c \in DOMAIN @ |-> @[c] + it.ctrs[c]]]
            ELSE res[i]]
    ELSE Append(res, it)

(* aggregate's result dict when consolidate_list is called, abstracted to *)
(* the append attribute it holds: result[typ][objattr] is _append_agg's r. *)
ResultDict(r) == [attr |-> r]

(* consolidate_list(result, typ, objattr): with a listkey in the first    *)
(* element, a copy of the list whose entries sharing a listkey are folded *)
(* and their counters summed; without one, result itself, the whole dict. *)
ConsolidateList(result) ==
    LET r == result.attr IN
    IF r.items[1].lk = NoKey THEN result
    ELSE LET items == FoldLeft(ConsolidateStep, <<>>, r.items)
         IN [r EXCEPT !.items = items, !.size = Len(items)]

(* aggregate's body for one attribute, flat as alarm-gen calls get_uve.    *)
AggregateAttr(o) ==
    CASE IsElemSum(o)   -> ElemSumAgg(o)
      [] IsStructSum(o) -> StructSumAgg(o)
      [] IsListUnion(o) -> ListUnionAgg(o)
      [] IsMapUnion(o)  -> MapUnionAgg(o)
      [] IsAppend(o)    -> ConsolidateList(ResultDict(AppendAgg(o)))
      [] OTHER          -> LET d == DefaultAgg(o) IN IF Len(d) = 1 THEN d[1].elem ELSE d


-----------------------------------------------------------------------------
(* Bounded inputs.  Every source holds one contribution; the contributions *)
(* of one attribute have the same sandesh type, so they carry the same     *)
(* annotations, and the elements of one list the same struct fields.       *)
SourceOrders(n) == {s \in SeqOf(Sources, n) : s # <<>> /\ IsInjective(s)}

OAttrs(C, n) ==
    UNION {{[i \in DOMAIN s |-> <<s[i], f[i]>>] : f \in [DOMAIN s -> C]} : s \in SourceOrders(n)}

Lists(E) == {s \in SeqOf(E, MaxItems) : s # <<>>}

DefaultInputs == OAttrs([type : {"string"}, agg : {"none"}, val : Vals], Cardinality(Sources))
StructInputs  == OAttrs({[type |-> "struct", agg |-> "sum", leaves |-> l] :
                           l \in UNION {[F -> [type : {"i64", "string"}, text : 1 .. 2]] :
                                          F \in SUBSET Leaves}}, MaxSources)
UnionInputs   == OAttrs({[type |-> "list", agg |-> "union", items |-> l, size |-> Len(l)] :
                           l \in Lists(Elems)}, MaxSources)
(* Append lists whose struct has a listkey field. *)
AppendInputs  ==
    LET Items == [lk : ListKeys, ctrs : [Ctrs -> 1 .. 2]]
    IN OAttrs({[type |-> "list", agg |-> "append", items |-> l, size |-> Len(l)] :
                 l \in Lists(Items)}, MaxSources)

(* The sources of o holding value v, in order.                             *)
HoldersOf(o, v) ==
    LET sel == SelectSeq(o, LAMBDA p : p[2].val = v) IN [i \in DOMAIN sel |-> sel[i][1]]

SumOver(S, g(_)) == SumFunction([x \in S |-> g(x)])

-----------------------------------------------------------------------------
(* What get_uve promises of the aggregation of one input o (spec 4.2),    *)
(* each stated without the code's loops.                                  *)

(* get_uve's default aggregation (spec 4.2) lists each distinct value     *)
(* once, with exactly the sources that hold it in their order, and a       *)
(* single value is returned on its own: the result of _default_agg's      *)
(* itemset test and its append to the matching entry.                      *)
GroupsSources(o) ==
    LET d == DefaultAgg(o)
        V == {o[i][2].val : i \in DOMAIN o}
    IN /\ IsInjective([i \in DOMAIN d |-> d[i].elem])
       /\ {d[i].elem : i \in DOMAIN d} = V
       /\ \A i \in DOMAIN d : d[i].srcs = HoldersOf(o, d[i].elem)
       /\ AggregateAttr(o) = IF Cardinality(V) = 1 THEN CHOOSE v \in V : TRUE ELSE d

(* A struct with @aggtype sum aggregates to the field-wise sum of its      *)
(* integer leaves over every source that has them (spec 4.2), whichever    *)
(* source has a leaf first: _struct_sum_agg's cmap loop.                   *)
SumsFieldwise(o) ==
    LET r == AggregateAttr(o).leaves
        has(f) == {i \in DOMAIN o : f \in IntLeaves(o[i][2])}
    IN /\ DOMAIN r = UNION {IntLeaves(o[i][2]) : i \in DOMAIN o}
       /\ \A f \in DOMAIN r :
            r[f].text = SumOver(has(f), LAMBDA i : o[i][2].leaves[f].text)

(* A union list aggregates to the union of the sources' elements, each     *)
(* once (spec 4.2, stable deduplication), with @size its length:           *)
(* _list_union_agg's itemset is shared by all sources.                     *)
IsSetUnion(o) ==
    LET r == AggregateAttr(o) IN
    /\ IsInjective(r.items)
    /\ ToSet(r.items) = UNION {ToSet(o[i][2].items) : i \in DOMAIN o}
    /\ r.size = Len(r.items)

(* An append list with a listkey aggregates to the sources' concatenated  *)
(* entries with those sharing a listkey folded into one, in order of first *)
(* appearance, whose counters are the sums over all of them (spec 4.2 and  *)
(* scenario 5): _append_agg followed by consolidate_list's matched loop.  *)
FoldsByListkey(o) ==
    LET r   == AggregateAttr(o)
        all == Concat(o, LAMBDA c : c.items)
        lks == [i \in DOMAIN r.items |-> r.items[i].lk]
        with(k) == {j \in DOMAIN all : all[j].lk = k}
    IN /\ r.size = Len(r.items)
       /\ IsInjective(lks)
       /\ ToSet(lks) = {it.lk : it \in ToSet(all)}
       /\ \A i, j \in DOMAIN lks : i < j => Min(with(lks[i])) < Min(with(lks[j]))
       /\ \A i \in DOMAIN r.items, c \in Ctrs :
            r.items[i].ctrs[c] = SumOver(with(lks[i]), LAMBDA j : all[j].ctrs[c])

=============================================================================
