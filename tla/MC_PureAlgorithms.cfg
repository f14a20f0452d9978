\* Three sources for the default aggregation and two for structs and lists; lists of up to two elements, two listkeys (lists without one are not checked), one counter; structs of up to two leaves; one attribute name for the evaluator.
CONSTANTS
    Sources = {"s1", "s2", "s3"}
    Elems = {"e1", "e2"}
    ListKeys = {"l1", "l2"}
    Leaves = {"f1", "f2"}
    Ctrs = {"c1"}
    Vals = {"v1", "v2"}
    MaxItems = 2
    MaxSources = 2
    NoKey = NoKey
    NameSeq <- MC_NameSeq
SPECIFICATION Spec
INVARIANTS
    DefaultGroupsSources
    StructSumFieldwise
    UnionIsSetUnion
    AppendFoldsByListkey
    CompareConsistent
    RuleShortCircuit
