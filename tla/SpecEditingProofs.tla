------------------------- MODULE SpecEditingProofs -------------------------
(***************************************************************************)
(* Theorems about SpecEditing for every value of its constants, so for any *)
(* number of edits, lengths of collections, kinds of criteria and starts.  *)
(***************************************************************************)
EXTENDS SpecEditing, SequenceFacts

-----------------------------------------------------------------------------
(***************************************************************************)
(* What a specification looks like.                                        *)
(***************************************************************************)
ReqId     == {SpecId, Foreign} \X {"REQ"} \X Nat
CritId    == {SpecId, Foreign} \X {"AC", "EC"} \X Nat \X Nat
ItemId(k) == {SpecId, Foreign} \X {TheKind(k)} \X Nat

\* A criterion is like one of the Shapes, or like the one a complete specification has.
Criterion   == [id : CritId, pattern : {"ubiquitous"} \cup {shape.pattern : shape \in Shapes},
                fields : {{}} \cup {shape.fields : shape \in Shapes},
                contract : {FALSE} \cup {shape.contract : shape \in Shapes},
                terms : {{}} \cup {shape.terms : shape \in Shapes}]
Requirement == [id : ReqId, acs : Seq(Criterion), ecs : Seq(Criterion)]
ItemOf(k)   == [id : ItemId(k), refs : SUBSET Id, terms : SUBSET Terms]
AnyItem     == [id : Id, refs : SUBSET Id, terms : SUBSET Terms]
Subtask     == [id : Nat \X Nat, state : States, reqRefs : SUBSET Id,
                testRefs : SUBSET Id, mentions : SUBSET Id]
GroupKinds  == {"tests", "standard", "wiring_verification"}
TaskGroup   == [id : Nat, kind : GroupKinds, stub : BOOLEAN, subs : Seq(Subtask)]
TraceEntry  == [req : Id, test : Id, task : Nat \X Nat]

Shape(s) ==
  /\ s \in [sid : {SpecId}, name : {Name}, folder : {Nil, Identity}, prd : BOOLEAN,
            heads : [Artifacts -> {Nil} \cup Heads], glossary : SUBSET Terms,
            reqs : Seq(Requirement), items : [Collections -> Seq(AnyItem)],
            groups : Seq(TaskGroup), trace : Seq(TraceEntry)]
  /\ \A k \in Collections : s.items[k] \in Seq(ItemOf(k))

LEMMA KindTypes ==
  /\ Collections = {"props", "paths", "errs", "cases", "ptests", "etests", "smokes"}
  /\ TestCollections \subseteq Collections
  /\ \A k \in Collections : IdPattern[k] = {TheKind(k)} /\ Home(k) \in Artifacts
  /\ TheKind("props") = "PROP" /\ TheKind("paths") = "PATH" /\ TheKind("errs") = "ERR"
  /\ TheKind("cases") = "TC" /\ TheKind("ptests") = "PT" /\ TheKind("etests") = "ET"
  /\ TheKind("smokes") = "SMOKE"
<1>1. Collections = {"props", "paths", "errs", "cases", "ptests", "etests", "smokes"}
  BY DEF Collections, IdPattern
<1>2. TestCollections \subseteq Collections
  BY <1>1 DEF TestCollections
<1>3. /\ TheKind("props") = "PROP" /\ TheKind("paths") = "PATH" /\ TheKind("errs") = "ERR"
      /\ TheKind("cases") = "TC" /\ TheKind("ptests") = "PT" /\ TheKind("etests") = "ET"
      /\ TheKind("smokes") = "SMOKE"
  BY DEF TheKind, IdPattern
<1>4. \A k \in Collections : IdPattern[k] = {TheKind(k)}
  BY <1>1, <1>3 DEF IdPattern
<1>5. \A k \in Collections : Home(k) \in Artifacts
  BY DEF Home, Artifacts
<1> QED
  BY <1>1, <1>2, <1>3, <1>4, <1>5

LEMMA IdTypes ==
  /\ ReqId \subseteq Id /\ CritId \subseteq Id
  /\ \A k \in Collections : ItemId(k) \subseteq Id
<1> DEFINE Kinds == {"REQ", "AC", "EC"} \cup UNION {IdPattern[k] : k \in Collections}
<1>1. Id = ({SpecId, Foreign} \X Kinds \X Nat) \cup ({SpecId, Foreign} \X Kinds \X Nat \X Nat)
  BY DEF Id
<1>2. \A k \in Collections : TheKind(k) \in Kinds
  BY KindTypes
<1>3. {"REQ", "AC", "EC"} \subseteq Kinds
  OBVIOUS
<1> HIDE DEF Kinds
<1>4. ReqId \subseteq Id
  BY <1>1, <1>3 DEF ReqId
<1>5. CritId \subseteq Id
  BY <1>1, <1>3 DEF CritId
<1>6. \A k \in Collections : ItemId(k) \subseteq Id
  BY <1>1, <1>2 DEF ItemId
<1> QED
  BY <1>4, <1>5, <1>6

\* What the ids of a specification are, and where references come from.
LEMMA KnownIds ==
  ASSUME NEW s, Shape(s)
  PROVE  /\ Ids(s.reqs) \subseteq ReqId
         /\ criterionIDs(s) \subseteq CritId
         /\ reqIDs(s) \subseteq Id
         /\ \A k \in Collections : Ids(s.items[k]) \subseteq ItemId(k)
         /\ knownTestIDs(s) \subseteq Id
<1>1. \A r \in Range(s.reqs) : r \in Requirement
  BY DEF Shape, Range
<1>2. \A k \in Collections : \A x \in Range(s.items[k]) : x \in ItemOf(k)
  BY DEF Shape, Range
<1>3. Ids(s.reqs) \subseteq ReqId
  BY <1>1 DEF Ids, Requirement
<1>4. criterionIDs(s) \subseteq CritId
  <2>1. \A c \in Criteria(s) : c \in Criterion
    BY <1>1 DEF Criteria, CritSeqs, Requirement, Range
  <2> QED
    BY <2>1 DEF criterionIDs, Criterion
<1>5. \A k \in Collections : Ids(s.items[k]) \subseteq ItemId(k)
  BY <1>2 DEF Ids, ItemOf
<1>6. reqIDs(s) \subseteq Id
  BY <1>3, <1>4, IdTypes DEF reqIDs
<1>7. knownTestIDs(s) \subseteq Id
  BY <1>5, IdTypes, KindTypes DEF knownTestIDs
<1> QED
  BY <1>3, <1>4, <1>5, <1>6, <1>7

-----------------------------------------------------------------------------
(***************************************************************************)
(* Within one list no two entries have one id; the task plan is left out.  *)
(***************************************************************************)
DistinctIds(q) == \A i, j \in DOMAIN q : q[i].id = q[j].id => i = j

Named(s) ==
  /\ DistinctIds(s.reqs)
  /\ \A i \in DOMAIN s.reqs : DistinctIds(s.reqs[i].acs) /\ DistinctIds(s.reqs[i].ecs)
  /\ \A k \in Collections : DistinctIds(s.items[k])

EInv ==
  /\ edits \in Nat /\ habits \subseteq {"own_ids", "loose_refs", "remove_last"}
  /\ Shape(spec) /\ Named(spec)

LEMMA DistinctAppend ==
  ASSUME NEW S, NEW q \in Seq(S), NEW x \in S, DistinctIds(q), x.id \notin Ids(q)
  PROVE  /\ Append(q, x) \in Seq(S) /\ DistinctIds(Append(q, x))
         /\ Ids(Append(q, x)) = Ids(q) \cup {x.id}
         /\ Len(Append(q, x)) = Len(q) + 1
<1>1. /\ Append(q, x) \in Seq(S) /\ Len(Append(q, x)) = Len(q) + 1
      /\ Range(Append(q, x)) = Range(q) \cup {x}
      /\ \A i \in 1..Len(q) : Append(q, x)[i] = q[i]
      /\ Append(q, x)[Len(q) + 1] = x
  BY RangeOfAppend
<1>2. /\ DOMAIN Append(q, x) = 1..(Len(q) + 1) /\ DOMAIN q = 1..Len(q) /\ Len(q) \in Nat
  BY <1>1
<1>3. \A i \in 1..Len(q) : q[i].id # x.id
  BY <1>2 DEF Ids, Range
<1>4. DistinctIds(Append(q, x))
  BY <1>1, <1>2, <1>3 DEF DistinctIds
<1>5. Ids(Append(q, x)) = Ids(q) \cup {x.id}
  BY <1>1 DEF Ids
<1> QED
  BY <1>1, <1>4, <1>5

LEMMA DistinctRemove ==
  ASSUME NEW S, NEW q \in Seq(S), NEW i \in DOMAIN q, DistinctIds(q),
         NEW r, r = SubSeq(q, 1, i - 1) \o SubSeq(q, i + 1, Len(q))
  PROVE  /\ r \in Seq(S) /\ DistinctIds(r)
         /\ Range(r) \subseteq Range(q)
         /\ Ids(r) = Ids(q) \ {q[i].id}
<1>0. i \in 1..Len(q)
  OBVIOUS
<1>1. /\ r \in Seq(S) /\ Len(r) = Len(q) - 1
      /\ \A j \in 1..Len(r) : r[j] = q[IF j < i THEN j ELSE j + 1]
      /\ Range(r) = {q[k] : k \in (1..Len(q)) \ {i}}
  BY <1>0, RemoveAt, Zenon
<1>2. DOMAIN r = 1..Len(r) /\ DOMAIN q = 1..Len(q) /\ Len(q) \in Nat
  BY <1>1
<1>3. ASSUME NEW j \in DOMAIN r, NEW k \in DOMAIN r, r[j].id = r[k].id PROVE j = k
  <2>1. /\ (IF j < i THEN j ELSE j + 1) \in DOMAIN q
        /\ (IF k < i THEN k ELSE k + 1) \in DOMAIN q
    <3>1. Len(r) = Len(q) - 1 /\ i \in 1..Len(q)
      BY <1>0, <1>1
    <3>2. j \in 1..Len(r) /\ k \in 1..Len(r)
      BY <1>2
    <3>3. \A n \in 1..Len(r) : (IF n < i THEN n ELSE n + 1) \in 1..Len(q)
      BY <1>2, <3>1
    <3> QED
      BY <1>2, <3>2, <3>3
  <2>2. (IF j < i THEN j ELSE j + 1) = (IF k < i THEN k ELSE k + 1)
    BY <1>1, <1>2, <1>3, <2>1 DEF DistinctIds
  <2> QED
    BY <1>2, <2>2
<1>4. Range(r) \subseteq Range(q)
  BY <1>1, <1>2 DEF Range
<1>5. Ids(r) = {q[k].id : k \in (1..Len(q)) \ {i}}
  BY <1>1 DEF Ids
<1>6. Ids(q) = {q[k].id : k \in 1..Len(q)}
  BY <1>2 DEF Ids, Range
<1>7. \A k \in (1..Len(q)) \ {i} : q[k].id # q[i].id
  BY <1>2 DEF DistinctIds
<1>8. Ids(r) = Ids(q) \ {q[i].id}
  BY <1>5, <1>6, <1>7
<1> QED
  BY <1>1, <1>3, <1>4, <1>8 DEF DistinctIds

-----------------------------------------------------------------------------
(***************************************************************************)
(* The numbers of the ids in a list have a largest one, 0 if there is none.*)
(***************************************************************************)
Number(id) == id[Len(id)]

LEMMA Numbers == \A id \in Id : Number(id) \in Nat /\ Len(id) \in {3, 4} /\ id[1] \in {SpecId, Foreign}
<1> DEFINE Kinds == {"REQ", "AC", "EC"} \cup UNION {IdPattern[k] : k \in Collections}
<1>1. ASSUME NEW x \in {SpecId, Foreign} \X Kinds \X Nat
      PROVE  x[1] \in {SpecId, Foreign} /\ Len(x) = 3 /\ x[3] \in Nat
  OBVIOUS
<1>2. ASSUME NEW x \in {SpecId, Foreign} \X Kinds \X Nat \X Nat
      PROVE  x[1] \in {SpecId, Foreign} /\ Len(x) = 4 /\ x[4] \in Nat
  OBVIOUS
<1> QED
  BY <1>1, <1>2 DEF Id, Number

LEMMA MaxSuffixIs ==
  ASSUME NEW S, NEW q \in Seq(S), Ids(q) \subseteq Id, NEW kind
  PROVE  /\ Suffixes(q, kind) \subseteq Nat
         /\ MaxSuffix(q, kind) \in Suffixes(q, kind) \cup {0}
         /\ MaxSuffix(q, kind) \in Nat
         /\ \A m \in Suffixes(q, kind) : m <= MaxSuffix(q, kind)
<1> DEFINE T == Suffixes(q, kind) \cup {0}
<1>1. DOMAIN q = 1..Len(q) /\ Len(q) \in Nat
  OBVIOUS
<1>2. \A i \in 1..Len(q) : q[i].id \in Id
  BY <1>1 DEF Ids, Range
<1> DEFINE f == [i \in 1..Len(q) |-> Number(q[i].id)]
<1>3. f \in [1..Len(q) -> Nat]
  BY <1>2, Numbers
<1>4. \A m \in Suffixes(q, kind) : \E i \in 1..Len(q) : m = f[i]
  BY <1>1 DEF Suffixes, Range, Number
<1> HIDE DEF f
<1>5. PICK b \in Nat : \A i \in 1..Len(q) : f[i] <= b
  BY <1>1, <1>3, BoundedNaturals
<1>6. Suffixes(q, kind) \subseteq Nat /\ \A m \in T : m <= b
  BY <1>3, <1>4, <1>5
<1>7. \E n \in T : \A m \in T : m <= n
  <2>1. T \in SUBSET Nat /\ T # {}
    BY <1>6
  <2> QED
    BY <1>6, <2>1, LargestNatural
<1> DEFINE n == CHOOSE n \in T : \A m \in Suffixes(q, kind) : m <= n
<1>8. n \in T /\ \A m \in Suffixes(q, kind) : m <= n
  BY <1>7
<1>9. MaxSuffix(q, kind) = n
  BY DEF MaxSuffix
<1> HIDE DEF n
<1>10. n \in Nat
  BY <1>6, <1>8
<1> QED
  BY <1>6, <1>8, <1>9, <1>10

-----------------------------------------------------------------------------
(***************************************************************************)
(* What each step does to the fields.                                      *)
(***************************************************************************)
OnlyReqs == /\ spec'.items = spec.items /\ spec'.groups = spec.groups
            /\ spec'.trace = spec.trace /\ spec'.heads = spec.heads

OnlyItems == /\ spec'.reqs = spec.reqs /\ spec'.groups = spec.groups
             /\ spec'.trace = spec.trace /\ spec'.heads = spec.heads

OnlyGroups == /\ spec'.reqs = spec.reqs /\ spec'.items = spec.items
              /\ spec'.trace = spec.trace /\ spec'.heads = spec.heads

OnlyTrace == /\ spec'.reqs = spec.reqs /\ spec'.items = spec.items
             /\ spec'.groups = spec.groups /\ spec'.heads = spec.heads

LEMMA WithReqs ==
  ASSUME Shape(spec), NEW q \in Seq(Requirement), spec' = [spec EXCEPT !.reqs = q]
  PROVE  Shape(spec') /\ spec'.reqs = q /\ OnlyReqs
BY DEF Shape, OnlyReqs

LEMMA WithItems ==
  ASSUME Shape(spec), NEW k \in Collections, NEW q \in Seq(ItemOf(k)),
         spec' = [spec EXCEPT !.items[k] = q]
  PROVE  /\ Shape(spec') /\ OnlyItems /\ spec'.items[k] = q
         /\ \A l \in Collections \ {k} : spec'.items[l] = spec.items[l]
<1>1. ItemOf(k) \subseteq AnyItem
  BY IdTypes DEF ItemOf, AnyItem
<1>2. q \in Seq(AnyItem)
  BY <1>1
<1> QED
  BY <1>2 DEF Shape, OnlyItems

LEMMA WithGroups ==
  ASSUME Shape(spec), NEW q \in Seq(TaskGroup), spec' = [spec EXCEPT !.groups = q]
  PROVE  Shape(spec') /\ spec'.groups = q /\ OnlyGroups
BY DEF Shape, OnlyGroups

LEMMA WithTrace ==
  ASSUME Shape(spec), NEW q \in Seq(TraceEntry), spec' = [spec EXCEPT !.trace = q]
  PROVE  Shape(spec') /\ spec'.trace = q /\ OnlyTrace
BY DEF Shape, OnlyTrace

LEMMA WithGlossary ==
  ASSUME Shape(spec), NEW g \in SUBSET Terms, spec' = [spec EXCEPT !.glossary = g]
  PROVE  Shape(spec') /\ OnlyGroups /\ spec'.groups = spec.groups
BY DEF Shape, OnlyGroups

LEMMA ReplaceAt ==
  ASSUME NEW S, NEW q \in Seq(S), NEW i \in DOMAIN q, NEW x \in S
  PROVE  LET r == [q EXCEPT ![i] = x]
         IN  /\ r \in Seq(S) /\ DOMAIN r = DOMAIN q /\ Len(r) = Len(q) /\ r[i] = x
             /\ \A j \in DOMAIN q \ {i} : r[j] = q[j]
OBVIOUS

LEMMA CriterionIds == ASSUME NEW q \in Seq(Criterion) PROVE Ids(q) \subseteq Id
<1>1. \A c \in Range(q) : c \in Criterion
  BY DEF Range
<1> QED
  BY <1>1, IdTypes DEF Criterion, Ids

LEMMA NextIdTypes ==
  ASSUME EInv
  PROVE  /\ Has("requirements") => NextRequirementID \in ReqId
         /\ \A r \in Requirement : NextCriterionID(r) \in CritId /\ NextEdgeCaseID(r) \in CritId
         /\ \A k \in Collections : Has(Home(k)) => NextID(k) \in ItemId(k)
<1>1. Shape(spec)
  BY DEF EInv
<1>2. \A a \in Artifacts : Has(a) => spec.heads[a][1] \in {SpecId, Foreign}
  BY <1>1 DEF Shape, Has, Heads
<1>3. Ids(spec.reqs) \subseteq Id /\ spec.reqs \in Seq(Requirement)
  BY <1>1, KnownIds, IdTypes DEF Shape
<1>4. MaxSuffix(spec.reqs, "REQ") + 1 \in Nat
  BY <1>3, MaxSuffixIs
<1>5. Has("requirements") => NextRequirementID \in ReqId
  BY <1>2, <1>4 DEF NextRequirementID, ReqId, Artifacts
<1>6. ASSUME NEW r \in Requirement
      PROVE  NextCriterionID(r) \in CritId /\ NextEdgeCaseID(r) \in CritId
  <2>1. r.id[1] \in {SpecId, Foreign} /\ r.id[3] \in Nat
    BY DEF Requirement, ReqId
  <2>2. /\ r.acs \in Seq(Criterion) /\ r.ecs \in Seq(Criterion)
        /\ Ids(r.acs) \subseteq Id /\ Ids(r.ecs) \subseteq Id
    BY CriterionIds DEF Requirement
  <2>3. MaxSuffix(r.acs, "AC") + 1 \in Nat /\ MaxSuffix(r.ecs, "EC") + 1 \in Nat
    BY <2>2, MaxSuffixIs
  <2> QED
    BY <2>1, <2>3 DEF NextCriterionID, NextEdgeCaseID, CritId
<1>7. ASSUME NEW k \in Collections, Has(Home(k)) PROVE NextID(k) \in ItemId(k)
  <2>1. spec.items[k] \in Seq(ItemOf(k)) /\ Ids(spec.items[k]) \subseteq Id
    BY <1>1, KnownIds, IdTypes DEF Shape
  <2>2. MaxSuffix(spec.items[k], TheKind(k)) + 1 \in Nat
    BY <2>1, MaxSuffixIs
  <2>3. spec.heads[Home(k)][1] \in {SpecId, Foreign}
    BY <1>2, <1>7, KindTypes
  <2> QED
    BY <2>2, <2>3 DEF NextID, ItemId
<1> QED
  BY <1>5, <1>6, <1>7

LEMMA AddRequirementDoes ==
  ASSUME EInv, AddRequirement
  PROVE  /\ Shape(spec') /\ Has("requirements") /\ OnlyReqs
         /\ edits' \in Nat /\ habits' = habits
         /\ \E r \in Requirement :
              /\ spec'.reqs = Append(spec.reqs, r) /\ r.id \notin Ids(spec.reqs)
              /\ r.acs = <<>> /\ r.ecs = <<>>
              /\ habits = {} => r.id = NextRequirementID
<1>1. PICK id \in OwnIds(NextRequirementID, {<<Foreign, "REQ", 1>>}) :
         /\ id \notin Ids(spec.reqs)
         /\ Edit([spec EXCEPT !.reqs = Append(@, [id |-> id, acs |-> <<>>, ecs |-> <<>>])])
  BY DEF AddRequirement
<1> DEFINE r == [id |-> id, acs |-> <<>>, ecs |-> <<>>]
<1>2. id \in ReqId /\ (habits = {} => id = NextRequirementID)
  BY <1>1, NextIdTypes DEF OwnIds, AddRequirement, ReqId
<1>3. r \in Requirement
  BY <1>2 DEF Requirement
<1>4. PICK q \in Seq(Requirement) : q = Append(spec.reqs, r)
  <2>1. Append(spec.reqs, r) \in Seq(Requirement)
    BY <1>3 DEF EInv, Shape
  <2> QED
    BY <2>1
<1>5. spec' = [spec EXCEPT !.reqs = q] /\ habits' = habits /\ edits' \in Nat
  BY <1>1, <1>4 DEF Edit, EInv
<1>6. Shape(spec') /\ spec'.reqs = q /\ OnlyReqs
  BY <1>4, <1>5, WithReqs DEF EInv
<1> QED
  BY <1>1, <1>2, <1>3, <1>4, <1>5, <1>6 DEF AddRequirement

LEMMA RemoveRequirementDoes ==
  ASSUME EInv, RemoveRequirement
  PROVE  /\ Shape(spec') /\ OnlyReqs /\ edits' \in Nat /\ habits' = habits
         /\ \E i \in DOMAIN spec.reqs :
              /\ spec'.reqs = SubSeq(spec.reqs, 1, i - 1)
                              \o SubSeq(spec.reqs, i + 1, Len(spec.reqs))
              /\ habits = {} => spec.reqs[i].id[3] < MaxSuffix(spec.reqs, "REQ")
<1>1. PICK i \in DOMAIN spec.reqs :
         /\ "remove_last" \in habits \/ spec.reqs[i].id[3] < MaxSuffix(spec.reqs, "REQ")
         /\ Edit([spec EXCEPT !.reqs = SubSeq(@, 1, i - 1) \o SubSeq(@, i + 1, Len(@))])
  BY DEF RemoveRequirement
<1> DEFINE q == SubSeq(spec.reqs, 1, i - 1) \o SubSeq(spec.reqs, i + 1, Len(spec.reqs))
<1>2. q \in Seq(Requirement)
  BY DistinctRemove DEF EInv, Shape, Named
<1>3. spec' = [spec EXCEPT !.reqs = q] /\ habits' = habits /\ edits' \in Nat
  BY <1>1 DEF Edit, EInv
<1> HIDE DEF q
<1>4. Shape(spec') /\ spec'.reqs = q /\ OnlyReqs
  BY <1>2, <1>3, WithReqs DEF EInv
<1> QED
  BY <1>1, <1>3, <1>4 DEF q

\* A criterion goes to the end of one of the two lists of its requirement.
LEMMA CriterionDoes ==
  ASSUME EInv, AddCriterion \/ AddEdgeCase
  PROVE  /\ Shape(spec') /\ OnlyReqs /\ edits' \in Nat /\ habits' = habits
         /\ \E i \in DOMAIN spec.reqs, r \in Requirement, c \in Criterion :
              /\ spec'.reqs = [spec.reqs EXCEPT ![i] = r]
              /\ r.id = spec.reqs[i].id
              /\ \/ /\ r.acs = Append(spec.reqs[i].acs, c) /\ r.ecs = spec.reqs[i].ecs
                    /\ c.id \notin Ids(spec.reqs[i].acs)
                    /\ habits = {} => c.id = NextCriterionID(spec.reqs[i])
                 \/ /\ r.ecs = Append(spec.reqs[i].ecs, c) /\ r.acs = spec.reqs[i].acs
                    /\ c.id \notin Ids(spec.reqs[i].ecs)
                    /\ habits = {} => c.id = NextEdgeCaseID(spec.reqs[i])
<1> DEFINE Out == \E i \in DOMAIN spec.reqs, r \in Requirement, c \in Criterion :
              /\ spec'.reqs = [spec.reqs EXCEPT ![i] = r]
              /\ r.id = spec.reqs[i].id
              /\ \/ /\ r.acs = Append(spec.reqs[i].acs, c) /\ r.ecs = spec.reqs[i].ecs
                    /\ c.id \notin Ids(spec.reqs[i].acs)
                    /\ habits = {} => c.id = NextCriterionID(spec.reqs[i])
                 \/ /\ r.ecs = Append(spec.reqs[i].ecs, c) /\ r.acs = spec.reqs[i].acs
                    /\ c.id \notin Ids(spec.reqs[i].ecs)
                    /\ habits = {} => c.id = NextEdgeCaseID(spec.reqs[i])
<1>1. Shape(spec) /\ spec.reqs \in Seq(Requirement)
  BY DEF EInv, Shape
<1>2. \A i \in DOMAIN spec.reqs : spec.reqs[i] \in Requirement
  BY <1>1
<1>3. <<SpecId, "AC", 1, 1>> \in CritId
  BY DEF CritId
<1>4. \A id \in CritId, shape \in Shapes :
        NewCriterion(id, shape) \in Criterion /\ NewCriterion(id, shape).id = id
  BY DEF NewCriterion, Criterion
<1>5. ASSUME NEW i \in DOMAIN spec.reqs, NEW r \in Requirement,
             spec' = [spec EXCEPT !.reqs = [spec.reqs EXCEPT ![i] = r]]
      PROVE  /\ Shape(spec') /\ OnlyReqs
             /\ spec'.reqs = [spec.reqs EXCEPT ![i] = r]
  <2>1. PICK q \in Seq(Requirement) : q = [spec.reqs EXCEPT ![i] = r]
    BY <1>1, ReplaceAt
  <2>2. Shape(spec') /\ spec'.reqs = q /\ OnlyReqs
    BY <1>1, <1>5, <2>1, WithReqs
  <2> QED
    BY <2>1, <2>2
<1>6. ASSUME AddCriterion
      PROVE  Shape(spec') /\ OnlyReqs /\ Out /\ edits' \in Nat /\ habits' = habits
  <2>0. PICK i \in DOMAIN spec.reqs, shape \in Shapes :
          \E id \in OwnIds(NextCriterionID(spec.reqs[i]), {<<SpecId, "AC", 1, 1>>}) :
             /\ id \notin Ids(spec.reqs[i].acs)
             /\ Edit([spec EXCEPT !.reqs[i].acs = Append(@, NewCriterion(id, shape))])
    BY <1>6, Zenon DEF AddCriterion
  <2>1. PICK id \in OwnIds(NextCriterionID(spec.reqs[i]), {<<SpecId, "AC", 1, 1>>}) :
          /\ id \notin Ids(spec.reqs[i].acs)
          /\ Edit([spec EXCEPT !.reqs[i].acs = Append(@, NewCriterion(id, shape))])
    BY <2>0
  <2>2. id \in CritId /\ (habits = {} => id = NextCriterionID(spec.reqs[i]))
    BY <1>2, <1>3, NextIdTypes DEF OwnIds
  <2>3. PICK c \in Criterion : c = NewCriterion(id, shape) /\ c.id = id
    BY <1>4, <2>2
  <2>4. spec' = [spec EXCEPT !.reqs[i].acs = Append(@, c)] /\ habits' = habits /\ edits' \in Nat
    BY <2>1, <2>3 DEF Edit, EInv
  <2>5. PICK r \in Requirement : r = [spec.reqs[i] EXCEPT !.acs = Append(@, c)]
    <3>1. Append(spec.reqs[i].acs, c) \in Seq(Criterion)
      BY <1>2 DEF Requirement
    <3> QED
      BY <1>2, <3>1 DEF Requirement
  <2>6. r.id = spec.reqs[i].id /\ r.acs = Append(spec.reqs[i].acs, c) /\ r.ecs = spec.reqs[i].ecs
    BY <1>2, <2>5 DEF Requirement
  <2>7. spec' = [spec EXCEPT !.reqs = [spec.reqs EXCEPT ![i] = r]]
    BY <2>4, <2>5, Zenon
  <2>8. /\ Shape(spec') /\ OnlyReqs
        /\ spec'.reqs = [spec.reqs EXCEPT ![i] = r]
    BY <1>5, <2>7
  <2>9. c.id \notin Ids(spec.reqs[i].acs) /\ (habits = {} => c.id = NextCriterionID(spec.reqs[i]))
    BY <2>1, <2>2, <2>3
  <2>10. Out
    BY <2>6, <2>8, <2>9, Zenon
  <2> QED
    BY <2>4, <2>8, <2>10
<1>7. ASSUME AddEdgeCase
      PROVE  Shape(spec') /\ OnlyReqs /\ Out /\ edits' \in Nat /\ habits' = habits
  <2>0. PICK i \in DOMAIN spec.reqs, shape \in Shapes :
          \E id \in OwnIds(NextEdgeCaseID(spec.reqs[i]), {<<SpecId, "AC", 1, 1>>}) :
             /\ id \notin Ids(spec.reqs[i].ecs)
             /\ Edit([spec EXCEPT !.reqs[i].ecs = Append(@, NewCriterion(id, shape))])
    BY <1>7, Zenon DEF AddEdgeCase
  <2>1. PICK id \in OwnIds(NextEdgeCaseID(spec.reqs[i]), {<<SpecId, "AC", 1, 1>>}) :
          /\ id \notin Ids(spec.reqs[i].ecs)
          /\ Edit([spec EXCEPT !.reqs[i].ecs = Append(@, NewCriterion(id, shape))])
    BY <2>0
  <2>2. id \in CritId /\ (habits = {} => id = NextEdgeCaseID(spec.reqs[i]))
    BY <1>2, <1>3, NextIdTypes DEF OwnIds
  <2>3. PICK c \in Criterion : c = NewCriterion(id, shape) /\ c.id = id
    BY <1>4, <2>2
  <2>4. spec' = [spec EXCEPT !.reqs[i].ecs = Append(@, c)] /\ habits' = habits /\ edits' \in Nat
    BY <2>1, <2>3 DEF Edit, EInv
  <2>5. PICK r \in Requirement : r = [spec.reqs[i] EXCEPT !.ecs = Append(@, c)]
    <3>1. Append(spec.reqs[i].ecs, c) \in Seq(Criterion)
      BY <1>2 DEF Requirement
    <3> QED
      BY <1>2, <3>1 DEF Requirement
  <2>6. r.id = spec.reqs[i].id /\ r.ecs = Append(spec.reqs[i].ecs, c) /\ r.acs = spec.reqs[i].acs
    BY <1>2, <2>5 DEF Requirement
  <2>7. spec' = [spec EXCEPT !.reqs = [spec.reqs EXCEPT ![i] = r]]
    BY <2>4, <2>5, Zenon
  <2>8. /\ Shape(spec') /\ OnlyReqs
        /\ spec'.reqs = [spec.reqs EXCEPT ![i] = r]
    BY <1>5, <2>7
  <2>9. c.id \notin Ids(spec.reqs[i].ecs) /\ (habits = {} => c.id = NextEdgeCaseID(spec.reqs[i]))
    BY <2>1, <2>2, <2>3
  <2>10. Out
    BY <2>6, <2>8, <2>9, Zenon
  <2> QED
    BY <2>4, <2>8, <2>10
<1> QED
  BY <1>6, <1>7

\* What a caller refers to are ids.
LEMMA ChoiceTypes ==
  ASSUME NEW known \in SUBSET Id, NEW loose \in Id
  PROVE  RefChoices(known, loose) \subseteq SUBSET Id
BY DEF RefChoices

LEMMA LooseTypes == LooseReq \in Id /\ LooseCrit \in Id /\ LooseTest \in Id
<1>1. LooseReq \in ReqId
  BY EditingAssumption DEF LooseReq, ReqId
<1>2. LooseCrit \in CritId
  BY DEF LooseCrit, CritId
<1>3. LooseTest \in ItemId("smokes")
  BY KindTypes DEF LooseTest, ItemId
<1> QED
  BY <1>1, <1>2, <1>3, IdTypes, KindTypes

LEMMA ItemRefTypes ==
  ASSUME Shape(spec), NEW k \in Collections PROVE ItemRefs(k) \subseteq SUBSET Id
<1>1. /\ criterionIDs(spec) \in SUBSET Id /\ reqIDs(spec) \in SUBSET Id
      /\ Ids(spec.items.props) \in SUBSET Id /\ Ids(spec.items.paths) \in SUBSET Id
  BY KnownIds, IdTypes, KindTypes
<1>2. /\ RefChoices(criterionIDs(spec), LooseCrit) \subseteq SUBSET Id
      /\ RefChoices(reqIDs(spec), LooseReq) \subseteq SUBSET Id
      /\ RefChoices(Ids(spec.items.props), LooseReq) \subseteq SUBSET Id
      /\ RefChoices(Ids(spec.items.paths), LooseReq) \subseteq SUBSET Id
  BY <1>1, LooseTypes, ChoiceTypes
<1> QED
  BY <1>2 DEF ItemRefs

LEMMA AddItemDoes ==
  ASSUME EInv, NEW k \in Collections, AddItem(k)
  PROVE  /\ Shape(spec') /\ OnlyItems /\ Has(Home(k)) /\ edits' \in Nat /\ habits' = habits
         /\ \A l \in Collections \ {k} : spec'.items[l] = spec.items[l]
         /\ \E x \in ItemOf(k) :
              /\ spec'.items[k] = Append(spec.items[k], x)
              /\ x.id \notin Ids(spec.items[k]) /\ x.refs \in ItemRefs(k)
              /\ habits = {} => x.id = NextID(k)
<1>1. Shape(spec) /\ Has(Home(k)) /\ spec.items[k] \in Seq(ItemOf(k))
  BY DEF EInv, AddItem, Shape
<1>2. PICK id \in OwnIds(NextID(k), {<<Foreign, TheKind(k), 1>>}), refs \in ItemRefs(k) :
        /\ id \notin Ids(spec.items[k])
        /\ Edit([spec EXCEPT !.items[k] = Append(@, Item(id, refs))])
  BY DEF AddItem
<1>3. id \in ItemId(k) /\ (habits = {} => id = NextID(k))
  <2>1. NextID(k) \in ItemId(k) /\ <<Foreign, TheKind(k), 1>> \in ItemId(k)
    BY <1>1, NextIdTypes DEF ItemId
  <2> QED
    BY <1>2, <2>1 DEF OwnIds
<1>4. PICK x \in ItemOf(k) : x = Item(id, refs) /\ x.id = id /\ x.refs = refs
  <2>1. refs \in SUBSET Id
    BY <1>1, ItemRefTypes
  <2>2. Item(id, refs) \in ItemOf(k) /\ Item(id, refs).id = id /\ Item(id, refs).refs = refs
    BY <1>3, <2>1 DEF Item, ItemOf
  <2> QED
    BY <2>2
<1>5. PICK q \in Seq(ItemOf(k)) : q = Append(spec.items[k], x)
  <2>1. Append(spec.items[k], x) \in Seq(ItemOf(k))
    BY <1>1
  <2> QED
    BY <2>1
<1>6. spec' = [spec EXCEPT !.items[k] = q] /\ habits' = habits /\ edits' \in Nat
  BY <1>2, <1>4, <1>5 DEF Edit, EInv
<1>7. /\ Shape(spec') /\ OnlyItems /\ spec'.items[k] = q
      /\ \A l \in Collections \ {k} : spec'.items[l] = spec.items[l]
  BY <1>1, <1>6, WithItems
<1>8. x.id \notin Ids(spec.items[k]) /\ x.refs \in ItemRefs(k)
  BY <1>2, <1>4
<1> QED
  BY <1>1, <1>3, <1>4, <1>5, <1>6, <1>7, <1>8

LEMMA GlossaryDoes ==
  ASSUME EInv, SetGlossaryEntry \/ RemoveGlossaryEntry
  PROVE  /\ Shape(spec') /\ OnlyGroups /\ spec'.groups = spec.groups
         /\ edits' \in Nat /\ habits' = habits
<1>1. Shape(spec) /\ spec.glossary \in SUBSET Terms
  BY DEF EInv, Shape
<1>2. PICK g \in SUBSET Terms : Edit([spec EXCEPT !.glossary = g])
  BY <1>1 DEF SetGlossaryEntry, RemoveGlossaryEntry
<1> QED
  BY <1>1, <1>2, WithGlossary DEF Edit, EInv

LEMMA TraceDoes ==
  ASSUME EInv, AddTraceabilityEntry
  PROVE  /\ Shape(spec') /\ OnlyTrace /\ Has("tasks") /\ edits' \in Nat /\ habits' = habits
         /\ \E e \in TraceEntry :
              /\ spec'.trace = Append(spec.trace, e)
              /\ e.req \in reqIDs(spec) /\ e.test \in knownTestIDs(spec)
              /\ \A x \in Range(spec.trace) : <<x.req, x.test>> # <<e.req, e.test>>
<1>1. Shape(spec) /\ spec.trace \in Seq(TraceEntry) /\ Has("tasks")
  BY DEF EInv, Shape, AddTraceabilityEntry
<1>2. PICK c \in reqIDs(spec), t \in knownTestIDs(spec), task \in SubtaskIds(spec) :
        /\ \A x \in Range(spec.trace) : <<x.req, x.test>> # <<c, t>>
        /\ Edit([spec EXCEPT !.trace = Append(@, [req |-> c, test |-> t, task |-> task])])
  BY DEF AddTraceabilityEntry
<1>3. task \in Nat \X Nat
  <2>1. \A g \in Range(spec.groups) : g \in TaskGroup
    BY <1>1 DEF Shape, Range
  <2>2. \A g \in Range(spec.groups) : \A u \in Range(g.subs) : u \in Subtask
    BY <2>1 DEF TaskGroup, Range
  <2>3. \A u \in Subtasks(spec) : u.id \in Nat \X Nat
    BY <2>2 DEF Subtasks, Subtask
  <2> QED
    BY <2>3 DEF SubtaskIds
<1>4. PICK e \in TraceEntry : e = [req |-> c, test |-> t, task |-> task]
  BY <1>1, <1>3, KnownIds DEF TraceEntry
<1>5. PICK q \in Seq(TraceEntry) : q = Append(spec.trace, e)
  <2>1. Append(spec.trace, e) \in Seq(TraceEntry)
    BY <1>1
  <2> QED
    BY <2>1
<1>6. spec' = [spec EXCEPT !.trace = q] /\ habits' = habits /\ edits' \in Nat
  BY <1>2, <1>4, <1>5 DEF Edit, EInv
<1>7. Shape(spec') /\ OnlyTrace /\ spec'.trace = q
  BY <1>1, <1>6, WithTrace
<1>8. e.req = c /\ e.test = t
  BY <1>4
<1>9. \A x \in Range(spec.trace) : <<x.req, x.test>> # <<e.req, e.test>>
  BY <1>2, <1>8
<1> QED
  BY <1>1, <1>5, <1>6, <1>7, <1>8, <1>9

LEMMA AddGroupDoes ==
  ASSUME EInv, AddTaskGroup
  PROVE  /\ Shape(spec') /\ OnlyGroups /\ edits' \in Nat /\ habits' = habits
         /\ \E g \in TaskGroup :
              /\ spec'.groups = Append(spec.groups, g) /\ g.id \notin Ids(spec.groups)
              /\ g.subs = <<>>
<1>1. Shape(spec) /\ spec.groups \in Seq(TaskGroup) /\ Len(spec.groups) + 1 \in Nat
  BY DEF EInv, Shape
<1>2. PICK kind \in {"standard", "wiring_verification"} :
        /\ Len(spec.groups) + 1 \notin Ids(spec.groups)
        /\ Edit([spec EXCEPT !.groups = Append(@, Group(Len(spec.groups) + 1, kind, FALSE))])
  BY DEF AddTaskGroup
<1>3. PICK g \in TaskGroup : /\ g = Group(Len(spec.groups) + 1, kind, FALSE)
                             /\ g.id = Len(spec.groups) + 1 /\ g.subs = <<>>
  <2>1. kind \in GroupKinds
    BY DEF GroupKinds
  <2>2. <<>> \in Seq(Subtask)
    OBVIOUS
  <2>3. Group(Len(spec.groups) + 1, kind, FALSE) \in TaskGroup
    BY <1>1, <2>1, <2>2 DEF Group, TaskGroup
  <2> QED
    BY <2>3 DEF Group
<1>4. PICK q \in Seq(TaskGroup) : q = Append(spec.groups, g)
  <2>1. Append(spec.groups, g) \in Seq(TaskGroup)
    BY <1>1
  <2> QED
    BY <2>1
<1>5. spec' = [spec EXCEPT !.groups = q] /\ habits' = habits /\ edits' \in Nat
  BY <1>2, <1>3, <1>4 DEF Edit, EInv
<1>6. Shape(spec') /\ OnlyGroups /\ spec'.groups = q
  BY <1>1, <1>5, WithGroups
<1> QED
  BY <1>2, <1>3, <1>4, <1>5, <1>6

LEMMA AddSubtaskDoes ==
  ASSUME EInv, AddSubtask
  PROVE  /\ Shape(spec') /\ OnlyGroups /\ edits' \in Nat /\ habits' = habits
         /\ \E i \in DOMAIN spec.groups, g \in TaskGroup, t \in Subtask :
              /\ spec'.groups = [spec.groups EXCEPT ![i] = g]
              /\ g.id = spec.groups[i].id
              /\ g.subs = Append(spec.groups[i].subs, t)
              /\ t.id \notin Ids(spec.groups[i].subs)
              /\ Len(spec.groups[i].subs) < MaxItems
              /\ t.reqRefs \in RefChoices(Ids(spec.reqs), LooseReq)
              /\ t.testRefs \in RefChoices(knownTestIDs(spec), LooseTest)
              /\ habits = {} => t.id[1] = g.id
<1>1. Shape(spec) /\ spec.groups \in Seq(TaskGroup)
  BY DEF EInv, Shape
<1>2. PICK i \in DOMAIN spec.groups :
        /\ Len(spec.groups[i].subs) < MaxItems
        /\ \E id \in OwnIds(NextSubtaskID(spec.groups[i]), {<<1, 1>>}),
              reqRefs \in RefChoices(Ids(spec.reqs), LooseReq),
              testRefs \in RefChoices(knownTestIDs(spec), LooseTest),
              mentions \in RefChoices(Ids(spec.reqs), LooseReq) :
             /\ id \notin Ids(spec.groups[i].subs)
             /\ Edit([spec EXCEPT !.groups[i].subs =
                        Append(@, [id |-> id, state |-> "pending", reqRefs |-> reqRefs,
                                   testRefs |-> testRefs, mentions |-> mentions])])
  BY Zenon DEF AddSubtask
<1>3. PICK id \in OwnIds(NextSubtaskID(spec.groups[i]), {<<1, 1>>}),
           reqRefs \in RefChoices(Ids(spec.reqs), LooseReq),
           testRefs \in RefChoices(knownTestIDs(spec), LooseTest),
           mentions \in RefChoices(Ids(spec.reqs), LooseReq) :
        /\ id \notin Ids(spec.groups[i].subs)
        /\ Edit([spec EXCEPT !.groups[i].subs =
                   Append(@, [id |-> id, state |-> "pending", reqRefs |-> reqRefs,
                              testRefs |-> testRefs, mentions |-> mentions])])
  BY <1>2, Zenon
<1>4. spec.groups[i] \in TaskGroup
  BY <1>1
<1>5. id \in Nat \X Nat
  <2>1. Len(spec.groups[i].subs) + 1 \in Nat /\ spec.groups[i].id \in Nat
    BY <1>4 DEF TaskGroup
  <2>2. NextSubtaskID(spec.groups[i]) \in Nat \X Nat /\ <<1, 1>> \in Nat \X Nat
    BY <2>1 DEF NextSubtaskID
  <2> QED
    BY <1>3, <2>2 DEF OwnIds
<1>6. reqRefs \in SUBSET Id /\ testRefs \in SUBSET Id /\ mentions \in SUBSET Id
  <2>1. Ids(spec.reqs) \in SUBSET Id /\ knownTestIDs(spec) \in SUBSET Id
    BY <1>1, KnownIds, IdTypes
  <2>2. /\ RefChoices(Ids(spec.reqs), LooseReq) \subseteq SUBSET Id
        /\ RefChoices(knownTestIDs(spec), LooseTest) \subseteq SUBSET Id
    BY <2>1, LooseTypes, ChoiceTypes
  <2> QED
    BY <1>3, <2>2
<1>7. PICK t \in Subtask : t = [id |-> id, state |-> "pending", reqRefs |-> reqRefs,
                                testRefs |-> testRefs, mentions |-> mentions]
  BY <1>5, <1>6 DEF Subtask, States
<1>8. t.id = id /\ t.reqRefs = reqRefs /\ t.testRefs = testRefs
  BY <1>7
<1>9. PICK g \in TaskGroup : g = [spec.groups[i] EXCEPT !.subs = Append(@, t)]
  <2>1. Append(spec.groups[i].subs, t) \in Seq(Subtask)
    BY <1>4 DEF TaskGroup
  <2> QED
    BY <1>4, <2>1 DEF TaskGroup
<1>10. g.id = spec.groups[i].id /\ g.subs = Append(spec.groups[i].subs, t)
  BY <1>4, <1>9 DEF TaskGroup
<1>11. PICK q \in Seq(TaskGroup) : q = [spec.groups EXCEPT ![i] = g]
  BY <1>1, ReplaceAt
<1>12. /\ spec' = [spec EXCEPT !.groups[i].subs = Append(@, t)]
       /\ habits' = habits /\ edits' \in Nat
  BY <1>3, <1>7 DEF Edit, EInv
<1>13. spec' = [spec EXCEPT !.groups = q]
  BY <1>9, <1>11, <1>12, Zenon
<1>14. Shape(spec') /\ OnlyGroups /\ spec'.groups = q
  BY <1>1, <1>13, WithGroups
<1>15. \E j \in DOMAIN spec.groups, h \in TaskGroup, u \in Subtask :
              /\ spec'.groups = [spec.groups EXCEPT ![j] = h]
              /\ h.id = spec.groups[j].id
              /\ h.subs = Append(spec.groups[j].subs, u)
              /\ u.id \notin Ids(spec.groups[j].subs)
              /\ Len(spec.groups[j].subs) < MaxItems
              /\ u.reqRefs \in RefChoices(Ids(spec.reqs), LooseReq)
              /\ u.testRefs \in RefChoices(knownTestIDs(spec), LooseTest)
              /\ habits = {} => u.id[1] = h.id
  <2>1. t.id \notin Ids(spec.groups[i].subs) /\ Len(spec.groups[i].subs) < MaxItems
    BY <1>2, <1>3, <1>8
  <2>2. habits = {} => t.id[1] = g.id
    BY <1>3, <1>8, <1>10 DEF OwnIds, NextSubtaskID
  <2> QED
    BY <1>8, <1>10, <1>11, <1>14, <2>1, <2>2, Zenon
<1> QED
  BY <1>12, <1>14, <1>15

\* The steps that change nothing but states.
Alike(g, h) ==
  /\ h.id = g.id /\ h.kind = g.kind /\ h.stub = g.stub /\ Len(h.subs) = Len(g.subs)
  /\ \A j \in DOMAIN g.subs :
       /\ h.subs[j].id = g.subs[j].id /\ h.subs[j].reqRefs = g.subs[j].reqRefs
       /\ h.subs[j].testRefs = g.subs[j].testRefs

LEMMA NewState ==
  ASSUME NEW t \in Subtask, NEW x \in States
  PROVE  LET u == [t EXCEPT !.state = x]
         IN  /\ u \in Subtask /\ u.id = t.id
             /\ u.reqRefs = t.reqRefs /\ u.testRefs = t.testRefs
BY DEF Subtask

LEMMA NewSubs ==
  ASSUME NEW g \in TaskGroup, NEW subs \in Seq(Subtask), Len(subs) = Len(g.subs),
         \A j \in DOMAIN g.subs :
           /\ subs[j].id = g.subs[j].id /\ subs[j].reqRefs = g.subs[j].reqRefs
           /\ subs[j].testRefs = g.subs[j].testRefs
  PROVE  LET h == [g EXCEPT !.subs = subs] IN h \in TaskGroup /\ Alike(g, h)
BY DEF TaskGroup, Alike

LEMMA SetStatesDoes ==
  ASSUME NEW g \in TaskGroup, NEW x \in States
  PROVE  SetStates(g, x) \in TaskGroup /\ Alike(g, SetStates(g, x))
<1> DEFINE subs == [j \in DOMAIN g.subs |-> [g.subs[j] EXCEPT !.state = x]]
<1>1. g.subs \in Seq(Subtask) /\ DOMAIN g.subs = 1..Len(g.subs) /\ Len(g.subs) \in Nat
  BY DEF TaskGroup
<1>2. \A j \in DOMAIN g.subs : g.subs[j] \in Subtask
  BY <1>1
<1>3. subs \in Seq(Subtask) /\ Len(subs) = Len(g.subs)
  BY <1>1, <1>2, NewState
<1>4. \A j \in DOMAIN g.subs :
        /\ subs[j].id = g.subs[j].id /\ subs[j].reqRefs = g.subs[j].reqRefs
        /\ subs[j].testRefs = g.subs[j].testRefs
  BY <1>2, NewState
<1>5. SetStates(g, x) = [g EXCEPT !.subs = subs]
  BY DEF SetStates
<1> HIDE DEF subs
<1> QED
  BY <1>3, <1>4, <1>5, NewSubs

LEMMA IsSequence ==
  ASSUME NEW S, NEW n \in Nat, NEW f, f = [i \in 1..n |-> f[i]],
         \A i \in 1..n : f[i] \in S
  PROVE  f \in Seq(S) /\ Len(f) = n /\ DOMAIN f = 1..n
<1>1. f \in [1..n -> S]
  BY Zenon
<1>2. f \in Seq(S)
  BY <1>1
<1>3. DOMAIN f = 1..n
  BY <1>1
<1> QED
  BY <1>2, <1>3

LEMMA InGroupsDoes ==
  ASSUME Shape(spec), NEW ids, NEW x \in States, spec' = InGroups(ids, x)
  PROVE  /\ Shape(spec') /\ OnlyGroups /\ DOMAIN spec'.groups = DOMAIN spec.groups
         /\ \A i \in DOMAIN spec.groups : Alike(spec.groups[i], spec'.groups[i])
<1>1. /\ spec.groups \in Seq(TaskGroup) /\ Len(spec.groups) \in Nat
      /\ DOMAIN spec.groups = 1..Len(spec.groups)
  BY DEF Shape
<1> DEFINE Q == [i \in DOMAIN spec.groups |->
                   IF spec.groups[i].id \in ids THEN SetStates(spec.groups[i], x)
                   ELSE spec.groups[i]]
<1>2. \A i \in DOMAIN spec.groups : /\ spec.groups[i] \in TaskGroup
                                    /\ Alike(spec.groups[i], spec.groups[i])
  BY <1>1 DEF Alike
<1>3. \A i \in DOMAIN spec.groups : Q[i] \in TaskGroup /\ Alike(spec.groups[i], Q[i])
  BY <1>2, SetStatesDoes
<1>5. spec' = [spec EXCEPT !.groups = Q]
  BY DEF InGroups
<1>9. Q = [i \in 1..Len(spec.groups) |-> Q[i]]
  BY <1>1
<1> HIDE DEF Q
<1>4. Q \in Seq(TaskGroup) /\ DOMAIN Q = DOMAIN spec.groups
  BY <1>1, <1>3, <1>9, IsSequence
<1>6. Shape(spec') /\ spec'.groups = Q /\ OnlyGroups
  BY <1>4, <1>5, WithGroups
<1> QED
  BY <1>3, <1>4, <1>6

LEMMA TransitionDoes ==
  ASSUME Shape(spec), NEW a, NEW b, NEW x \in States,
         spec' = [spec EXCEPT !.groups[a].subs[b].state = x]
  PROVE  /\ Shape(spec') /\ OnlyGroups /\ DOMAIN spec'.groups = DOMAIN spec.groups
         /\ \A i \in DOMAIN spec.groups : Alike(spec.groups[i], spec'.groups[i])
<1>1. /\ spec.groups \in Seq(TaskGroup) /\ Len(spec.groups) \in Nat
      /\ DOMAIN spec.groups = 1..Len(spec.groups)
  BY DEF Shape
<1> DEFINE subs == [spec.groups[a].subs EXCEPT ![b] = [spec.groups[a].subs[b] EXCEPT !.state = x]]
           g    == [spec.groups[a] EXCEPT !.subs = subs]
           Q    == [spec.groups EXCEPT ![a] = g]
<1>2. \A i \in DOMAIN spec.groups : /\ spec.groups[i] \in TaskGroup
                                    /\ Alike(spec.groups[i], spec.groups[i])
  BY <1>1 DEF Alike
<1>3. ASSUME a \in DOMAIN spec.groups PROVE g \in TaskGroup /\ Alike(spec.groups[a], g)
  <2>1. /\ spec.groups[a] \in TaskGroup /\ spec.groups[a].subs \in Seq(Subtask)
        /\ DOMAIN spec.groups[a].subs = 1..Len(spec.groups[a].subs)
        /\ Len(spec.groups[a].subs) \in Nat
    BY <1>2, <1>3 DEF TaskGroup
  <2>2. \A j \in DOMAIN spec.groups[a].subs : spec.groups[a].subs[j] \in Subtask
    BY <2>1
  <2>3. \A j \in DOMAIN spec.groups[a].subs :
          subs[j] = IF j = b THEN [spec.groups[a].subs[j] EXCEPT !.state = x]
                    ELSE spec.groups[a].subs[j]
    OBVIOUS
  <2>4. \A j \in DOMAIN spec.groups[a].subs :
          /\ subs[j] \in Subtask /\ subs[j].id = spec.groups[a].subs[j].id
          /\ subs[j].reqRefs = spec.groups[a].subs[j].reqRefs
          /\ subs[j].testRefs = spec.groups[a].subs[j].testRefs
    BY <2>2, <2>3, NewState
  <2>5. DOMAIN subs = DOMAIN spec.groups[a].subs
    OBVIOUS
  <2>6. subs = [j \in DOMAIN spec.groups[a].subs |-> subs[j]]
    BY <2>5
  <2> HIDE DEF subs, g, Q
  <2>7. subs \in Seq(Subtask) /\ Len(subs) = Len(spec.groups[a].subs)
    <3>1. subs = [j \in 1..Len(spec.groups[a].subs) |-> subs[j]]
      BY <2>1, <2>6
    <3>2. \A j \in 1..Len(spec.groups[a].subs) : subs[j] \in Subtask
      BY <2>1, <2>4
    <3>3. Len(spec.groups[a].subs) \in Nat
      BY <2>1
    <3>4. subs \in [1..Len(spec.groups[a].subs) -> Subtask]
      BY <3>1, <3>2, Zenon
    <3> QED
      BY <3>3, <3>4
  <2>8. g = [spec.groups[a] EXCEPT !.subs = subs]
    BY DEF g
  <2> QED
    BY <2>1, <2>4, <2>7, <2>8, NewSubs
<1>4. /\ DOMAIN Q = DOMAIN spec.groups
      /\ \A i \in DOMAIN spec.groups : Q[i] = IF i = a THEN g ELSE spec.groups[i]
      /\ Q = [i \in DOMAIN spec.groups |-> Q[i]]
  BY <1>1
<1>5. spec' = [spec EXCEPT !.groups = Q]
  BY Zenon
<1> HIDE DEF g, Q
<1>6. \A i \in DOMAIN spec.groups : Q[i] \in TaskGroup /\ Alike(spec.groups[i], Q[i])
  BY <1>2, <1>3, <1>4
<1>7. Q \in Seq(TaskGroup)
  <2>1. Q = [i \in 1..Len(spec.groups) |-> Q[i]] /\ \A i \in 1..Len(spec.groups) : Q[i] \in TaskGroup
    BY <1>1, <1>4, <1>6
  <2> QED
    BY <1>1, <2>1, IsSequence
<1>8. Shape(spec') /\ spec'.groups = Q /\ OnlyGroups
  BY <1>5, <1>7, WithGroups
<1> QED
  BY <1>4, <1>6, <1>8

LEMMA StatesDo ==
  ASSUME EInv, TransitionSome \/ CompleteSubtaskStates \/ ResetSubtaskStates
  PROVE  /\ Shape(spec') /\ OnlyGroups /\ edits' \in Nat /\ habits' = habits
         /\ DOMAIN spec'.groups = DOMAIN spec.groups
         /\ \A i \in DOMAIN spec.groups : Alike(spec.groups[i], spec'.groups[i])
<1>1. Shape(spec)
  BY DEF EInv
<1>2. CASE TransitionSome
  <2>0. PICK id \in SubtaskIds(spec), x \in States : TransitionSubtask(id, x)
    BY <1>2 DEF TransitionSome
  <2> DEFINE p == FirstPlace(spec, id)
  <2>1. Edit([spec EXCEPT !.groups[p[1]].subs[p[2]].state = x])
    BY <2>0, Zenon DEF TransitionSubtask
  <2>2. /\ spec' = [spec EXCEPT !.groups[p[1]].subs[p[2]].state = x]
        /\ edits' \in Nat /\ habits' = habits
    BY <2>1 DEF Edit, EInv
  <2> HIDE DEF p
  <2> QED
    BY <1>1, <2>2, TransitionDoes
<1>3. CASE CompleteSubtaskStates
  <2>1. PICK ids \in {Ids(spec.groups)} \cup {{n} : n \in Ids(spec.groups)} :
          Edit(InGroups(ids, "done"))
    BY <1>3, Zenon DEF CompleteSubtaskStates
  <2>2. spec' = InGroups(ids, "done") /\ edits' \in Nat /\ habits' = habits
    BY <2>1 DEF Edit, EInv
  <2>3. "done" \in States
    BY DEF States
  <2> QED
    BY <1>1, <2>2, <2>3, InGroupsDoes
<1>4. CASE ResetSubtaskStates
  <2>1. PICK n \in Ids(spec.groups) : Edit(InGroups({n}, "pending"))
    BY <1>4 DEF ResetSubtaskStates
  <2>2. spec' = InGroups({n}, "pending") /\ edits' \in Nat /\ habits' = habits
    BY <2>1 DEF Edit, EInv
  <2>3. "pending" \in States
    BY DEF States
  <2> QED
    BY <1>1, <2>2, <2>3, InGroupsDoes
<1> QED
  BY <1>2, <1>3, <1>4

LEMMA ScaffoldTypes ==
  /\ Scaffold \in Seq(TaskGroup)
  /\ \A i \in DOMAIN Scaffold : Scaffold[i].subs = <<>>
<1>1. <<>> \in Seq(Subtask)
  OBVIOUS
<1>2. \A n \in Nat, kind \in GroupKinds, stub \in BOOLEAN :
        Group(n, kind, stub) \in TaskGroup /\ Group(n, kind, stub).id = n
        /\ Group(n, kind, stub).subs = <<>>
  BY <1>1 DEF Group, TaskGroup
<1>0. 1 \in Nat /\ 2 \in Nat /\ "tests" \in GroupKinds /\ "wiring_verification" \in GroupKinds
  BY DEF GroupKinds
<1>3. /\ Group(1, "tests", FALSE) \in TaskGroup
      /\ Group(2, "wiring_verification", TRUE) \in TaskGroup
  BY <1>0, <1>2, Zenon
<1>4. /\ Group(1, "tests", FALSE).id = 1 /\ Group(1, "tests", FALSE).subs = <<>>
      /\ Group(2, "wiring_verification", TRUE).id = 2
      /\ Group(2, "wiring_verification", TRUE).subs = <<>>
  BY <1>0, <1>2, Zenon
<1>5. Scaffold \in Seq(TaskGroup)
  <2>1. ASSUME NEW S, NEW x \in S, NEW y \in S PROVE <<x, y>> \in Seq(S)
    OBVIOUS
  <2> QED
    BY <1>3, <2>1, Zenon DEF Scaffold
<1>6. /\ DOMAIN Scaffold = {1, 2}
      /\ Scaffold[1] = Group(1, "tests", FALSE)
      /\ Scaffold[2] = Group(2, "wiring_verification", TRUE)
  BY DEF Scaffold
<1> QED
  BY <1>4, <1>5, <1>6

LEMMA BootstrapDoes ==
  ASSUME EInv, SetArtifact \/ SetPRD
  PROVE  /\ Shape(spec') /\ edits' \in Nat /\ habits' = habits
         /\ spec'.reqs = spec.reqs /\ spec'.items = spec.items /\ spec'.trace = spec.trace
         /\ spec'.groups = spec.groups \/ spec'.groups = Scaffold
         /\ \A a \in Artifacts : Has(a) => spec'.heads[a] = spec.heads[a]
<1>1. Shape(spec)
  BY DEF EInv
<1>2. CASE SetArtifact
  <2>1. PICK a \in Artifacts, head \in {Identity, <<Foreign, Name>>, <<SpecId, "other">>} :
         /\ spec.heads[a] = Nil
         /\ spec' = [spec EXCEPT !.heads[a] = head,
                                 !.groups = IF a = "tasks" THEN Scaffold ELSE @]
         /\ UNCHANGED <<edits, habits>>
    BY <1>2 DEF SetArtifact
  <2>2. head \in Heads
    BY DEF Heads, Identity
  <2>3. PICK q \in Seq(TaskGroup) : /\ q = IF a = "tasks" THEN Scaffold ELSE spec.groups
                                    /\ q = spec.groups \/ q = Scaffold
    BY <1>1, ScaffoldTypes DEF Shape
  <2>4. PICK h \in [Artifacts -> {Nil} \cup Heads] : h = [spec.heads EXCEPT ![a] = head]
    BY <1>1, <2>2 DEF Shape
  <2>5. spec' = [spec EXCEPT !.heads = h, !.groups = q]
    BY <2>1, <2>3, <2>4
  <2>6. /\ Shape(spec') /\ spec'.heads = h /\ spec'.groups = q
        /\ spec'.reqs = spec.reqs /\ spec'.items = spec.items /\ spec'.trace = spec.trace
    BY <1>1, <2>5 DEF Shape
  <2>7. \A b \in Artifacts : Has(b) => h[b] = spec.heads[b]
    BY <1>1, <2>1, <2>4 DEF Has, Shape
  <2> QED
    BY <2>1, <2>3, <2>6, <2>7 DEF EInv
<1>3. CASE SetPRD
  BY <1>1, <1>3 DEF SetPRD, Shape, EInv
<1> QED
  BY <1>2, <1>3

-----------------------------------------------------------------------------
(***************************************************************************)
(* What a specification begins as.                                         *)
(***************************************************************************)
LEMMA Empty ==
  ASSUME NEW S
  PROVE  /\ <<>> \in Seq(S) /\ DOMAIN <<>> = {} /\ Range(<<>>) = {}
         /\ DistinctIds(<<>>) /\ Len(<<>>) = 0
BY DEF Range, DistinctIds

LEMMA Singleton ==
  ASSUME NEW S, NEW x \in S
  PROVE  /\ <<x>> \in Seq(S) /\ DOMAIN <<x>> = {1} /\ <<x>>[1] = x
         /\ Range(<<x>>) = {x} /\ Len(<<x>>) = 1
         /\ DistinctIds(<<x>>)
<1>1. <<x>> \in Seq(S) /\ DOMAIN <<x>> = {1} /\ <<x>>[1] = x /\ Len(<<x>>) = 1
  OBVIOUS
<1> QED
  BY <1>1 DEF Range, DistinctIds

LEMMA CreateTypes ==
  /\ CreateSpec \in [sid : {SpecId}, name : {Name}, folder : {Nil, Identity}, prd : BOOLEAN,
            heads : [Artifacts -> {Nil} \cup Heads], glossary : SUBSET Terms,
            reqs : Seq(Requirement), items : [Collections -> Seq(AnyItem)],
            groups : Seq(TaskGroup), trace : Seq(TraceEntry)]
  /\ CreateSpec.reqs = <<>> /\ CreateSpec.items = [k \in Collections |-> <<>>]
  /\ CreateSpec.groups = Scaffold /\ CreateSpec.trace = <<>>
  /\ CreateSpec.heads = [a \in Artifacts |-> Identity]
<1>1. /\ <<>> \in Seq(Requirement) /\ <<>> \in Seq(TraceEntry) /\ <<>> \in Seq(AnyItem)
  OBVIOUS
<1>2. [k \in Collections |-> <<>>] \in [Collections -> Seq(AnyItem)]
  BY <1>1
<1>3. [a \in Artifacts |-> Identity] \in [Artifacts -> {Nil} \cup Heads]
  BY DEF Identity, Heads
<1>4. Scaffold \in Seq(TaskGroup)
  BY ScaffoldTypes
<1> QED
  BY <1>1, <1>2, <1>3, <1>4 DEF CreateSpec

LEMMA CreateShape == Shape(CreateSpec) /\ Named(CreateSpec)
<1>1. \A k \in Collections : CreateSpec.items[k] = <<>>
  BY CreateTypes
<1>2. \A k \in Collections : <<>> \in Seq(ItemOf(k))
  OBVIOUS
<1>3. Shape(CreateSpec)
  BY <1>1, <1>2, CreateTypes DEF Shape
<1>4. DOMAIN <<>> = {} /\ DistinctIds(<<>>)
  BY Empty
<1> QED
  BY <1>1, <1>3, <1>4, CreateTypes DEF Named

LEMMA BootstrapShape ==
  /\ Shape(NewBootstrapSpec) /\ Named(NewBootstrapSpec)
  /\ NewBootstrapSpec.reqs = <<>> /\ NewBootstrapSpec.groups = <<>>
  /\ NewBootstrapSpec.items = [k \in Collections |-> <<>>] /\ NewBootstrapSpec.trace = <<>>
<1> DEFINE h == [a \in Artifacts |-> Nil]
<1>1. h \in [Artifacts -> {Nil} \cup Heads]
  OBVIOUS
<1>2. NewBootstrapSpec = [CreateSpec EXCEPT !.heads = h, !.groups = <<>>]
  BY DEF NewBootstrapSpec
<1> HIDE DEF h
<1>3. <<>> \in Seq(TaskGroup)
  OBVIOUS
<1>4. /\ NewBootstrapSpec \in [sid : {SpecId}, name : {Name}, folder : {Nil, Identity},
            prd : BOOLEAN,
            heads : [Artifacts -> {Nil} \cup Heads], glossary : SUBSET Terms,
            reqs : Seq(Requirement), items : [Collections -> Seq(AnyItem)],
            groups : Seq(TaskGroup), trace : Seq(TraceEntry)]
      /\ NewBootstrapSpec.reqs = <<>> /\ NewBootstrapSpec.groups = <<>>
      /\ NewBootstrapSpec.items = [k \in Collections |-> <<>>] /\ NewBootstrapSpec.trace = <<>>
  BY <1>1, <1>2, <1>3, CreateTypes
<1>5. \A k \in Collections : NewBootstrapSpec.items[k] = <<>>
  BY <1>4
<1>6. \A k \in Collections : <<>> \in Seq(ItemOf(k))
  OBVIOUS
<1>7. DOMAIN <<>> = {} /\ DistinctIds(<<>>)
  BY Empty
<1> QED
  BY <1>4, <1>5, <1>6, <1>7 DEF Shape, Named

\* The complete specification has one of everything its rules ask for.
TheCrit  == [id |-> <<SpecId, "AC", 1, 1>>, pattern |-> "ubiquitous", fields |-> {},
             contract |-> FALSE, terms |-> {}]
TheReq   == [id |-> <<SpecId, "REQ", 1>>, ecs |-> <<>>, acs |-> <<TheCrit>>]
TheCase  == Item(<<SpecId, "TC", 1>>, {<<SpecId, "AC", 1, 1>>})
ThePath  == Item(<<SpecId, "PATH", 1>>, {})
TheSmoke == Item(<<SpecId, "SMOKE", 1>>, {<<SpecId, "PATH", 1>>})
TheTask  == [id |-> <<1, 1>>, state |-> "pending", reqRefs |-> {<<SpecId, "REQ", 1>>},
             testRefs |-> {}, mentions |-> {}]
TheCheck == [id |-> <<2, 1>>, state |-> "pending", reqRefs |-> {},
             testRefs |-> {<<SpecId, "SMOKE", 1>>}, mentions |-> {}]
TheTests  == [Group(1, "tests", FALSE) EXCEPT !.subs = <<TheTask>>]
TheWiring == [Group(2, "wiring_verification", TRUE) EXCEPT !.subs = <<TheCheck>>]
TheEntry  == [req |-> <<SpecId, "AC", 1, 1>>, test |-> <<SpecId, "TC", 1>>, task |-> <<1, 1>>]
TheItems  == [CreateSpec.items EXCEPT !.cases = <<TheCase>>, !.paths = <<ThePath>>,
                                      !.smokes = <<TheSmoke>>]

LEMMA PartTypes ==
  /\ TheReq \in Requirement /\ TheCrit \in Criterion
  /\ TheReq.acs = <<TheCrit>> /\ TheReq.ecs = <<>>
  /\ TheCase \in ItemOf("cases") /\ ThePath \in ItemOf("paths") /\ TheSmoke \in ItemOf("smokes")
  /\ TheTask \in Subtask /\ TheCheck \in Subtask
  /\ TheTests \in TaskGroup /\ TheTests.id = 1 /\ TheTests.subs = <<TheTask>>
  /\ TheWiring \in TaskGroup /\ TheWiring.id = 2 /\ TheWiring.subs = <<TheCheck>>
  /\ TheEntry \in TraceEntry
<1> DEFINE ri == <<SpecId, "REQ", 1>>
           ci == <<SpecId, "AC", 1, 1>>
           xi == <<SpecId, "TC", 1>>
           yi == <<SpecId, "PATH", 1>>
           zi == <<SpecId, "SMOKE", 1>>
<1>1. /\ ri \in ReqId /\ ci \in CritId /\ xi \in ItemId("cases") /\ yi \in ItemId("paths")
      /\ zi \in ItemId("smokes")
  BY KindTypes DEF ReqId, CritId, ItemId
<1>2. ri \in Id /\ ci \in Id /\ xi \in Id /\ yi \in Id /\ zi \in Id
  BY <1>1, IdTypes, KindTypes
<1>3. TheCrit \in Criterion
  BY <1>1 DEF Criterion, TheCrit
<1>4. TheReq \in Requirement /\ TheReq.acs = <<TheCrit>> /\ TheReq.ecs = <<>>
  <2>1. <<>> \in Seq(Criterion) /\ <<TheCrit>> \in Seq(Criterion)
    BY <1>3
  <2> QED
    BY <1>1, <2>1 DEF Requirement, TheReq
<1>5. TheCase \in ItemOf("cases") /\ ThePath \in ItemOf("paths") /\ TheSmoke \in ItemOf("smokes")
  BY <1>1, <1>2 DEF Item, ItemOf, TheCase, ThePath, TheSmoke
<1>6. TheTask \in Subtask /\ TheCheck \in Subtask
  <2>1. <<1, 1>> \in Nat \X Nat /\ <<2, 1>> \in Nat \X Nat /\ "pending" \in States
    BY DEF States
  <2> QED
    BY <1>2, <2>1 DEF Subtask, TheTask, TheCheck
<1>7. TheTests \in TaskGroup /\ TheTests.id = 1 /\ TheTests.subs = <<TheTask>>
  <2>1. <<TheTask>> \in Seq(Subtask) /\ "tests" \in GroupKinds /\ 1 \in Nat
    BY <1>6 DEF GroupKinds
  <2> QED
    BY <2>1 DEF Group, TaskGroup, TheTests
<1>8. TheWiring \in TaskGroup /\ TheWiring.id = 2 /\ TheWiring.subs = <<TheCheck>>
  <2>1. <<TheCheck>> \in Seq(Subtask) /\ "wiring_verification" \in GroupKinds /\ 2 \in Nat
    BY <1>6 DEF GroupKinds
  <2> QED
    BY <2>1 DEF Group, TaskGroup, TheWiring
<1>9. TheEntry \in TraceEntry
  BY <1>2 DEF TraceEntry, TheEntry
<1> QED
  BY <1>3, <1>4, <1>5, <1>6, <1>7, <1>8, <1>9

LEMMA CompleteIs ==
  Complete = [CreateSpec EXCEPT
    !.prd = TRUE, !.folder = Identity, !.reqs = <<TheReq>>, !.items = TheItems,
    !.groups = <<TheTests, TheWiring>>, !.trace = <<TheEntry>>]
<1>1. Scaffold[1] = Group(1, "tests", FALSE) /\ Scaffold[2] = Group(2, "wiring_verification", TRUE)
  BY DEF Scaffold
<1>2. <<TheTests, TheWiring>> = <<[CreateSpec.groups[1] EXCEPT !.subs = <<TheTask>>],
                                  [CreateSpec.groups[2] EXCEPT !.subs = <<TheCheck>>]>>
  BY <1>1, CreateTypes, Zenon DEF TheTests, TheWiring
<1> QED
  BY <1>2, Zenon DEF Complete, TheCrit, TheReq, TheCase, ThePath, TheSmoke, TheTask, TheCheck,
                     TheEntry, TheItems

LEMMA CompleteFields ==
  /\ Complete \in [sid : {SpecId}, name : {Name}, folder : {Nil, Identity}, prd : BOOLEAN,
            heads : [Artifacts -> {Nil} \cup Heads], glossary : SUBSET Terms,
            reqs : Seq(Requirement), items : [Collections -> Seq(AnyItem)],
            groups : Seq(TaskGroup), trace : Seq(TraceEntry)]
  /\ Complete.reqs = <<TheReq>> /\ Complete.items = TheItems
  /\ Complete.groups = <<TheTests, TheWiring>> /\ Complete.trace = <<TheEntry>>
  /\ Complete.heads = [a \in Artifacts |-> Identity]
  /\ TheItems["cases"] = <<TheCase>> /\ TheItems["paths"] = <<ThePath>>
  /\ TheItems["smokes"] = <<TheSmoke>>
  /\ \A k \in Collections \ {"cases", "paths", "smokes"} : TheItems[k] = <<>>
  /\ \A k \in Collections : TheItems[k] \in Seq(ItemOf(k))
<1>1. /\ TheItems = [k \in Collections |-> TheItems[k]]
      /\ TheItems["cases"] = <<TheCase>> /\ TheItems["paths"] = <<ThePath>>
      /\ TheItems["smokes"] = <<TheSmoke>>
      /\ \A k \in Collections \ {"cases", "paths", "smokes"} : TheItems[k] = <<>>
  BY CreateTypes, KindTypes DEF TheItems
<1>2. \A k \in Collections : TheItems[k] \in Seq(ItemOf(k))
  <2>1. /\ <<TheCase>> \in Seq(ItemOf("cases")) /\ <<ThePath>> \in Seq(ItemOf("paths"))
        /\ <<TheSmoke>> \in Seq(ItemOf("smokes"))
    BY PartTypes
  <2>2. \A k \in Collections : <<>> \in Seq(ItemOf(k))
    OBVIOUS
  <2> QED
    BY <1>1, <2>1, <2>2
<1>3. TheItems \in [Collections -> Seq(AnyItem)]
  <2>1. \A k \in Collections : ItemOf(k) \subseteq AnyItem
    BY IdTypes DEF ItemOf, AnyItem
  <2>2. \A k \in Collections : TheItems[k] \in Seq(AnyItem)
    BY <1>2, <2>1
  <2> QED
    BY <1>1, <2>2
<1>4. /\ <<TheReq>> \in Seq(Requirement) /\ <<TheEntry>> \in Seq(TraceEntry)
      /\ <<TheTests, TheWiring>> \in Seq(TaskGroup)
  BY PartTypes
<1>5. PICK q1 \in Seq(Requirement), q2 \in Seq(TaskGroup), q3 \in Seq(TraceEntry) :
        q1 = <<TheReq>> /\ q2 = <<TheTests, TheWiring>> /\ q3 = <<TheEntry>>
  BY <1>4
<1>6. Complete = [CreateSpec EXCEPT !.prd = TRUE, !.folder = Identity, !.reqs = q1,
                                    !.items = TheItems, !.groups = q2, !.trace = q3]
  BY <1>5, CompleteIs, Zenon
<1>7. /\ Complete \in [sid : {SpecId}, name : {Name}, folder : {Nil, Identity}, prd : BOOLEAN,
            heads : [Artifacts -> {Nil} \cup Heads], glossary : SUBSET Terms,
            reqs : Seq(Requirement), items : [Collections -> Seq(AnyItem)],
            groups : Seq(TaskGroup), trace : Seq(TraceEntry)]
      /\ Complete.reqs = q1 /\ Complete.items = TheItems /\ Complete.groups = q2
      /\ Complete.trace = q3 /\ Complete.heads = CreateSpec.heads
  BY <1>3, <1>6, CreateTypes
<1> QED
  BY <1>1, <1>2, <1>5, <1>7, CreateTypes

LEMMA CompleteShape == Shape(Complete) /\ Named(Complete)
<1>1. Shape(Complete)
  BY CompleteFields DEF Shape
<1>2. \A k \in Collections : DistinctIds(Complete.items[k])
  <2>1. /\ DistinctIds(<<TheCase>>) /\ DistinctIds(<<ThePath>>) /\ DistinctIds(<<TheSmoke>>)
        /\ DistinctIds(<<>>)
    BY Singleton, Empty
  <2> QED
    BY <2>1, CompleteFields
<1>3. /\ DistinctIds(<<TheReq>>) /\ DOMAIN <<TheReq>> = {1} /\ <<TheReq>>[1] = TheReq
      /\ DistinctIds(TheReq.acs) /\ DistinctIds(TheReq.ecs)
  BY PartTypes, Singleton, Empty
<1>4. \A i \in DOMAIN Complete.reqs :
        DistinctIds(Complete.reqs[i].acs) /\ DistinctIds(Complete.reqs[i].ecs)
  BY <1>3, CompleteFields
<1> QED
  BY <1>1, <1>2, <1>3, <1>4, CompleteFields DEF Named

\* The same specification under another plan made of the same subtasks.
Replanned(s) ==
  \E q \in Seq(TaskGroup) :
    /\ s = [Complete EXCEPT !.groups = q]
    /\ \A g \in Range(q) : Range(g.subs) \subseteq {TheTask, TheCheck}

LEMMA ReplannedShape ==
  ASSUME NEW s, Replanned(s)
  PROVE  /\ Shape(s) /\ Named(s)
         /\ s.reqs = Complete.reqs /\ s.items = Complete.items /\ s.trace = Complete.trace
         /\ s.heads = Complete.heads
         /\ \A g \in Range(s.groups) : Range(g.subs) \subseteq {TheTask, TheCheck}
<1>1. PICK q \in Seq(TaskGroup) :
         /\ s = [Complete EXCEPT !.groups = q]
         /\ \A g \in Range(q) : Range(g.subs) \subseteq {TheTask, TheCheck}
  BY DEF Replanned
<1>2. /\ Shape(s) /\ s.groups = q /\ s.reqs = Complete.reqs /\ s.items = Complete.items
      /\ s.trace = Complete.trace /\ s.heads = Complete.heads
  BY <1>1, CompleteShape DEF Shape
<1> QED
  BY <1>1, <1>2, CompleteShape DEF Named

LEMMA PlansWithRepeats == Replanned(Repeats) /\ Replanned(Twins)
<1> DEFINE double == [TheTests EXCEPT !.subs = <<TheTask, TheTask>>]
           twin   == [TheTests EXCEPT !.kind = "standard"]
<1>1. /\ Complete.groups = <<TheTests, TheWiring>> /\ TheTests.subs = <<TheTask>>
      /\ TheTests \in TaskGroup /\ TheWiring \in TaskGroup /\ TheTask \in Subtask
      /\ TheWiring.subs = <<TheCheck>>
  BY CompleteFields, PartTypes
<1>2. <<TheTask, TheTask>> \in Seq(Subtask) /\ "standard" \in GroupKinds
  BY <1>1 DEF GroupKinds
<1>3. /\ double \in TaskGroup /\ double.subs = <<TheTask, TheTask>>
      /\ twin \in TaskGroup /\ twin.subs = <<TheTask>>
  BY <1>1, <1>2 DEF TaskGroup
<1>4. /\ Range(<<TheTask>>) = {TheTask} /\ Range(<<TheCheck>>) = {TheCheck}
      /\ Range(<<TheTask, TheTask>>) = {TheTask}
  <2>1. \A x : /\ DOMAIN <<x, x>> = {1, 2} /\ <<x, x>>[1] = x /\ <<x, x>>[2] = x
               /\ DOMAIN <<x>> = {1} /\ <<x>>[1] = x
    OBVIOUS
  <2>2. \A x : Range(<<x, x>>) = {x} /\ Range(<<x>>) = {x}
    BY <2>1 DEF Range
  <2> QED
    BY <2>2
<1>5. Repeats = [Complete EXCEPT !.groups = <<double, TheWiring>>]
  <2>1. [Complete.groups EXCEPT ![1] = double] = <<double, TheWiring>>
    BY <1>1
  <2>2. double = [Complete.groups[1] EXCEPT !.subs = <<@[1], @[1]>>]
    BY <1>1
  <2> HIDE DEF double
  <2> QED
    BY <2>1, <2>2, Zenon DEF Repeats
<1>6. Twins = [Complete EXCEPT !.groups = <<TheTests, twin, TheWiring>>]
  BY <1>1 DEF Twins
<1> HIDE DEF double, twin
<1>7. <<double, TheWiring>> \in Seq(TaskGroup) /\ <<TheTests, twin, TheWiring>> \in Seq(TaskGroup)
  BY <1>1, <1>3
<1>8. /\ Range(<<double, TheWiring>>) = {double, TheWiring}
      /\ Range(<<TheTests, twin, TheWiring>>) = {TheTests, twin, TheWiring}
  BY DEF Range
<1>9. \A g \in {double, TheWiring, TheTests, twin} : Range(g.subs) \subseteq {TheTask, TheCheck}
  BY <1>1, <1>3, <1>4
<1> QED
  BY <1>5, <1>6, <1>7, <1>8, <1>9 DEF Replanned

LEMMA EInit == ASSUME Init PROVE EInv
<1>1. PICK start \in Starts :
        spec = Beginning[start[1]] /\ habits = start[2] /\ edits = start[3]
  BY DEF Init
<1>2. /\ start[1] \in {"created", "complete", "bootstrap", "repeats", "twins"}
      /\ start[2] \in SUBSET {"own_ids", "loose_refs", "remove_last"} /\ start[3] \in Nat
  BY EditingAssumption
<1>3. \/ spec = CreateSpec \/ spec = Complete \/ spec = NewBootstrapSpec
      \/ Replanned(spec)
  BY <1>1, <1>2, PlansWithRepeats DEF Beginning
<1> QED
  BY <1>1, <1>2, <1>3, CreateShape, CompleteShape, BootstrapShape, ReplannedShape DEF EInv

-----------------------------------------------------------------------------
(***************************************************************************)
(* Every step keeps the shape and the ids of each list apart.              *)
(***************************************************************************)
LEMMA SameIds ==
  ASSUME NEW S, NEW p \in Seq(S), NEW T, NEW q \in Seq(T), DOMAIN q = DOMAIN p,
         \A j \in DOMAIN p : q[j].id = p[j].id
  PROVE  Ids(q) = Ids(p) /\ (DistinctIds(p) => DistinctIds(q))
BY DEF Ids, Range, DistinctIds

LEMMA AddRequirementKeeps == ASSUME EInv, AddRequirement PROVE EInv'
<1>1. PICK r \in Requirement :
         /\ spec'.reqs = Append(spec.reqs, r) /\ r.id \notin Ids(spec.reqs)
         /\ r.acs = <<>> /\ r.ecs = <<>>
  BY AddRequirementDoes
<1>2. /\ Shape(spec') /\ OnlyReqs /\ edits' \in Nat /\ habits' = habits
      /\ Shape(spec) /\ Named(spec) /\ spec.reqs \in Seq(Requirement)
  BY AddRequirementDoes DEF EInv, Shape
<1>3. DistinctIds(spec'.reqs)
  BY <1>1, <1>2, DistinctAppend DEF Named
<1>4. \A i \in DOMAIN spec'.reqs :
        DistinctIds(spec'.reqs[i].acs) /\ DistinctIds(spec'.reqs[i].ecs)
  <2>1. /\ DOMAIN spec'.reqs = 1..(Len(spec.reqs) + 1) /\ Len(spec.reqs) \in Nat
        /\ DOMAIN spec.reqs = 1..Len(spec.reqs)
        /\ \A i \in 1..Len(spec.reqs) : spec'.reqs[i] = spec.reqs[i]
        /\ spec'.reqs[Len(spec.reqs) + 1] = r
    BY <1>1, <1>2
  <2>2. DistinctIds(r.acs) /\ DistinctIds(r.ecs)
    BY <1>1, Empty
  <2>3. \A i \in DOMAIN spec'.reqs : i \in DOMAIN spec.reqs \/ i = Len(spec.reqs) + 1
    BY <2>1
  <2> QED
    BY <1>2, <2>1, <2>2, <2>3 DEF Named
<1> QED
  BY <1>2, <1>3, <1>4 DEF EInv, Named, OnlyReqs

LEMMA RemoveRequirementKeeps == ASSUME EInv, RemoveRequirement PROVE EInv'
<1>1. PICK i \in DOMAIN spec.reqs :
        spec'.reqs = SubSeq(spec.reqs, 1, i - 1) \o SubSeq(spec.reqs, i + 1, Len(spec.reqs))
  BY RemoveRequirementDoes
<1>2. /\ Shape(spec') /\ OnlyReqs /\ edits' \in Nat /\ habits' = habits
      /\ Shape(spec) /\ Named(spec) /\ spec.reqs \in Seq(Requirement)
  BY RemoveRequirementDoes DEF EInv, Shape
<1>3. DistinctIds(spec'.reqs) /\ Range(spec'.reqs) \subseteq Range(spec.reqs)
  BY <1>1, <1>2, DistinctRemove DEF Named
<1>4. \A j \in DOMAIN spec'.reqs :
        DistinctIds(spec'.reqs[j].acs) /\ DistinctIds(spec'.reqs[j].ecs)
  <2>1. \A r \in Range(spec.reqs) : DistinctIds(r.acs) /\ DistinctIds(r.ecs)
    BY <1>2 DEF Named, Range
  <2> QED
    BY <1>3, <2>1 DEF Range
<1> QED
  BY <1>2, <1>3, <1>4 DEF EInv, Named, OnlyReqs

LEMMA CriterionKeeps == ASSUME EInv, AddCriterion \/ AddEdgeCase PROVE EInv'
<1>1. PICK i \in DOMAIN spec.reqs, r \in Requirement, c \in Criterion :
         /\ spec'.reqs = [spec.reqs EXCEPT ![i] = r]
         /\ r.id = spec.reqs[i].id
         /\ \/ /\ r.acs = Append(spec.reqs[i].acs, c) /\ r.ecs = spec.reqs[i].ecs
               /\ c.id \notin Ids(spec.reqs[i].acs)
            \/ /\ r.ecs = Append(spec.reqs[i].ecs, c) /\ r.acs = spec.reqs[i].acs
               /\ c.id \notin Ids(spec.reqs[i].ecs)
  BY CriterionDoes, Zenon
<1>2. /\ Shape(spec') /\ OnlyReqs /\ edits' \in Nat /\ habits' = habits
      /\ Shape(spec) /\ Named(spec) /\ spec.reqs \in Seq(Requirement)
  BY CriterionDoes DEF EInv, Shape
<1>3. /\ DOMAIN spec'.reqs = DOMAIN spec.reqs /\ spec'.reqs[i] = r
      /\ spec'.reqs \in Seq(Requirement)
      /\ \A j \in DOMAIN spec.reqs \ {i} : spec'.reqs[j] = spec.reqs[j]
  BY <1>1, <1>2, ReplaceAt
<1>4. /\ spec.reqs[i].acs \in Seq(Criterion) /\ spec.reqs[i].ecs \in Seq(Criterion)
      /\ DistinctIds(spec.reqs[i].acs) /\ DistinctIds(spec.reqs[i].ecs)
  <2>1. spec.reqs[i] \in Requirement
    BY <1>2
  <2> QED
    BY <1>2, <2>1 DEF Requirement, Named
<1>5. DistinctIds(r.acs) /\ DistinctIds(r.ecs)
  <2>1. ASSUME NEW q \in Seq(Criterion), DistinctIds(q), c.id \notin Ids(q)
        PROVE  DistinctIds(Append(q, c))
    BY <2>1, DistinctAppend
  <2> QED
    BY <1>1, <1>4, <2>1, Zenon
<1>6. \A j \in DOMAIN spec.reqs : spec'.reqs[j].id = spec.reqs[j].id
  BY <1>1, <1>3
<1>7. DistinctIds(spec'.reqs)
  BY <1>2, <1>3, <1>6, SameIds DEF Named
<1>8. \A j \in DOMAIN spec'.reqs :
        DistinctIds(spec'.reqs[j].acs) /\ DistinctIds(spec'.reqs[j].ecs)
  BY <1>2, <1>3, <1>5 DEF Named
<1> QED
  BY <1>2, <1>7, <1>8 DEF EInv, Named, OnlyReqs

LEMMA AddItemKeeps == ASSUME EInv, NEW k \in Collections, AddItem(k) PROVE EInv'
<1>1. PICK x \in ItemOf(k) :
        spec'.items[k] = Append(spec.items[k], x) /\ x.id \notin Ids(spec.items[k])
  BY AddItemDoes
<1>2. /\ Shape(spec') /\ OnlyItems /\ edits' \in Nat /\ habits' = habits
      /\ \A l \in Collections \ {k} : spec'.items[l] = spec.items[l]
      /\ Shape(spec) /\ Named(spec) /\ spec.items[k] \in Seq(ItemOf(k))
  BY AddItemDoes DEF EInv, Shape
<1>3. DistinctIds(spec'.items[k])
  BY <1>1, <1>2, DistinctAppend DEF Named
<1> QED
  BY <1>2, <1>3 DEF EInv, Named, OnlyItems

LEMMA PlanKeeps ==
  ASSUME EInv, \/ AddTaskGroup \/ AddSubtask
               \/ TransitionSome \/ CompleteSubtaskStates \/ ResetSubtaskStates
  PROVE  EInv'
<1>1. Shape(spec') /\ OnlyGroups /\ edits' \in Nat /\ habits' = habits
  BY AddGroupDoes, AddSubtaskDoes, StatesDo
<1> QED
  BY <1>1 DEF EInv, Named, OnlyGroups

LEMMA BootstrapKeeps == ASSUME EInv, SetArtifact \/ SetPRD PROVE EInv'
BY BootstrapDoes DEF EInv, Named

LEMMA ENext == ASSUME EInv, [Next]_vars PROVE EInv'
<1>1. CASE AddRequirement
  BY <1>1, AddRequirementKeeps
<1>2. CASE RemoveRequirement
  BY <1>2, RemoveRequirementKeeps
<1>3. CASE AddCriterion \/ AddEdgeCase
  BY <1>3, CriterionKeeps
<1>4. CASE AddToRequirements \/ AddToTests
  BY <1>4, AddItemKeeps, KindTypes DEF AddToRequirements, AddToTests
<1>5. CASE SetGlossaryEntry \/ RemoveGlossaryEntry
  BY <1>5, GlossaryDoes DEF EInv, Named, OnlyGroups
<1>6. CASE AddTaskGroup
  BY <1>6, PlanKeeps
<1>7. CASE AddSubtask
  BY <1>7, PlanKeeps
<1>8. CASE AddTraceabilityEntry
  BY <1>8, TraceDoes DEF EInv, Named, OnlyTrace
<1>9. CASE TransitionSome \/ CompleteSubtaskStates \/ ResetSubtaskStates
  BY <1>9, PlanKeeps
<1>10. CASE SetArtifact \/ SetPRD
  BY <1>10, BootstrapKeeps
<1>11. CASE UNCHANGED vars
  BY <1>11 DEF vars, EInv
<1> QED
  BY <1>1, <1>2, <1>3, <1>4, <1>5, <1>6, <1>7, <1>8, <1>9, <1>10, <1>11 DEF Next

\* The shape of a specification and the ids of each list stay as EInv says, in any hands.
THEOREM EditingInvariant == Spec => []EInv
<1>1. Init => EInv
  BY EInit
<1>2. EInv /\ [Next]_vars => EInv'
  BY ENext
<1> QED
  BY <1>1, <1>2, PTL DEF Spec

\* EInv has the types.
LEMMA TypesHold == ASSUME EInv PROVE TypeOK
<1>1. Shape(spec) /\ edits \in Nat
  BY DEF EInv
<1>2. ASSUME NEW k \in Collections, NEW x \in Range(spec.items[k])
      PROVE  x.id \in Id /\ x.refs \subseteq Id
  <2>1. spec.items[k] \in Seq(AnyItem)
    BY <1>1 DEF Shape
  <2>2. x \in AnyItem
    BY <2>1 DEF Range
  <2> QED
    BY <2>2 DEF AnyItem
<1>3. ASSUME NEW t \in Subtasks(spec)
      PROVE  t.state \in States /\ t.reqRefs \cup t.testRefs \subseteq Id
  <2>1. PICK g \in Range(spec.groups) : t \in Range(g.subs)
    BY DEF Subtasks
  <2>2. g \in TaskGroup
    BY <1>1 DEF Shape, Range
  <2>3. t \in Subtask
    BY <2>1, <2>2 DEF TaskGroup, Range
  <2> QED
    BY <2>3 DEF Subtask
<1>4. spec.heads \in [Artifacts -> {Nil} \cup Heads] /\ spec.glossary \subseteq Terms
  BY <1>1 DEF Shape
<1> QED
  BY <1>1, <1>2, <1>3, <1>4 DEF TypeOK

(***************************************************************************)
(* Types: ids and references are ids, whoever made them up.                *)
(***************************************************************************)
THEOREM EditingTypes == Spec => []TypeOK
<1>1. EInv => TypeOK
  BY TypesHold
<1> QED
  BY <1>1, EditingInvariant, PTL

-----------------------------------------------------------------------------
(***************************************************************************)
(* What a specification that validates looks like.                         *)
(***************************************************************************)
LEMMA ValidHas ==
  ASSUME Valid(spec)
  PROVE  /\ \A a \in Artifacts : spec.heads[a] # Nil
         /\ SchemaErrors(spec) = {} /\ SubtaskIdErrors(spec) = {}
         /\ UnknownTestRefs(spec) = {} /\ TaskGroupStructure(spec) = {}
         /\ WiringVerification(spec) = {} /\ HeadErrors(spec) = {}
<1>1. SchemaErrors(spec) = {} /\ ValidateCrossFile(spec) = {}
  BY DEF Valid, Errors
<1>2. \A a \in Artifacts : spec.heads[a] # Nil
  BY <1>1 DEF ValidateCrossFile
<1> QED
  BY <1>1, <1>2 DEF ValidateCrossFile

LEMMA HeadsMatch ==
  ASSUME EInv, NEW a \in Artifacts, spec.heads[a] # Nil, HeadErrors(spec) = {}
  PROVE  spec.heads[a] = <<spec.sid, spec.name>>
<1>1. spec.heads[a] \in Heads
  BY DEF EInv, Shape
<1>2. ErrIf(spec.heads[a][1] # spec.sid, <<"cross_file_7", a>>)
      \cup ErrIf(spec.heads[a][2] # spec.name, <<"cross_file_7", a>>) = {}
  BY DEF HeadErrors
<1>3. spec.heads[a][1] = spec.sid /\ spec.heads[a][2] = spec.name
  BY <1>2 DEF ErrIf
<1> QED
  BY <1>1, <1>3 DEF Heads

LEMMA FinalizeAgrees == ASSUME EInv PROVE FinalizeAgreesWithValidate
<1> DEFINE missing == {<<"bootstrap", a>> : a \in {a \in Artifacts : spec.heads[a] = Nil}}
                      \cup ErrIf(~spec.prd, <<"bootstrap", "prd">>)
           mismatches == {<<"cross_file", a>> :
                            a \in {a \in Artifacts : spec.heads[a] # <<spec.sid, spec.name>>}}
<1>1. FinalizeErrors(spec) = IF missing # {} THEN missing
                             ELSE IF mismatches # {} THEN mismatches
                             ELSE Errors(spec)
  BY DEF FinalizeErrors
<1>2. missing = {} <=> spec.prd /\ \A a \in Artifacts : spec.heads[a] # Nil
  BY DEF ErrIf
<1>3. mismatches = {} <=> \A a \in Artifacts : spec.heads[a] = <<spec.sid, spec.name>>
  OBVIOUS
<1> HIDE DEF missing, mismatches
<1>4. Valid(spec) => /\ \A a \in Artifacts : spec.heads[a] # Nil
                     /\ mismatches = {}
  BY <1>3, ValidHas, HeadsMatch
<1> QED
  BY <1>1, <1>2, <1>4 DEF FinalizeAgreesWithValidate, Valid

(***************************************************************************)
(* Finalize accepts what Validate accepts, except for a missing prd.md.    *)
(***************************************************************************)
THEOREM FinalizeIsValidate == Spec => []FinalizeAgreesWithValidate
<1>1. EInv => FinalizeAgreesWithValidate
  BY FinalizeAgrees
<1> QED
  BY <1>1, EditingInvariant, PTL

LEMMA ValidNumbers ==
  ASSUME NEW s, Valid(s), NEW i \in DOMAIN s.groups, NEW j \in DOMAIN s.groups[i].subs
  PROVE  s.groups[i].subs[j].id[1] = s.groups[i].id
<1> DEFINE g == s.groups[i]
           t == g.subs[j]
           wrong == {<<"id_format", u.id>> : u \in {u \in Range(g.subs) : u.id[1] # g.id}}
<1>1. g \in Range(s.groups) /\ t \in Range(g.subs)
  BY DEF Range
<1>2. SubtaskIdErrors(s) = {}
  <2>1. ValidateCrossFile(s) = {}
    BY DEF Valid, Errors
  <2> QED
    BY <2>1 DEF ValidateCrossFile
<1>3. wrong \subseteq SubtaskIdErrors(s)
  BY <1>1 DEF SubtaskIdErrors
<1>4. t.id[1] # g.id => <<"id_format", t.id>> \in wrong
  BY <1>1
<1> QED
  BY <1>2, <1>3, <1>4

\* Where an id is, and that it stays there while the ids of the plan do.
LEMMA PlaceIs ==
  ASSUME NEW s, NEW id, NEW p
  PROVE  p \in Places(s, id) <=>
           \E i \in DOMAIN s.groups : \E j \in DOMAIN s.groups[i].subs :
             p = <<i, j>> /\ s.groups[i].subs[j].id = id
BY DEF Places

LEMMA PlacesStay ==
  ASSUME NEW r, NEW s, NEW id, DOMAIN s.groups = DOMAIN r.groups,
         \A i \in DOMAIN r.groups :
           /\ DOMAIN s.groups[i].subs = DOMAIN r.groups[i].subs
           /\ \A j \in DOMAIN r.groups[i].subs : s.groups[i].subs[j].id = r.groups[i].subs[j].id
  PROVE  Places(s, id) = Places(r, id)
<1>1. \A p : p \in Places(s, id) <=> p \in Places(r, id)
  BY PlaceIs
<1> QED
  BY <1>1

LEMMA NewGroupPlaces ==
  ASSUME EInv, AddTaskGroup, NEW id
  PROVE  Places(spec', id) = Places(spec, id)
<1>1. PICK g \in TaskGroup : spec'.groups = Append(spec.groups, g) /\ g.subs = <<>>
  BY AddGroupDoes
<1>2. spec.groups \in Seq(TaskGroup)
  BY DEF EInv, Shape
<1>3. /\ DOMAIN spec'.groups = (DOMAIN spec.groups) \cup {Len(spec.groups) + 1}
      /\ \A i \in DOMAIN spec.groups : spec'.groups[i] = spec.groups[i]
      /\ DOMAIN spec'.groups[Len(spec.groups) + 1].subs = {}
  BY <1>1, <1>2
<1>4. \A p : p \in Places(spec', id) <=> p \in Places(spec, id)
  BY <1>3, PlaceIs
<1> QED
  BY <1>4

LEMMA NewSubtaskPlaces ==
  ASSUME EInv, AddSubtask, GroupsApart(spec), Valid(spec'), NEW id
  PROVE  Cardinality(Places(spec', id)) = 1 \/ Places(spec', id) = Places(spec, id)
<1>1. PICK k \in DOMAIN spec.groups, g \in TaskGroup, t \in Subtask :
              /\ spec'.groups = [spec.groups EXCEPT ![k] = g]
              /\ g.id = spec.groups[k].id
              /\ g.subs = Append(spec.groups[k].subs, t)
              /\ t.id \notin Ids(spec.groups[k].subs)
  BY AddSubtaskDoes, Zenon
<1>2. spec.groups \in Seq(TaskGroup) /\ spec.groups[k].subs \in Seq(Subtask)
  <2>1. spec.groups \in Seq(TaskGroup)
    BY DEF EInv, Shape
  <2>2. spec.groups[k] \in TaskGroup
    BY <2>1
  <2> QED
    BY <2>1, <2>2 DEF TaskGroup
<1> DEFINE n == Len(spec.groups[k].subs) + 1
<1>3. /\ DOMAIN spec'.groups = DOMAIN spec.groups /\ spec'.groups[k] = g
      /\ \A i \in DOMAIN spec.groups \ {k} : spec'.groups[i] = spec.groups[i]
      /\ \A i \in DOMAIN spec.groups : spec'.groups[i].id = spec.groups[i].id
  BY <1>1, <1>2, ReplaceAt
<1>4. /\ DOMAIN g.subs = (DOMAIN spec.groups[k].subs) \cup {n} /\ g.subs[n] = t
      /\ n \notin DOMAIN spec.groups[k].subs
      /\ \A j \in DOMAIN spec.groups[k].subs : g.subs[j] = spec.groups[k].subs[j]
  BY <1>1, <1>2
<1> HIDE DEF n
<1>5. CASE id # t.id
  <2>1. \A p : p \in Places(spec', id) <=> p \in Places(spec, id)
    BY <1>3, <1>4, <1>5, PlaceIs
  <2> QED
    BY <2>1
<1>6. CASE id = t.id
  <2>1. \A j \in DOMAIN spec.groups[k].subs : spec.groups[k].subs[j].id # id
    BY <1>1, <1>6 DEF Ids, Range
  <2>2. <<k, n>> \in Places(spec', id)
    BY <1>3, <1>4, <1>6, PlaceIs
  <2>3. ASSUME NEW p \in Places(spec', id) PROVE p = <<k, n>>
    <3>0. PICK i \in DOMAIN spec'.groups : \E j \in DOMAIN spec'.groups[i].subs :
             p = <<i, j>> /\ spec'.groups[i].subs[j].id = id
      BY PlaceIs
    <3>1. PICK j \in DOMAIN spec'.groups[i].subs :
             p = <<i, j>> /\ spec'.groups[i].subs[j].id = id
      BY <3>0
    <3>2. id[1] = spec'.groups[i].id
      BY <3>1, ValidNumbers
    <3>3. id[1] = spec'.groups[k].id
      <4>1. n \in DOMAIN spec'.groups[k].subs /\ spec'.groups[k].subs[n].id = id
        BY <1>3, <1>4, <1>6
      <4>2. k \in DOMAIN spec'.groups
        BY <1>3
      <4> QED
        BY <4>1, <4>2, ValidNumbers
    <3>4. i = k
      BY <1>3, <3>1, <3>2, <3>3 DEF GroupsApart
    <3>5. j = n
      BY <1>3, <1>4, <2>1, <3>1, <3>4
    <3> QED
      BY <3>1, <3>4, <3>5
  <2>4. Places(spec', id) = {<<k, n>>}
    BY <2>2, <2>3
  <2> QED
    BY <2>4, FS_Singleton
<1> QED
  BY <1>5, <1>6

LEMMA StaysApart ==
  ASSUME EInv, [Next]_vars, GroupsApart(spec), Valid(spec'), NEW id \in SubtaskIds(spec')
  PROVE  Cardinality(Places(spec', id)) = 1 \/ Places(spec', id) = Places(spec, id)
<1>1. ASSUME spec'.groups = spec.groups PROVE Places(spec', id) = Places(spec, id)
  BY <1>1 DEF Places
<1>2. CASE AddRequirement \/ RemoveRequirement \/ AddCriterion \/ AddEdgeCase
  BY <1>1, <1>2, AddRequirementDoes, RemoveRequirementDoes, CriterionDoes DEF OnlyReqs
<1>3. CASE AddToRequirements \/ AddToTests
  BY <1>1, <1>3, AddItemDoes, KindTypes DEF AddToRequirements, AddToTests, OnlyItems
<1>4. CASE SetGlossaryEntry \/ RemoveGlossaryEntry \/ AddTraceabilityEntry
  BY <1>1, <1>4, GlossaryDoes, TraceDoes DEF OnlyTrace
<1>5. CASE AddTaskGroup
  BY <1>5, NewGroupPlaces
<1>6. CASE AddSubtask
  BY <1>6, NewSubtaskPlaces
<1>7. CASE TransitionSome \/ CompleteSubtaskStates \/ ResetSubtaskStates
  <2>1. /\ Shape(spec) /\ Shape(spec') /\ DOMAIN spec'.groups = DOMAIN spec.groups
        /\ \A i \in DOMAIN spec.groups : Alike(spec.groups[i], spec'.groups[i])
    BY <1>7, StatesDo DEF EInv
  <2>2. \A i \in DOMAIN spec.groups :
          spec.groups[i].subs \in Seq(Subtask) /\ spec'.groups[i].subs \in Seq(Subtask)
    <3>1. \A i \in DOMAIN spec.groups : spec.groups[i] \in TaskGroup /\ spec'.groups[i] \in TaskGroup
      BY <2>1 DEF Shape
    <3> QED
      BY <3>1 DEF TaskGroup
  <2>3. \A i \in DOMAIN spec.groups : DOMAIN spec'.groups[i].subs = DOMAIN spec.groups[i].subs
    BY <2>1, <2>2 DEF Alike
  <2> QED
    BY <2>1, <2>3, PlacesStay DEF Alike
<1>8. CASE SetArtifact \/ SetPRD
  <2>1. ASSUME spec'.groups = Scaffold PROVE FALSE
    BY <2>1, ScaffoldTypes, Empty DEF SubtaskIds, Subtasks, Range
  <2> QED
    BY <1>1, <1>8, <2>1, BootstrapDoes
<1>9. CASE UNCHANGED vars
  BY <1>1, <1>9 DEF vars
<1> QED
  BY <1>2, <1>3, <1>4, <1>5, <1>6, <1>7, <1>8, <1>9 DEF Next

(***************************************************************************)
(* Whatever a plan was written with, no edit gives a second subtask an id  *)
(* and leaves the specification valid, while group numbers are apart.      *)
(***************************************************************************)
THEOREM SubtaskIdsKeptApart == Spec => SubtaskIdsStayApart
<1>1. EInv /\ [Next]_vars =>
        [GroupsApart(spec) /\ Valid(spec') =>
           \A id \in SubtaskIds(spec') :
             Cardinality(Places(spec', id)) = 1 \/ Places(spec', id) = Places(spec, id)]_vars
  BY StaysApart
<1> QED
  BY <1>1, EditingInvariant, PTL DEF Spec, SubtaskIdsStayApart

LEMMA PlansRunSmoke == ASSUME EInv PROVE ValidPlansRunASmokeTest
<1> SUFFICES ASSUME Valid(spec), spec.items.smokes # <<>>
             PROVE  \E t \in Range(LastGroup(spec).subs) :
                      t.testRefs \cap Ids(spec.items.smokes) # {}
  BY DEF ValidPlansRunASmokeTest
<1>1. Shape(spec) /\ spec.groups \in Seq(TaskGroup)
  BY DEF EInv, Shape
<1>2. spec.groups # <<>>
  <2>1. ErrIf(spec.heads.tasks # Nil /\ spec.groups = <<>>, <<"json_schema", "task_groups">>) = {}
    BY ValidHas DEF SchemaErrors
  <2>2. spec.heads.tasks # Nil
    BY ValidHas DEF Artifacts
  <2> QED
    BY <2>1, <2>2 DEF ErrIf
<1>3. LastGroup(spec).kind = "wiring_verification"
  BY <1>2, ValidHas DEF TaskGroupStructure, ErrIf
<1>4. LastGroup(spec) \in Range(spec.groups)
  <2>1. Len(spec.groups) \in DOMAIN spec.groups
    BY <1>1, <1>2
  <2> QED
    BY <2>1 DEF LastGroup, Range
<1> DEFINE refs == UNION {t.testRefs : t \in Range(LastGroup(spec).subs)}
<1>5. PICK ref \in refs : ref[2] = "SMOKE"
  <2>1. ErrIf(spec.items.smokes # <<>> /\ \A ref \in refs : ref[2] # "SMOKE",
              <<"wiring_verification", "smoke">>) = {}
    BY <1>2, <1>3, ValidHas DEF WiringVerification
  <2> QED
    BY <2>1 DEF ErrIf
<1>6. PICK t \in Range(LastGroup(spec).subs) : ref \in t.testRefs
  BY <1>5
<1>7. ref \in knownTestIDs(spec)
  <2>1. t \in Subtasks(spec)
    BY <1>4, <1>6 DEF Subtasks
  <2> QED
    <3>1. ref \in UNION {u.testRefs : u \in Subtasks(spec)}
      BY <1>6, <2>1
    <3> DEFINE unknown == (UNION {u.testRefs : u \in Subtasks(spec)}) \ knownTestIDs(spec)
    <3>2. {<<"cross_file_5", x>> : x \in unknown} \subseteq UnknownTestRefs(spec)
      <4>1. UnknownTestRefs(spec) =
              {<<"cross_file_5", e.test>> :
                 e \in {e \in Range(spec.trace) : e.test \notin knownTestIDs(spec)}}
              \cup {<<"cross_file_5", x>> : x \in unknown}
        BY Zenon DEF UnknownTestRefs
      <4> HIDE DEF unknown
      <4> QED
        BY <4>1, Zenon
    <3> HIDE DEF unknown
    <3>3. ASSUME NEW x \in unknown PROVE FALSE
      <4>1. <<"cross_file_5", x>> \in UnknownTestRefs(spec)
        BY <3>2, Zenon
      <4>2. UnknownTestRefs(spec) = {}
        BY ValidHas
      <4> QED
        BY <4>1, <4>2, Zenon
    <3> QED
      BY <3>1, <3>3 DEF unknown
<1>8. PICK k \in TestCollections : ref \in Ids(spec.items[k])
  BY <1>7 DEF knownTestIDs
<1>9. ref \in ItemId(k)
  BY <1>1, <1>8, KnownIds, KindTypes
<1>10. TheKind(k) = "SMOKE"
  BY <1>5, <1>9 DEF ItemId
<1>11. k = "smokes"
  BY <1>10, KindTypes DEF TestCollections
<1> QED
  BY <1>6, <1>8, <1>11

(***************************************************************************)
(* A specification that validates and has smoke tests runs one of them in  *)
(* its last group.                                                         *)
(***************************************************************************)
THEOREM PlansRunASmokeTest == Spec => []ValidPlansRunASmokeTest
<1>1. EInv => ValidPlansRunASmokeTest
  BY PlansRunSmoke
<1> QED
  BY <1>1, EditingInvariant, PTL

-----------------------------------------------------------------------------
(***************************************************************************)
(* What the agent on a group is shown.                                     *)
(***************************************************************************)
LEMMA OwnersInScope ==
  ASSUME NEW refs, NEW ref \in refs
  PROVE  Owner(spec, ref) \subseteq InScope(spec, refs)
BY DEF Owner, InScope, isRequirementInScope, Ids

\* The first group with a number is the one that is found under it.
LEMMA GroupIsFound ==
  ASSUME EInv, NEW k \in FirstGroups, NEW g, g = spec.groups[k], NEW level
  PROVE  RenderIndividualScoped(spec, g.id, level) =
           IF ScopeRefs(spec, g).refs = None
           THEN [RenderIndividual(spec, level) EXCEPT !.groups = {g.id}]
           ELSE RenderScoped(spec, g, level)
<1>1. /\ spec.groups \in Seq(TaskGroup)
      /\ DOMAIN spec.groups = 1..Len(spec.groups) /\ Len(spec.groups) \in Nat
  BY DEF EInv, Shape
<1> DEFINE Found(i) == spec.groups[i].id = g.id /\ \A j \in 1..(i - 1) : spec.groups[j].id # g.id
           i == CHOOSE i \in DOMAIN spec.groups : Found(i)
<1>2. k \in DOMAIN spec.groups /\ Found(k)
  BY DEF FirstGroups
<1>3. i \in DOMAIN spec.groups /\ Found(i)
  BY <1>2
<1>4. i = k
  BY <1>1, <1>2, <1>3
<1>5. g.id \in Ids(spec.groups)
  BY <1>2 DEF Ids, Range
<1>6. RenderIndividualScoped(spec, g.id, level) =
        IF ScopeRefs(spec, spec.groups[i]).refs = None
        THEN [RenderIndividual(spec, level) EXCEPT !.groups = {g.id}]
        ELSE RenderScoped(spec, spec.groups[i], level)
  BY <1>5, Zenon DEF RenderIndividualScoped
<1> HIDE DEF i
<1> QED
  BY <1>4, <1>6, Zenon

LEMMA WorkShown == ASSUME EInv PROVE WorkIsShown
<1> SUFFICES ASSUME NEW g \in {spec.groups[i] : i \in FirstGroups}, NEW level \in Levels
    PROVE  LET shown  == RenderIndividualScoped(spec, g.id, level)
               traced == {e \in Range(spec.trace) : e.task[1] = g.id}
           IN  /\ \A t \in Range(g.subs) :
                    /\ \A ref \in t.reqRefs : Owner(spec, ref) \subseteq shown.reqs
                    /\ t.testRefs \cap knownTestIDs(spec) \subseteq shown.tests
               /\ (\A t \in Range(g.subs) : t.reqRefs \cup t.testRefs = {}) =>
                    \A e \in traced : /\ Owner(spec, e.req) \subseteq shown.reqs
                                      /\ {e.test} \cap knownTestIDs(spec) \subseteq shown.tests
  BY DEF WorkIsShown
<1> DEFINE shown    == RenderIndividualScoped(spec, g.id, level)
           ours     == {e \in Range(spec.trace) : e.task[1] = g.id}
           scope    == ScopeRefs(spec, g)
           explicit == ExplicitRefs(g)
           traced   == inferRefsFromTraceability(spec, g)
<1>0. PICK k \in FirstGroups : g = spec.groups[k]
  OBVIOUS
<1>1. \A ref : Owner(spec, ref) \subseteq Ids(spec.reqs)
  BY DEF Owner, Ids
<1>2. CASE scope.refs = None
  <2>1. shown.reqs = Ids(spec.reqs) /\ shown.tests = knownTestIDs(spec)
    <3>1. shown = [RenderIndividual(spec, level) EXCEPT !.groups = {g.id}]
      BY <1>0, <1>2, GroupIsFound, Zenon
    <3> QED
      BY <3>1 DEF RenderIndividual
  <2> QED
    BY <1>1, <2>1
<1>3. CASE scope.refs # None
  <2>1. /\ shown.reqs = (IF scope.partial /\ scope.refs.reqs = {} THEN Ids(spec.reqs)
                         ELSE InScope(spec, scope.refs.reqs))
        /\ shown.tests = (IF scope.refs.tests = {} /\ (scope.partial \/ level = 2)
                          THEN knownTestIDs(spec)
                          ELSE knownTestIDs(spec) \cap scope.refs.tests)
    <3>1. shown = RenderScoped(spec, g, level)
      BY <1>0, <1>3, GroupIsFound, Zenon
    <3> QED
      BY <3>1 DEF RenderScoped
  <2>2. /\ \A ref \in scope.refs.reqs : Owner(spec, ref) \subseteq shown.reqs
        /\ knownTestIDs(spec) \cap scope.refs.tests \subseteq shown.tests
    BY <1>1, <2>1, OwnersInScope
  <2>3. /\ \A t \in Range(g.subs) : t.reqRefs \subseteq explicit.reqs
                                    /\ t.testRefs \subseteq explicit.tests
        /\ (\A t \in Range(g.subs) : t.reqRefs \cup t.testRefs = {}) => explicit = None
    BY DEF ExplicitRefs, None
  <2>4. /\ \A e \in ours : e.req \in traced.reqs /\ e.test \in traced.tests
        /\ traced = None => ours = {}
    BY DEF inferRefsFromTraceability, None
  <2>5. CASE explicit # None
    <3>1. scope.refs = explicit
      BY <2>5 DEF ScopeRefs
    <3> QED
      BY <2>2, <2>3, <2>5, <3>1
  <2>6. CASE explicit = None /\ traced # None
    <3>1. scope.refs = traced
      BY <2>6 DEF ScopeRefs
    <3>2. explicit.reqs = {} /\ explicit.tests = {}
      BY <2>6 DEF None
    <3> QED
      BY <2>2, <2>3, <2>4, <3>1, <3>2
  <2>7. CASE explicit = None /\ traced = None
    <3>1. explicit.reqs = {} /\ explicit.tests = {}
      BY <2>7 DEF None
    <3> QED
      BY <2>3, <2>4, <2>7, <3>1
  <2> QED
    BY <2>5, <2>6, <2>7
<1> QED
  BY <1>2, <1>3

(***************************************************************************)
(* The agent on a group is shown all that the group's work refers to, of   *)
(* groups with one number the agent on the first.                          *)
(***************************************************************************)
THEOREM GroupsSeeTheirWork == Spec => []WorkIsShown
<1>1. EInv => WorkIsShown
  BY WorkShown
<1> QED
  BY <1>1, EditingInvariant, PTL

-----------------------------------------------------------------------------
(***************************************************************************)
(* A careful caller: what it refers to is there, or was under a number     *)
(* that no requirement gets again.                                         *)
(***************************************************************************)
\* Criteria carry the prefix and the number of their requirement.
CriteriaOf(r) ==
  /\ \A c \in Range(r.acs) : c.id[1] = r.id[1] /\ c.id[2] = "AC" /\ c.id[3] = r.id[3]
  /\ \A c \in Range(r.ecs) : c.id[1] = r.id[1] /\ c.id[2] = "EC" /\ c.id[3] = r.id[3]

\* Under a number that was given out and that no requirement has any more.
Dead(s, id) ==
  /\ id[2] \in {"REQ", "AC", "EC"}
  /\ id[3] \in (0..(MaxSuffix(s.reqs, "REQ") - 1)) \ Suffixes(s.reqs, "REQ")

RefersBack(s) == \A id \in Referenced(s) : id \in DefinedIds(s) \/ Dead(s, id)

Careful(s) ==
  /\ s.heads.requirements = Nil => s.reqs = <<>>
  /\ \A r \in Range(s.reqs) : r.id[1] = s.heads.requirements[1] /\ CriteriaOf(r)
  /\ RefersBack(s)

CInv == EInv /\ (habits = {} => Careful(spec))

\* The ids a specification defines, list by list.
EntryIds(items) == UNION {Ids(items[k]) : k \in Collections}
CritIds(reqs)   == UNION {Ids(r.acs) \cup Ids(r.ecs) : r \in Range(reqs)}

LEMMA CritIdsAre == \A s : criterionIDs(s) = CritIds(s.reqs)
<1> SUFFICES ASSUME NEW s PROVE criterionIDs(s) = CritIds(s.reqs)
  OBVIOUS
<1>1. ASSUME NEW id \in criterionIDs(s) PROVE id \in CritIds(s.reqs)
  <2>1. PICK c \in Criteria(s) : id = c.id
    BY DEF criterionIDs
  <2>2. PICK r \in Range(s.reqs) : c \in Range(r.acs) \/ c \in Range(r.ecs)
    BY DEF Criteria, CritSeqs
  <2>3. id \in Ids(r.acs) \cup Ids(r.ecs)
    BY <2>1, <2>2 DEF Ids
  <2> QED
    BY <2>3 DEF CritIds
<1>2. ASSUME NEW id \in CritIds(s.reqs) PROVE id \in criterionIDs(s)
  <2>1. PICK r \in Range(s.reqs) : id \in Ids(r.acs) \cup Ids(r.ecs)
    BY DEF CritIds
  <2>2. PICK q \in CritSeqs(r) : id \in Ids(q)
    BY <2>1 DEF CritSeqs
  <2>3. PICK c \in Range(q) : id = c.id
    BY <2>2 DEF Ids
  <2>4. c \in Criteria(s)
    <3>1. q \in UNION {CritSeqs(x) : x \in Range(s.reqs)}
      BY <2>2
    <3> QED
      BY <3>1 DEF Criteria
  <2> QED
    BY <2>3, <2>4 DEF criterionIDs
<1> QED
  BY <1>1, <1>2

\* The places that define ids, list by list.
ReqPlaces(s)  == {<<"req", i>> : i \in DOMAIN s.reqs}
AcPlaces(s)   == UNION {{<<"ac", i, j>> : j \in DOMAIN s.reqs[i].acs} : i \in DOMAIN s.reqs}
EcPlaces(s)   == UNION {{<<"ec", i, j>> : j \in DOMAIN s.reqs[i].ecs} : i \in DOMAIN s.reqs}
ItemPlaces(s) == UNION {{<<"item", k, j>> : j \in DOMAIN s.items[k]} : k \in Collections}

LEMMA PlaceForms ==
  ASSUME NEW s, NEW d
  PROVE  d \in Defined(s) <=>
           \/ \E i \in DOMAIN s.reqs : d = <<"req", i>>
           \/ \E i \in DOMAIN s.reqs : \E j \in DOMAIN s.reqs[i].acs : d = <<"ac", i, j>>
           \/ \E i \in DOMAIN s.reqs : \E j \in DOMAIN s.reqs[i].ecs : d = <<"ec", i, j>>
           \/ \E k \in Collections : \E j \in DOMAIN s.items[k] : d = <<"item", k, j>>
<1>1. d \in ReqPlaces(s) <=> \E i \in DOMAIN s.reqs : d = <<"req", i>>
  BY DEF ReqPlaces
<1>2. d \in AcPlaces(s) <=>
        \E i \in DOMAIN s.reqs : \E j \in DOMAIN s.reqs[i].acs : d = <<"ac", i, j>>
  BY SMT DEF AcPlaces
<1>3. d \in EcPlaces(s) <=>
        \E i \in DOMAIN s.reqs : \E j \in DOMAIN s.reqs[i].ecs : d = <<"ec", i, j>>
  BY SMT DEF EcPlaces
<1>4. d \in ItemPlaces(s) <=>
        \E k \in Collections : \E j \in DOMAIN s.items[k] : d = <<"item", k, j>>
  BY SMT DEF ItemPlaces
<1>5. Defined(s) = ReqPlaces(s) \cup AcPlaces(s) \cup EcPlaces(s) \cup ItemPlaces(s)
  BY Zenon DEF Defined, ReqPlaces, AcPlaces, EcPlaces, ItemPlaces
<1> QED
  BY <1>1, <1>2, <1>3, <1>4, <1>5, Zenon

LEMMA DefinedForms ==
  ASSUME NEW s, NEW d \in Defined(s)
  PROVE  \/ \E i \in DOMAIN s.reqs : d = <<"req", i>> /\ IdAt(s, d) = s.reqs[i].id
         \/ \E i \in DOMAIN s.reqs : \E j \in DOMAIN s.reqs[i].acs :
              d = <<"ac", i, j>> /\ IdAt(s, d) = s.reqs[i].acs[j].id
         \/ \E i \in DOMAIN s.reqs : \E j \in DOMAIN s.reqs[i].ecs :
              d = <<"ec", i, j>> /\ IdAt(s, d) = s.reqs[i].ecs[j].id
         \/ \E k \in Collections : \E j \in DOMAIN s.items[k] :
              d = <<"item", k, j>> /\ IdAt(s, d) = s.items[k][j].id
<1>1. ASSUME NEW i, d = <<"req", i>> PROVE IdAt(s, d) = s.reqs[i].id
  BY <1>1 DEF IdAt
<1>2. ASSUME NEW i, NEW j, d = <<"ac", i, j>> PROVE IdAt(s, d) = s.reqs[i].acs[j].id
  BY <1>2 DEF IdAt
<1>3. ASSUME NEW i, NEW j, d = <<"ec", i, j>> PROVE IdAt(s, d) = s.reqs[i].ecs[j].id
  BY <1>3 DEF IdAt
<1>4. ASSUME NEW k, NEW j, d = <<"item", k, j>> PROVE IdAt(s, d) = s.items[k][j].id
  BY <1>4 DEF IdAt
<1>5. \/ \E i \in DOMAIN s.reqs : d = <<"req", i>>
      \/ \E i \in DOMAIN s.reqs : \E j \in DOMAIN s.reqs[i].acs : d = <<"ac", i, j>>
      \/ \E i \in DOMAIN s.reqs : \E j \in DOMAIN s.reqs[i].ecs : d = <<"ec", i, j>>
      \/ \E k \in Collections : \E j \in DOMAIN s.items[k] : d = <<"item", k, j>>
  BY PlaceForms
<1>6. CASE \E i \in DOMAIN s.reqs : d = <<"req", i>>
  BY <1>1, <1>6
<1>7. CASE \E i \in DOMAIN s.reqs : \E j \in DOMAIN s.reqs[i].acs : d = <<"ac", i, j>>
  BY <1>2, <1>7
<1>8. CASE \E i \in DOMAIN s.reqs : \E j \in DOMAIN s.reqs[i].ecs : d = <<"ec", i, j>>
  BY <1>3, <1>8
<1>9. CASE \E k \in Collections : \E j \in DOMAIN s.items[k] : d = <<"item", k, j>>
  BY <1>4, <1>9
<1> QED
  BY <1>5, <1>6, <1>7, <1>8, <1>9, Zenon

LEMMA DefinedAre ==
  \A s : DefinedIds(s) = Ids(s.reqs) \cup CritIds(s.reqs) \cup EntryIds(s.items)
<1> SUFFICES ASSUME NEW s
             PROVE  DefinedIds(s) = Ids(s.reqs) \cup CritIds(s.reqs) \cup EntryIds(s.items)
  OBVIOUS
<1>1. ASSUME NEW id \in DefinedIds(s)
      PROVE  id \in Ids(s.reqs) \cup CritIds(s.reqs) \cup EntryIds(s.items)
  <2>1. PICK d \in Defined(s) : id = IdAt(s, d)
    BY DEF DefinedIds
  <2>2. CASE \E i \in DOMAIN s.reqs : d = <<"req", i>> /\ IdAt(s, d) = s.reqs[i].id
    BY <2>1, <2>2 DEF Ids, Range
  <2>3. CASE \E i \in DOMAIN s.reqs : \E j \in DOMAIN s.reqs[i].acs :
               d = <<"ac", i, j>> /\ IdAt(s, d) = s.reqs[i].acs[j].id
    <3>1. PICK r \in Range(s.reqs) : \E j \in DOMAIN r.acs : id = r.acs[j].id
      BY <2>1, <2>3, Zenon DEF Range
    <3>2. id \in Ids(r.acs)
      BY <3>1 DEF Ids, Range
    <3> QED
      BY <3>2 DEF CritIds
  <2>4. CASE \E i \in DOMAIN s.reqs : \E j \in DOMAIN s.reqs[i].ecs :
               d = <<"ec", i, j>> /\ IdAt(s, d) = s.reqs[i].ecs[j].id
    <3>1. PICK r \in Range(s.reqs) : \E j \in DOMAIN r.ecs : id = r.ecs[j].id
      BY <2>1, <2>4, Zenon DEF Range
    <3>2. id \in Ids(r.ecs)
      BY <3>1 DEF Ids, Range
    <3> QED
      BY <3>2 DEF CritIds
  <2>5. CASE \E k \in Collections : \E j \in DOMAIN s.items[k] :
               d = <<"item", k, j>> /\ IdAt(s, d) = s.items[k][j].id
    <3>1. PICK k \in Collections : \E j \in DOMAIN s.items[k] : id = s.items[k][j].id
      BY <2>1, <2>5, Zenon
    <3>2. id \in Ids(s.items[k])
      BY <3>1 DEF Ids, Range
    <3> QED
      BY <3>2 DEF EntryIds
  <2> QED
    BY <2>2, <2>3, <2>4, <2>5, DefinedForms
<1>2. ASSUME NEW d \in Defined(s) PROVE IdAt(s, d) \in DefinedIds(s)
  BY DEF DefinedIds
<1>3. ASSUME NEW id \in Ids(s.reqs) PROVE id \in DefinedIds(s)
  <2>1. PICK i \in DOMAIN s.reqs : id = s.reqs[i].id
    BY DEF Ids, Range
  <2>2. <<"req", i>> \in Defined(s)
    BY PlaceForms, Zenon
  <2>3. IdAt(s, <<"req", i>>) = id
    BY <2>1 DEF IdAt
  <2> QED
    BY <1>2, <2>2, <2>3
<1>4. ASSUME NEW id \in CritIds(s.reqs) PROVE id \in DefinedIds(s)
  <2>1. PICK r \in Range(s.reqs) : id \in Ids(r.acs) \/ id \in Ids(r.ecs)
    BY DEF CritIds
  <2>2. PICK i \in DOMAIN s.reqs : r = s.reqs[i]
    BY DEF Range
  <2>3. CASE id \in Ids(r.acs)
    <3>1. PICK j \in DOMAIN s.reqs[i].acs : id = s.reqs[i].acs[j].id
      BY <2>2, <2>3 DEF Ids, Range
    <3>2. <<"ac", i, j>> \in Defined(s)
      BY PlaceForms, Zenon
    <3>3. IdAt(s, <<"ac", i, j>>) = id
      BY <3>1 DEF IdAt
    <3> QED
      BY <1>2, <3>2, <3>3
  <2>4. CASE id \in Ids(r.ecs)
    <3>1. PICK j \in DOMAIN s.reqs[i].ecs : id = s.reqs[i].ecs[j].id
      BY <2>2, <2>4 DEF Ids, Range
    <3>2. <<"ec", i, j>> \in Defined(s)
      BY PlaceForms, Zenon
    <3>3. IdAt(s, <<"ec", i, j>>) = id
      BY <3>1 DEF IdAt
    <3> QED
      BY <1>2, <3>2, <3>3
  <2> QED
    BY <2>1, <2>3, <2>4
<1>5. ASSUME NEW id \in EntryIds(s.items) PROVE id \in DefinedIds(s)
  <2>1. PICK k \in Collections : id \in Ids(s.items[k])
    BY DEF EntryIds
  <2>2. PICK j \in DOMAIN s.items[k] : id = s.items[k][j].id
    BY <2>1 DEF Ids, Range
  <2>3. <<"item", k, j>> \in Defined(s)
    BY PlaceForms, Zenon
  <2>4. IdAt(s, <<"item", k, j>>) = id
    BY <2>2 DEF IdAt
  <2> QED
    BY <1>2, <2>3, <2>4
<1> QED
  BY <1>1, <1>3, <1>4, <1>5

\* The references of a specification, list by list.
EntryRefs(items) == UNION {UNION {x.refs : x \in Range(items[k])} : k \in Collections}
TraceRefs(trace) == {e.req : e \in Range(trace)} \cup {e.test : e \in Range(trace)}
PlanRefs(groups) == UNION {t.reqRefs \cup t.testRefs : t \in UNION {Range(g.subs) : g \in Range(groups)}}

LEMMA ReferencedAre ==
  \A s : Referenced(s) = EntryRefs(s.items) \cup TraceRefs(s.trace) \cup PlanRefs(s.groups)
BY DEF Referenced, Subtasks, EntryRefs, TraceRefs, PlanRefs

\* What an id is tells what defines it.
LEMMA IdKinds ==
  ASSUME NEW s, Shape(s)
  PROVE  /\ \A id \in Ids(s.reqs) : id[2] = "REQ"
         /\ \A id \in CritIds(s.reqs) : id[2] \in {"AC", "EC"}
         /\ \A id \in EntryIds(s.items) : id[2] \notin {"REQ", "AC", "EC"}
<1>1. \A id \in ReqId : id[2] = "REQ"
  BY DEF ReqId
<1>2. \A id \in CritId : id[2] \in {"AC", "EC"}
  BY DEF CritId
<1>3. \A k \in Collections : \A id \in ItemId(k) : id[2] = TheKind(k)
  BY DEF ItemId
<1>4. \A k \in Collections : TheKind(k) \notin {"REQ", "AC", "EC"}
  BY KindTypes
<1>5. CritIds(s.reqs) = criterionIDs(s)
  BY CritIdsAre
<1>6. \A id \in EntryIds(s.items) : \E k \in Collections : id \in ItemId(k)
  BY KnownIds DEF EntryIds
<1> QED
  BY <1>1, <1>2, <1>3, <1>4, <1>5, <1>6, KnownIds

(***************************************************************************)
(* One id, one entry: an id says its list, and a list names no two things  *)
(* alike.                                                                  *)
(***************************************************************************)
LEMMA OneEntry == ASSUME CInv PROVE IdsDenoteOneEntry
<1> SUFFICES ASSUME habits = {}, NEW d \in Defined(spec), NEW e \in Defined(spec),
                    IdAt(spec, d) = IdAt(spec, e)
             PROVE  d = e
  BY DEF IdsDenoteOneEntry
<1> DEFINE id == IdAt(spec, d)
<1>1. /\ spec.reqs \in Seq(Requirement) /\ Named(spec)
      /\ \A k \in Collections : spec.items[k] \in Seq(ItemOf(k))
      /\ \A r \in Range(spec.reqs) : CriteriaOf(r)
  BY DEF CInv, EInv, Shape, Careful
<1>2. ASSUME NEW i \in DOMAIN spec.reqs
      PROVE  /\ spec.reqs[i].id \in ReqId
             /\ \A j \in DOMAIN spec.reqs[i].acs :
                  /\ spec.reqs[i].acs[j].id[1] = spec.reqs[i].id[1]
                  /\ spec.reqs[i].acs[j].id[2] = "AC"
                  /\ spec.reqs[i].acs[j].id[3] = spec.reqs[i].id[3]
             /\ \A j \in DOMAIN spec.reqs[i].ecs :
                  /\ spec.reqs[i].ecs[j].id[1] = spec.reqs[i].id[1]
                  /\ spec.reqs[i].ecs[j].id[2] = "EC"
                  /\ spec.reqs[i].ecs[j].id[3] = spec.reqs[i].id[3]
  <2>1. spec.reqs[i] \in Requirement /\ CriteriaOf(spec.reqs[i])
    BY <1>1 DEF Range
  <2> QED
    BY <2>1 DEF Requirement, CriteriaOf, Range
<1>3. ASSUME NEW i \in DOMAIN spec.reqs, NEW j \in DOMAIN spec.reqs,
             spec.reqs[i].id[1] = spec.reqs[j].id[1], spec.reqs[i].id[3] = spec.reqs[j].id[3]
      PROVE  i = j
  <2>1. spec.reqs[i].id \in ReqId /\ spec.reqs[j].id \in ReqId
    BY <1>2
  <2>2. spec.reqs[i].id = spec.reqs[j].id
    BY <1>3, <2>1 DEF ReqId
  <2> QED
    BY <1>1, <2>2 DEF Named, DistinctIds
<1>4. ASSUME NEW k \in Collections, NEW j \in DOMAIN spec.items[k]
      PROVE  spec.items[k][j].id[2] = TheKind(k)
  <2>1. spec.items[k][j] \in ItemOf(k)
    BY <1>1
  <2> QED
    BY <2>1 DEF ItemOf, ItemId
<1>5. ASSUME NEW k \in Collections, NEW l \in Collections, TheKind(k) = TheKind(l) PROVE k = l
  BY <1>5, KindTypes
<1>6. \A k \in Collections : TheKind(k) \notin {"REQ", "AC", "EC"}
  BY KindTypes
<1>7. CASE id[2] = "REQ"
  <2>1. PICK i \in DOMAIN spec.reqs : d = <<"req", i>> /\ id = spec.reqs[i].id
    BY <1>2, <1>4, <1>6, <1>7, DefinedForms
  <2>2. PICK j \in DOMAIN spec.reqs : e = <<"req", j>> /\ id = spec.reqs[j].id
    BY <1>2, <1>4, <1>6, <1>7, DefinedForms
  <2>3. i = j
    BY <1>1, <2>1, <2>2 DEF Named, DistinctIds
  <2> QED
    BY <2>1, <2>2, <2>3
<1>8. CASE id[2] = "AC"
  <2>1. PICK i \in DOMAIN spec.reqs : \E j \in DOMAIN spec.reqs[i].acs :
          d = <<"ac", i, j>> /\ id = spec.reqs[i].acs[j].id
    BY <1>2, <1>4, <1>6, <1>8, DefinedForms DEF ReqId
  <2>2. PICK j \in DOMAIN spec.reqs[i].acs : d = <<"ac", i, j>> /\ id = spec.reqs[i].acs[j].id
    BY <2>1
  <2>3. PICK m \in DOMAIN spec.reqs : \E n \in DOMAIN spec.reqs[m].acs :
          e = <<"ac", m, n>> /\ id = spec.reqs[m].acs[n].id
    BY <1>2, <1>4, <1>6, <1>8, DefinedForms DEF ReqId
  <2>4. PICK n \in DOMAIN spec.reqs[m].acs : e = <<"ac", m, n>> /\ id = spec.reqs[m].acs[n].id
    BY <2>3
  <2>5. i = m
    <3>1. id[1] = spec.reqs[i].id[1] /\ id[3] = spec.reqs[i].id[3]
      BY <1>2, <2>2
    <3>2. id[1] = spec.reqs[m].id[1] /\ id[3] = spec.reqs[m].id[3]
      BY <1>2, <2>4
    <3> QED
      BY <1>3, <3>1, <3>2
  <2>6. j = n
    BY <1>1, <2>2, <2>4, <2>5 DEF Named, DistinctIds
  <2> QED
    BY <2>2, <2>4, <2>5, <2>6
<1>9. CASE id[2] = "EC"
  <2>1. PICK i \in DOMAIN spec.reqs : \E j \in DOMAIN spec.reqs[i].ecs :
          d = <<"ec", i, j>> /\ id = spec.reqs[i].ecs[j].id
    BY <1>2, <1>4, <1>6, <1>9, DefinedForms DEF ReqId
  <2>2. PICK j \in DOMAIN spec.reqs[i].ecs : d = <<"ec", i, j>> /\ id = spec.reqs[i].ecs[j].id
    BY <2>1
  <2>3. PICK m \in DOMAIN spec.reqs : \E n \in DOMAIN spec.reqs[m].ecs :
          e = <<"ec", m, n>> /\ id = spec.reqs[m].ecs[n].id
    BY <1>2, <1>4, <1>6, <1>9, DefinedForms DEF ReqId
  <2>4. PICK n \in DOMAIN spec.reqs[m].ecs : e = <<"ec", m, n>> /\ id = spec.reqs[m].ecs[n].id
    BY <2>3
  <2>5. i = m
    <3>1. id[1] = spec.reqs[i].id[1] /\ id[3] = spec.reqs[i].id[3]
      BY <1>2, <2>2
    <3>2. id[1] = spec.reqs[m].id[1] /\ id[3] = spec.reqs[m].id[3]
      BY <1>2, <2>4
    <3> QED
      BY <1>3, <3>1, <3>2
  <2>6. j = n
    BY <1>1, <2>2, <2>4, <2>5 DEF Named, DistinctIds
  <2> QED
    BY <2>2, <2>4, <2>5, <2>6
<1>10. CASE id[2] \notin {"REQ", "AC", "EC"}
  <2>1. PICK k \in Collections : \E j \in DOMAIN spec.items[k] :
          d = <<"item", k, j>> /\ id = spec.items[k][j].id
    BY <1>2, <1>10, DefinedForms DEF ReqId
  <2>2. PICK l \in Collections : \E n \in DOMAIN spec.items[l] :
          e = <<"item", l, n>> /\ id = spec.items[l][n].id
    BY <1>2, <1>10, DefinedForms DEF ReqId
  <2>3. k = l
    <3>1. id[2] = TheKind(k)
      BY <1>4, <2>1
    <3>2. id[2] = TheKind(l)
      BY <1>4, <2>2
    <3> QED
      BY <1>5, <3>1, <3>2
  <2> QED
    BY <1>1, <2>1, <2>2, <2>3 DEF Named, DistinctIds
<1> QED
  BY <1>7, <1>8, <1>9, <1>10

-----------------------------------------------------------------------------
(***************************************************************************)
(* The numbers in use depend on the ids alone.                             *)
(***************************************************************************)
SuffixesOf(ids, kind) == {id[Len(id)] : id \in {id \in ids : id[2] = kind}}

LEMMA SuffixesAre == \A q, kind : Suffixes(q, kind) = SuffixesOf(Ids(q), kind)
<1> SUFFICES ASSUME NEW q, NEW kind PROVE Suffixes(q, kind) = SuffixesOf(Ids(q), kind)
  OBVIOUS
<1>1. ASSUME NEW n \in Suffixes(q, kind) PROVE n \in SuffixesOf(Ids(q), kind)
  <2>1. PICK x \in Range(q) : x.id[2] = kind /\ n = x.id[Len(x.id)]
    BY DEF Suffixes
  <2>2. x.id \in {id \in Ids(q) : id[2] = kind}
    BY <2>1 DEF Ids
  <2> QED
    BY <2>1, <2>2 DEF SuffixesOf
<1>2. ASSUME NEW n \in SuffixesOf(Ids(q), kind) PROVE n \in Suffixes(q, kind)
  <2>1. PICK id \in Ids(q) : id[2] = kind /\ n = id[Len(id)]
    BY DEF SuffixesOf
  <2>2. PICK x \in Range(q) : id = x.id
    BY DEF Ids
  <2> QED
    BY <2>1, <2>2 DEF Suffixes
<1> QED
  BY <1>1, <1>2

LEMMA SameNumbers ==
  \A p, q, kind : Suffixes(p, kind) = Suffixes(q, kind) => MaxSuffix(p, kind) = MaxSuffix(q, kind)
BY Zenon DEF MaxSuffix

LEMMA ReqNumbers ==
  ASSUME NEW q \in Seq(Requirement)
  PROVE  /\ Ids(q) \subseteq ReqId
         /\ Suffixes(q, "REQ") = {id[3] : id \in Ids(q)}
         /\ \A r \in Range(q) : r.id[3] \in Suffixes(q, "REQ")
         /\ Suffixes(q, "REQ") \subseteq Nat
         /\ MaxSuffix(q, "REQ") \in Suffixes(q, "REQ") \cup {0}
         /\ \A m \in Suffixes(q, "REQ") : m <= MaxSuffix(q, "REQ")
<1>1. \A r \in Range(q) : r \in Requirement
  BY DEF Range
<1>2. Ids(q) \subseteq ReqId
  BY <1>1 DEF Ids, Requirement
<1>3. ASSUME NEW id \in ReqId PROVE Len(id) = 3 /\ id[2] = "REQ"
  BY DEF ReqId
<1>4. {id \in Ids(q) : id[2] = "REQ"} = Ids(q)
  BY <1>2, <1>3
<1>5. Suffixes(q, "REQ") = {id[3] : id \in Ids(q)}
  <2>1. Suffixes(q, "REQ") = {id[Len(id)] : id \in Ids(q)}
    BY <1>4, SuffixesAre, Zenon DEF SuffixesOf
  <2> QED
    BY <1>2, <1>3, <2>1
<1>6. \A r \in Range(q) : r.id[3] \in Suffixes(q, "REQ")
  BY <1>5 DEF Ids
<1>7. Ids(q) \subseteq Id
  BY <1>2, IdTypes
<1> QED
  BY <1>2, <1>5, <1>6, <1>7, MaxSuffixIs

\* What is careful to refer to is defined.
LEMMA KnownAreDefined ==
  /\ Ids(spec.reqs) \subseteq DefinedIds(spec) /\ criterionIDs(spec) \subseteq DefinedIds(spec)
  /\ reqIDs(spec) \subseteq DefinedIds(spec) /\ knownTestIDs(spec) \subseteq DefinedIds(spec)
  /\ \A k \in Collections : Ids(spec.items[k]) \subseteq DefinedIds(spec)
<1>1. DefinedIds(spec) = Ids(spec.reqs) \cup CritIds(spec.reqs) \cup EntryIds(spec.items)
  BY DefinedAre
<1>2. criterionIDs(spec) = CritIds(spec.reqs)
  BY CritIdsAre
<1>3. \A k \in Collections : Ids(spec.items[k]) \subseteq EntryIds(spec.items)
  BY DEF EntryIds
<1>4. knownTestIDs(spec) \subseteq EntryIds(spec.items)
  BY <1>3, KindTypes DEF knownTestIDs
<1> QED
  BY <1>1, <1>2, <1>3, <1>4 DEF reqIDs

LEMMA CarefulChoices ==
  ASSUME habits = {}, NEW known, NEW loose, NEW refs \in RefChoices(known, loose)
  PROVE  refs \subseteq known
BY DEF RefChoices

LEMMA CarefulItemRefs ==
  ASSUME habits = {}, NEW k \in Collections, NEW refs \in ItemRefs(k)
  PROVE  refs \subseteq DefinedIds(spec)
<1>1. /\ criterionIDs(spec) \subseteq DefinedIds(spec) /\ reqIDs(spec) \subseteq DefinedIds(spec)
      /\ Ids(spec.items.props) \subseteq DefinedIds(spec)
      /\ Ids(spec.items.paths) \subseteq DefinedIds(spec)
  BY KnownAreDefined, KindTypes
<1>2. \/ refs \in RefChoices(criterionIDs(spec), LooseCrit)
      \/ refs \in RefChoices(reqIDs(spec), LooseReq)
      \/ refs \in RefChoices(Ids(spec.items.props), LooseReq)
      \/ refs \in RefChoices(Ids(spec.items.paths), LooseReq)
      \/ refs = {}
  BY DEF ItemRefs
<1> QED
  BY <1>1, <1>2, CarefulChoices

\* A step that leaves the requirements' ids alone keeps the numbers that are dead.
LEMMA BackKept ==
  ASSUME RefersBack(spec), Ids(spec'.reqs) = Ids(spec.reqs),
         DefinedIds(spec) \subseteq DefinedIds(spec'),
         Referenced(spec') \subseteq Referenced(spec) \cup DefinedIds(spec)
  PROVE  RefersBack(spec')
<1>1. Suffixes(spec'.reqs, "REQ") = Suffixes(spec.reqs, "REQ")
  BY SuffixesAre
<1>2. MaxSuffix(spec'.reqs, "REQ") = MaxSuffix(spec.reqs, "REQ")
  BY <1>1, SameNumbers
<1>3. \A id : Dead(spec, id) => Dead(spec', id)
  BY <1>1, <1>2 DEF Dead
<1> QED
  BY <1>3 DEF RefersBack

\* What a step promises a careful caller.
Promise ==
  /\ Careful(spec')
  /\ \A id \in DefinedIds(spec') \ DefinedIds(spec) : id \notin Referenced(spec)

LEMMA ReqsKept ==
  ASSUME Careful(spec), spec'.reqs = spec.reqs, RefersBack(spec'),
         \A a \in Artifacts : Has(a) => spec'.heads[a] = spec.heads[a]
  PROVE  Careful(spec')
<1>1. "requirements" \in Artifacts
  BY DEF Artifacts
<1>2. CASE spec.heads.requirements = Nil
  <2>1. spec'.reqs = <<>> /\ Range(<<>>) = {}
    BY <1>2, Empty DEF Careful
  <2> QED
    BY <2>1 DEF Careful
<1>3. CASE spec.heads.requirements # Nil
  <2>1. spec'.heads.requirements = spec.heads.requirements
    BY <1>1, <1>3 DEF Has
  <2> QED
    BY <1>3, <2>1 DEF Careful
<1> QED
  BY <1>2, <1>3

LEMMA IdsAppend ==
  ASSUME NEW S, NEW q \in Seq(S), NEW x \in S
  PROVE  Ids(Append(q, x)) = Ids(q) \cup {x.id} /\ Range(Append(q, x)) = Range(q) \cup {x}
<1>1. Range(Append(q, x)) = Range(q) \cup {x}
  BY RangeOfAppend
<1> QED
  BY <1>1 DEF Ids

LEMMA SameReferences ==
  ASSUME spec'.items = spec.items, spec'.trace = spec.trace,
         PlanRefs(spec'.groups) = PlanRefs(spec.groups)
  PROVE  Referenced(spec') = Referenced(spec)
BY ReferencedAre

\* The number of a new requirement is beyond all that are dead.
LEMMA CareAddRequirement == ASSUME CInv, habits = {}, AddRequirement PROVE Promise
<1>1. PICK r \in Requirement :
         /\ spec'.reqs = Append(spec.reqs, r) /\ r.id \notin Ids(spec.reqs)
         /\ r.acs = <<>> /\ r.ecs = <<>> /\ r.id = NextRequirementID
  BY AddRequirementDoes DEF CInv
<1>2. /\ Has("requirements") /\ OnlyReqs /\ Careful(spec)
      /\ spec.reqs \in Seq(Requirement) /\ spec'.reqs \in Seq(Requirement)
  BY AddRequirementDoes DEF CInv, EInv, Shape
<1> DEFINE m == MaxSuffix(spec.reqs, "REQ")
<1>3. /\ Ids(spec'.reqs) = Ids(spec.reqs) \cup {r.id}
      /\ Range(spec'.reqs) = Range(spec.reqs) \cup {r}
  BY <1>1, <1>2, IdsAppend
<1>4. r.id[1] = spec.heads.requirements[1] /\ r.id[3] = m + 1
  BY <1>1 DEF NextRequirementID
<1>5. /\ Suffixes(spec'.reqs, "REQ") = Suffixes(spec.reqs, "REQ") \cup {m + 1}
      /\ Suffixes(spec.reqs, "REQ") \subseteq Nat /\ m \in Nat
      /\ \A n \in Suffixes(spec.reqs, "REQ") : n <= m
  BY <1>2, <1>3, <1>4, ReqNumbers
<1>6. MaxSuffix(spec'.reqs, "REQ") = m + 1
  <2>1. /\ MaxSuffix(spec'.reqs, "REQ") \in Suffixes(spec'.reqs, "REQ") \cup {0}
        /\ \A n \in Suffixes(spec'.reqs, "REQ") : n <= MaxSuffix(spec'.reqs, "REQ")
    BY <1>2, ReqNumbers
  <2> HIDE DEF m
  <2> QED
    BY <1>5, <2>1
<1>7. Ids(<<>>) = {} /\ Range(<<>>) = {}
  BY Empty DEF Ids
<1>8. CritIds(spec'.reqs) = CritIds(spec.reqs)
  BY <1>1, <1>3, <1>7 DEF CritIds
<1>9. DefinedIds(spec') = DefinedIds(spec) \cup {r.id}
  BY <1>2, <1>3, <1>8, DefinedAre DEF OnlyReqs
<1>10. Referenced(spec') = Referenced(spec)
  BY <1>2, SameReferences DEF OnlyReqs
<1>11. RefersBack(spec')
  <2>1. ASSUME NEW id, Dead(spec, id) PROVE Dead(spec', id)
    <3>1. /\ id[2] \in {"REQ", "AC", "EC"}
          /\ id[3] \in (0..(m - 1)) \ Suffixes(spec.reqs, "REQ")
      BY <2>1 DEF Dead
    <3> HIDE DEF m
    <3>2. id[3] \in (0..((m + 1) - 1)) \ (Suffixes(spec.reqs, "REQ") \cup {m + 1})
      BY <1>5, <3>1
    <3> QED
      BY <1>5, <1>6, <3>1, <3>2 DEF Dead
  <2> QED
    BY <1>2, <1>9, <1>10, <2>1 DEF Careful, RefersBack
<1>12. Careful(spec')
  <2>1. CriteriaOf(r)
    BY <1>1, <1>7 DEF CriteriaOf
  <2>2. spec'.heads = spec.heads /\ spec.heads.requirements # Nil
    BY <1>2 DEF OnlyReqs, Has
  <2> QED
    BY <1>2, <1>3, <1>4, <1>11, <2>1, <2>2 DEF Careful
<1>13. ~Dead(spec, r.id)
  <2>1. r.id[3] \notin 0..(m - 1)
    BY <1>4, <1>5
  <2> QED
    BY <2>1 DEF Dead
<1> QED
  BY <1>2, <1>9, <1>12, <1>13 DEF Promise, Careful, RefersBack

\* What a removed requirement leaves behind is dead: a larger number remains.
LEMMA CareRemoveRequirement == ASSUME CInv, habits = {}, RemoveRequirement PROVE Promise
<1>1. PICK i \in DOMAIN spec.reqs :
         /\ spec'.reqs = SubSeq(spec.reqs, 1, i - 1) \o SubSeq(spec.reqs, i + 1, Len(spec.reqs))
         /\ spec.reqs[i].id[3] < MaxSuffix(spec.reqs, "REQ")
  BY RemoveRequirementDoes DEF CInv
<1>2. /\ OnlyReqs /\ Careful(spec) /\ Named(spec)
      /\ spec.reqs \in Seq(Requirement) /\ spec'.reqs \in Seq(Requirement)
  BY RemoveRequirementDoes DEF CInv, EInv, Shape
<1> DEFINE m == MaxSuffix(spec.reqs, "REQ")
           r == spec.reqs[i]
<1>3. /\ Range(spec'.reqs) \subseteq Range(spec.reqs)
      /\ Ids(spec'.reqs) = Ids(spec.reqs) \ {r.id}
  BY <1>1, <1>2, DistinctRemove DEF Named
<1>4. /\ r \in Range(spec.reqs) /\ r.id \in Ids(spec.reqs)
      /\ \A x \in Range(spec.reqs) \ {r} : x.id # r.id
      /\ CriteriaOf(r)
  <2>1. r \in Range(spec.reqs)
    BY DEF Range
  <2>2. \A x \in Range(spec.reqs) \ {r} : x.id # r.id
    BY <1>2 DEF Named, DistinctIds, Range
  <2> QED
    BY <1>2, <2>1, <2>2 DEF Ids, Careful
<1>5. Range(spec.reqs) = Range(spec'.reqs) \cup {r}
  <2>1. ASSUME NEW x \in Range(spec.reqs), x # r PROVE x \in Range(spec'.reqs)
    <3>1. x.id \in Ids(spec'.reqs)
      BY <1>3, <1>4, <2>1 DEF Ids
    <3>2. PICK y \in Range(spec'.reqs) : y.id = x.id
      BY <3>1 DEF Ids
    <3>3. \A u, v \in Range(spec.reqs) : u.id = v.id => u = v
      BY <1>2, Zenon DEF Named, DistinctIds, Range
    <3>4. y = x
      BY <1>3, <3>2, <3>3
    <3> QED
      BY <3>2, <3>4
  <2> QED
    BY <1>3, <1>4, <2>1
<1>6. \A id \in Ids(spec.reqs) : id[1] = spec.heads.requirements[1]
  BY <1>2 DEF Careful, Ids
<1>7. /\ Ids(spec.reqs) \subseteq ReqId
      /\ Suffixes(spec.reqs, "REQ") = {id[3] : id \in Ids(spec.reqs)}
      /\ Suffixes(spec'.reqs, "REQ") = {id[3] : id \in Ids(spec'.reqs)}
      /\ Suffixes(spec.reqs, "REQ") \subseteq Nat /\ m \in Suffixes(spec.reqs, "REQ") \cup {0}
      /\ \A n \in Suffixes(spec.reqs, "REQ") : n <= m
      /\ r.id[3] \in Nat
  <2>1. /\ Ids(spec.reqs) \subseteq ReqId
        /\ Suffixes(spec.reqs, "REQ") = {id[3] : id \in Ids(spec.reqs)}
        /\ Suffixes(spec.reqs, "REQ") \subseteq Nat /\ m \in Suffixes(spec.reqs, "REQ") \cup {0}
        /\ \A n \in Suffixes(spec.reqs, "REQ") : n <= m
    BY <1>2, ReqNumbers
  <2>2. Suffixes(spec'.reqs, "REQ") = {id[3] : id \in Ids(spec'.reqs)}
    BY <1>2, ReqNumbers
  <2>3. r.id[3] \in Nat
    BY <1>4, <2>1 DEF ReqId
  <2> QED
    BY <2>1, <2>2, <2>3
<1>8. \A id \in Ids(spec'.reqs) : id[3] # r.id[3]
  <2>1. \A x, y \in ReqId : x[1] = y[1] /\ x[3] = y[3] => x = y
    BY DEF ReqId
  <2> QED
    BY <1>3, <1>4, <1>6, <1>7, <2>1
<1>9. Suffixes(spec'.reqs, "REQ") = Suffixes(spec.reqs, "REQ") \ {r.id[3]}
  BY <1>3, <1>4, <1>7, <1>8
<1>10. MaxSuffix(spec'.reqs, "REQ") = m
  <2>1. /\ MaxSuffix(spec'.reqs, "REQ") \in Suffixes(spec'.reqs, "REQ") \cup {0}
        /\ \A n \in Suffixes(spec'.reqs, "REQ") : n <= MaxSuffix(spec'.reqs, "REQ")
    BY <1>2, ReqNumbers
  <2>2. r.id[3] < m
    BY <1>1
  <2> HIDE DEF m, r
  <2>3. m \in Suffixes(spec'.reqs, "REQ")
    BY <1>7, <1>9, <2>2
  <2> QED
    BY <1>7, <1>9, <2>1, <2>3
<1>11. ASSUME NEW id \in DefinedIds(spec), id \notin DefinedIds(spec') PROVE Dead(spec', id)
  <2>1. /\ DefinedIds(spec) = Ids(spec.reqs) \cup CritIds(spec.reqs) \cup EntryIds(spec.items)
        /\ DefinedIds(spec') = Ids(spec'.reqs) \cup CritIds(spec'.reqs) \cup EntryIds(spec.items)
    BY <1>2, DefinedAre DEF OnlyReqs
  <2>2. CritIds(spec.reqs) = CritIds(spec'.reqs) \cup Ids(r.acs) \cup Ids(r.ecs)
    BY <1>5 DEF CritIds
  <2>3. id = r.id \/ id \in Ids(r.acs) \/ id \in Ids(r.ecs)
    BY <1>3, <1>11, <2>1, <2>2
  <2>4. id[2] \in {"REQ", "AC", "EC"} /\ id[3] = r.id[3]
    <3>1. r.id[2] = "REQ"
      BY <1>4, <1>7 DEF ReqId
    <3> QED
      BY <1>4, <2>3, <3>1 DEF CriteriaOf, Ids
  <2>5. r.id[3] < m
    BY <1>1
  <2> HIDE DEF m, r
  <2>6. id[3] \in (0..(m - 1)) \ Suffixes(spec'.reqs, "REQ")
    BY <1>7, <1>9, <2>4, <2>5
  <2> QED
    BY <1>10, <2>4, <2>6 DEF Dead
<1>12. \A id : Dead(spec, id) => Dead(spec', id)
  BY <1>9, <1>10 DEF Dead
<1>13. Referenced(spec') = Referenced(spec)
  BY <1>2, SameReferences DEF OnlyReqs
<1>14. RefersBack(spec')
  BY <1>2, <1>11, <1>12, <1>13 DEF RefersBack, Careful
<1>15. Careful(spec')
  <2>1. spec'.heads = spec.heads
    BY <1>2 DEF OnlyReqs
  <2>2. spec.heads.requirements # Nil
    BY <1>2, Empty DEF Careful
  <2> QED
    BY <1>2, <1>3, <1>14, <2>1, <2>2 DEF Careful
<1>16. DefinedIds(spec') \subseteq DefinedIds(spec)
  <2>1. /\ DefinedIds(spec) = Ids(spec.reqs) \cup CritIds(spec.reqs) \cup EntryIds(spec.items)
        /\ DefinedIds(spec') = Ids(spec'.reqs) \cup CritIds(spec'.reqs) \cup EntryIds(spec.items)
    BY <1>2, DefinedAre DEF OnlyReqs
  <2>2. CritIds(spec'.reqs) \subseteq CritIds(spec.reqs)
    BY <1>3 DEF CritIds
  <2> QED
    BY <1>3, <2>1, <2>2
<1> QED
  BY <1>15, <1>16 DEF Promise

\* A new criterion has the number of a requirement that is there.
LEMMA CareCriterion == ASSUME CInv, habits = {}, AddCriterion \/ AddEdgeCase PROVE Promise
<1>1. PICK i \in DOMAIN spec.reqs, r \in Requirement, c \in Criterion :
         /\ spec'.reqs = [spec.reqs EXCEPT ![i] = r]
         /\ r.id = spec.reqs[i].id
         /\ \/ /\ r.acs = Append(spec.reqs[i].acs, c) /\ r.ecs = spec.reqs[i].ecs
               /\ c.id = NextCriterionID(spec.reqs[i])
            \/ /\ r.ecs = Append(spec.reqs[i].ecs, c) /\ r.acs = spec.reqs[i].acs
               /\ c.id = NextEdgeCaseID(spec.reqs[i])
  <2>1. EInv
    BY DEF CInv
  <2> QED
    BY <2>1, CriterionDoes, Zenon
<1>2. /\ OnlyReqs /\ Careful(spec)
      /\ spec.reqs \in Seq(Requirement) /\ spec'.reqs \in Seq(Requirement)
  BY CriterionDoes DEF CInv, EInv, Shape
<1> DEFINE old == spec.reqs[i]
<1>3. /\ DOMAIN spec'.reqs = DOMAIN spec.reqs /\ spec'.reqs[i] = r
      /\ \A j \in DOMAIN spec.reqs \ {i} : spec'.reqs[j] = spec.reqs[j]
  BY <1>1, <1>2, ReplaceAt
<1>4. /\ old \in Requirement /\ old \in Range(spec.reqs) /\ CriteriaOf(old)
      /\ old.acs \in Seq(Criterion) /\ old.ecs \in Seq(Criterion)
  <2>1. old \in Requirement /\ old \in Range(spec.reqs)
    BY <1>2 DEF Range
  <2> QED
    BY <1>2, <2>1 DEF Careful, Requirement
<1>5. c.id[1] = old.id[1] /\ c.id[3] = old.id[3] /\ c.id[2] \in {"AC", "EC"}
  BY <1>1 DEF NextCriterionID, NextEdgeCaseID
<1>6. Ids(r.acs) \cup Ids(r.ecs) = Ids(old.acs) \cup Ids(old.ecs) \cup {c.id} /\ CriteriaOf(r)
  <2>1. /\ Ids(Append(old.acs, c)) = Ids(old.acs) \cup {c.id}
        /\ Range(Append(old.acs, c)) = Range(old.acs) \cup {c}
        /\ Ids(Append(old.ecs, c)) = Ids(old.ecs) \cup {c.id}
        /\ Range(Append(old.ecs, c)) = Range(old.ecs) \cup {c}
    BY <1>4, IdsAppend
  <2>2. CASE /\ r.acs = Append(old.acs, c) /\ r.ecs = old.ecs
             /\ c.id = NextCriterionID(old)
    <3>1. c.id[2] = "AC"
      BY <2>2 DEF NextCriterionID
    <3> HIDE DEF old
    <3> QED
      BY <1>1, <1>4, <1>5, <2>1, <2>2, <3>1 DEF CriteriaOf, old
  <2>3. CASE /\ r.ecs = Append(old.ecs, c) /\ r.acs = old.acs
             /\ c.id = NextEdgeCaseID(old)
    <3>1. c.id[2] = "EC"
      BY <2>3 DEF NextEdgeCaseID
    <3> QED
      BY <1>1, <1>4, <1>5, <2>1, <2>3, <3>1 DEF CriteriaOf
  <2> QED
    BY <1>1, <2>2, <2>3
<1>7. Ids(spec'.reqs) = Ids(spec.reqs)
  <2>1. \A j \in DOMAIN spec.reqs : spec'.reqs[j].id = spec.reqs[j].id
    BY <1>1, <1>3
  <2> QED
    BY <1>2, <1>3, <2>1, SameIds
<1>8. Range(spec'.reqs) = {spec.reqs[j] : j \in DOMAIN spec.reqs \ {i}} \cup {r}
  BY <1>3 DEF Range
<1>9. Range(spec.reqs) = {spec.reqs[j] : j \in DOMAIN spec.reqs \ {i}} \cup {old}
  BY DEF Range
<1> DEFINE rest == {spec.reqs[j] : j \in DOMAIN spec.reqs \ {i}}
<1>10. CritIds(spec'.reqs) = CritIds(spec.reqs) \cup {c.id}
  <2> HIDE DEF rest, old
  <2>1. Range(spec'.reqs) = rest \cup {r} /\ Range(spec.reqs) = rest \cup {old}
    BY <1>8, <1>9 DEF rest
  <2>2. CritIds(spec.reqs) = (UNION {Ids(x.acs) \cup Ids(x.ecs) : x \in rest})
                             \cup (Ids(old.acs) \cup Ids(old.ecs))
    BY <2>1 DEF CritIds
  <2>3. CritIds(spec'.reqs) = (UNION {Ids(x.acs) \cup Ids(x.ecs) : x \in rest})
                              \cup (Ids(r.acs) \cup Ids(r.ecs))
    BY <2>1 DEF CritIds
  <2> QED
    BY <1>6, <2>2, <2>3
<1>11. DefinedIds(spec') = DefinedIds(spec) \cup {c.id}
  BY <1>2, <1>7, <1>10, DefinedAre DEF OnlyReqs
<1>12. Referenced(spec') = Referenced(spec)
  BY <1>2, SameReferences DEF OnlyReqs
<1>13. RefersBack(spec')
  BY <1>2, <1>7, <1>11, <1>12, BackKept DEF Careful
<1>14. Careful(spec')
  <2>1. \A x \in Range(spec.reqs) : x.id[1] = spec.heads.requirements[1] /\ CriteriaOf(x)
    BY <1>2 DEF Careful
  <2>2. r.id[1] = spec.heads.requirements[1]
    BY <1>1, <1>4, <2>1
  <2>3. \A x \in Range(spec'.reqs) : x \in Range(spec.reqs) \/ x = r
    <3> HIDE DEF rest, old
    <3> QED
      BY <1>8, <1>9 DEF rest
  <2>4. \A x \in Range(spec'.reqs) : x.id[1] = spec.heads.requirements[1] /\ CriteriaOf(x)
    BY <1>6, <2>1, <2>2, <2>3
  <2>5. spec.heads.requirements # Nil
    BY <1>2, Empty DEF Careful
  <2> QED
    BY <1>2, <1>13, <2>4, <2>5 DEF Careful, OnlyReqs
<1>15. ~Dead(spec, c.id)
  <2>1. old.id[3] \in Suffixes(spec.reqs, "REQ")
    BY <1>2, <1>4, ReqNumbers
  <2> QED
    BY <1>5, <2>1 DEF Dead
<1> QED
  BY <1>2, <1>11, <1>14, <1>15 DEF Promise, Careful, RefersBack

\* Other entries' ids are of kinds that are never dead, and they refer to what is there.
LEMMA CareItem ==
  ASSUME CInv, habits = {}, NEW k \in Collections, AddItem(k) PROVE Promise
<1>1. PICK x \in ItemOf(k) :
         /\ spec'.items[k] = Append(spec.items[k], x) /\ x.refs \in ItemRefs(k)
  BY AddItemDoes DEF CInv
<1>2. /\ OnlyItems /\ Careful(spec) /\ spec.items[k] \in Seq(ItemOf(k))
      /\ \A l \in Collections \ {k} : spec'.items[l] = spec.items[l]
  BY AddItemDoes DEF CInv, EInv, Shape
<1>3. /\ Ids(spec'.items[k]) = Ids(spec.items[k]) \cup {x.id}
      /\ Range(spec'.items[k]) = Range(spec.items[k]) \cup {x}
  BY <1>1, <1>2, IdsAppend
<1>4. EntryIds(spec'.items) = EntryIds(spec.items) \cup {x.id}
  BY <1>2, <1>3 DEF EntryIds
<1>5. DefinedIds(spec') = DefinedIds(spec) \cup {x.id}
  BY <1>2, <1>4, DefinedAre DEF OnlyItems
<1>6. ASSUME NEW id \in EntryRefs(spec'.items) PROVE id \in EntryRefs(spec.items) \cup x.refs
  <2>1. PICK l \in Collections : \E y \in Range(spec'.items[l]) : id \in y.refs
    BY DEF EntryRefs
  <2>2. PICK y \in Range(spec'.items[l]) : id \in y.refs
    BY <2>1
  <2>3. y \in Range(spec.items[l]) \/ y = x
    BY <1>2, <1>3
  <2> QED
    BY <2>2, <2>3 DEF EntryRefs
<1>7. x.refs \subseteq DefinedIds(spec)
  BY <1>1, CarefulItemRefs
<1>8. Referenced(spec') \subseteq Referenced(spec) \cup DefinedIds(spec)
  <2>1. spec'.trace = spec.trace /\ spec'.groups = spec.groups
    BY <1>2 DEF OnlyItems
  <2> QED
    BY <1>6, <1>7, <2>1, ReferencedAre
<1>9. spec'.reqs = spec.reqs /\ spec'.heads = spec.heads
  BY <1>2 DEF OnlyItems
<1>10. Careful(spec')
  <2>1. RefersBack(spec')
    BY <1>2, <1>5, <1>8, <1>9, BackKept DEF Careful
  <2> QED
    BY <1>2, <1>9, <2>1, ReqsKept
<1>11. ~Dead(spec, x.id)
  <2>1. x.id[2] = TheKind(k)
    BY DEF ItemOf, ItemId
  <2> QED
    BY <2>1, KindTypes DEF Dead
<1> QED
  BY <1>2, <1>5, <1>10, <1>11 DEF Promise, Careful, RefersBack

\* The plan and the traceability entries define nothing.
LEMMA CarePlan ==
  ASSUME Careful(spec), spec'.reqs = spec.reqs, spec'.items = spec.items,
         \A a \in Artifacts : Has(a) => spec'.heads[a] = spec.heads[a],
         Referenced(spec') \subseteq Referenced(spec) \cup DefinedIds(spec)
  PROVE  Promise
<1>1. DefinedIds(spec') = DefinedIds(spec)
  BY DefinedAre
<1>2. RefersBack(spec')
  BY <1>1, BackKept DEF Careful
<1>3. Careful(spec')
  BY <1>2, ReqsKept
<1> QED
  BY <1>1, <1>3 DEF Promise

LEMMA CareTrace == ASSUME CInv, habits = {}, AddTraceabilityEntry PROVE Promise
<1>1. PICK e \in TraceEntry :
        /\ spec'.trace = Append(spec.trace, e)
        /\ e.req \in reqIDs(spec) /\ e.test \in knownTestIDs(spec)
  BY TraceDoes DEF CInv
<1>2. OnlyTrace /\ Careful(spec) /\ spec.trace \in Seq(TraceEntry)
  BY TraceDoes DEF CInv, EInv, Shape
<1>3. Range(spec'.trace) = Range(spec.trace) \cup {e}
  BY <1>1, <1>2, RangeOfAppend
<1>4. TraceRefs(spec'.trace) = TraceRefs(spec.trace) \cup {e.req, e.test}
  BY <1>3 DEF TraceRefs
<1>5. Referenced(spec') \subseteq Referenced(spec) \cup DefinedIds(spec)
  BY <1>1, <1>2, <1>4, ReferencedAre, KnownAreDefined DEF OnlyTrace
<1> QED
  BY <1>2, <1>5, CarePlan DEF OnlyTrace

LEMMA CareGroup == ASSUME CInv, habits = {}, AddTaskGroup PROVE Promise
<1>1. PICK g \in TaskGroup : spec'.groups = Append(spec.groups, g) /\ g.subs = <<>>
  BY AddGroupDoes DEF CInv
<1>2. OnlyGroups /\ Careful(spec) /\ spec.groups \in Seq(TaskGroup)
  BY AddGroupDoes DEF CInv, EInv, Shape
<1>3. Range(spec'.groups) = Range(spec.groups) \cup {g} /\ Range(g.subs) = {}
  BY <1>1, <1>2, RangeOfAppend, Empty
<1>4. UNION {Range(h.subs) : h \in Range(spec'.groups)}
        = UNION {Range(h.subs) : h \in Range(spec.groups)}
  BY <1>3
<1>5. Referenced(spec') = Referenced(spec)
  BY <1>2, <1>4, SameReferences DEF OnlyGroups, PlanRefs
<1> QED
  BY <1>2, <1>5, CarePlan DEF OnlyGroups

LEMMA CareSubtask == ASSUME CInv, habits = {}, AddSubtask PROVE Promise
<1>1. PICK i \in DOMAIN spec.groups, g \in TaskGroup, t \in Subtask :
              /\ spec'.groups = [spec.groups EXCEPT ![i] = g]
              /\ g.subs = Append(spec.groups[i].subs, t)
              /\ t.reqRefs \in RefChoices(Ids(spec.reqs), LooseReq)
              /\ t.testRefs \in RefChoices(knownTestIDs(spec), LooseTest)
  <2>1. EInv
    BY DEF CInv
  <2> QED
    BY <2>1, AddSubtaskDoes, Zenon
<1>2. OnlyGroups /\ Careful(spec) /\ spec.groups \in Seq(TaskGroup)
  BY AddSubtaskDoes DEF CInv, EInv, Shape
<1>3. /\ DOMAIN spec'.groups = DOMAIN spec.groups /\ spec'.groups[i] = g
      /\ \A j \in DOMAIN spec.groups \ {i} : spec'.groups[j] = spec.groups[j]
  BY <1>1, <1>2, ReplaceAt
<1>4. Range(g.subs) = Range(spec.groups[i].subs) \cup {t}
  <2>1. spec.groups[i] \in TaskGroup
    BY <1>2
  <2>2. spec.groups[i].subs \in Seq(Subtask)
    BY <2>1 DEF TaskGroup
  <2> QED
    BY <1>1, <2>2, RangeOfAppend
<1>5. t.reqRefs \cup t.testRefs \subseteq DefinedIds(spec)
  BY <1>1, CarefulChoices, KnownAreDefined
<1>6. ASSUME NEW id \in PlanRefs(spec'.groups) PROVE id \in PlanRefs(spec.groups) \cup DefinedIds(spec)
  <2>1. PICK h \in Range(spec'.groups) : \E u \in Range(h.subs) : id \in u.reqRefs \cup u.testRefs
    BY DEF PlanRefs
  <2>2. PICK u \in Range(h.subs) : id \in u.reqRefs \cup u.testRefs
    BY <2>1
  <2>3. PICK j \in DOMAIN spec.groups : h = spec'.groups[j]
    BY <1>3 DEF Range
  <2>4. u \in Range(spec.groups[j].subs) \/ u = t
    BY <1>3, <1>4, <2>2, <2>3
  <2>5. spec.groups[j] \in Range(spec.groups)
    BY DEF Range
  <2> QED
    BY <1>5, <2>2, <2>4, <2>5 DEF PlanRefs
<1>7. Referenced(spec') \subseteq Referenced(spec) \cup DefinedIds(spec)
  BY <1>2, <1>6, ReferencedAre DEF OnlyGroups
<1> QED
  BY <1>2, <1>7, CarePlan DEF OnlyGroups

LEMMA CareStates ==
  ASSUME CInv, TransitionSome \/ CompleteSubtaskStates \/ ResetSubtaskStates, habits = {}
  PROVE  Promise
<1>1. /\ OnlyGroups /\ DOMAIN spec'.groups = DOMAIN spec.groups
      /\ \A i \in DOMAIN spec.groups : Alike(spec.groups[i], spec'.groups[i])
      /\ Careful(spec) /\ Shape(spec) /\ Shape(spec')
  BY StatesDo DEF CInv, EInv
<1>2. ASSUME NEW id \in PlanRefs(spec'.groups) PROVE id \in PlanRefs(spec.groups)
  <2>1. PICK h \in Range(spec'.groups) : \E u \in Range(h.subs) : id \in u.reqRefs \cup u.testRefs
    BY DEF PlanRefs
  <2>2. PICK u \in Range(h.subs) : id \in u.reqRefs \cup u.testRefs
    BY <2>1
  <2>3. PICK i \in DOMAIN spec.groups : h = spec'.groups[i]
    BY <1>1 DEF Range
  <2>4. /\ spec.groups[i].subs \in Seq(Subtask) /\ h.subs \in Seq(Subtask)
        /\ Alike(spec.groups[i], h)
    <3>1. spec.groups[i] \in TaskGroup /\ spec'.groups[i] \in TaskGroup
      BY <1>1 DEF Shape
    <3> QED
      BY <1>1, <2>3, <3>1 DEF TaskGroup
  <2>5. DOMAIN h.subs = DOMAIN spec.groups[i].subs
    BY <2>4 DEF Alike
  <2>6. PICK j \in DOMAIN spec.groups[i].subs : u = h.subs[j]
    BY <2>2, <2>5 DEF Range
  <2>7. id \in spec.groups[i].subs[j].reqRefs \cup spec.groups[i].subs[j].testRefs
    BY <2>2, <2>4, <2>6 DEF Alike
  <2>8. spec.groups[i] \in Range(spec.groups) /\ spec.groups[i].subs[j] \in Range(spec.groups[i].subs)
    BY DEF Range
  <2> QED
    BY <2>7, <2>8 DEF PlanRefs
<1>3. Referenced(spec') \subseteq Referenced(spec) \cup DefinedIds(spec)
  BY <1>1, <1>2, ReferencedAre DEF OnlyGroups
<1> QED
  BY <1>1, <1>3, CarePlan DEF OnlyGroups

LEMMA CareBootstrap == ASSUME CInv, habits = {}, SetArtifact \/ SetPRD PROVE Promise
<1>1. /\ spec'.reqs = spec.reqs /\ spec'.items = spec.items /\ spec'.trace = spec.trace
      /\ spec'.groups = spec.groups \/ spec'.groups = Scaffold
      /\ \A a \in Artifacts : Has(a) => spec'.heads[a] = spec.heads[a]
      /\ Careful(spec)
  BY BootstrapDoes DEF CInv
<1>2. PlanRefs(Scaffold) = {}
  <2>1. \A g \in Range(Scaffold) : Range(g.subs) = {}
    BY ScaffoldTypes, Empty DEF Range
  <2> QED
    BY <2>1 DEF PlanRefs
<1>3. Referenced(spec') \subseteq Referenced(spec)
  BY <1>1, <1>2, ReferencedAre
<1> QED
  BY <1>1, <1>3, CarePlan

-----------------------------------------------------------------------------
(***************************************************************************)
(* A careful caller keeps the specification as CInv says, from its         *)
(* beginning on.                                                           *)
(***************************************************************************)
LEMMA BlankIsCareful ==
  ASSUME NEW s, s.reqs = <<>>, s.trace = <<>>, \A k \in Collections : s.items[k] = <<>>,
         \A g \in Range(s.groups) : g.subs = <<>>
  PROVE  Careful(s)
<1>1. Range(<<>>) = {}
  BY Empty
<1>2. EntryRefs(s.items) = {} /\ TraceRefs(s.trace) = {} /\ PlanRefs(s.groups) = {}
  BY <1>1 DEF EntryRefs, TraceRefs, PlanRefs
<1>3. Referenced(s) = {}
  BY <1>2, ReferencedAre
<1> QED
  BY <1>1, <1>3 DEF Careful, RefersBack

LEMMA CreateIsCareful == Careful(CreateSpec) /\ Careful(NewBootstrapSpec)
<1>1. \A g \in Range(Scaffold) : g.subs = <<>>
  BY ScaffoldTypes DEF Range
<1>2. \A k \in Collections : CreateSpec.items[k] = <<>>
  BY CreateTypes
<1>3. Careful(CreateSpec)
  BY <1>1, <1>2, CreateTypes, BlankIsCareful
<1>4. \A g \in Range(<<>>) : g.subs = <<>>
  BY Empty
<1>5. \A k \in Collections : NewBootstrapSpec.items[k] = <<>>
  BY BootstrapShape
<1>6. Careful(NewBootstrapSpec)
  BY <1>4, <1>5, BootstrapShape, BlankIsCareful
<1> QED
  BY <1>3, <1>6

\* All that the complete specification refers to, and that it defines it.
LEMMA CompleteRefers ==
  Referenced(Complete) \subseteq {<<SpecId, "AC", 1, 1>>, <<SpecId, "PATH", 1>>,
                                  <<SpecId, "TC", 1>>, <<SpecId, "REQ", 1>>,
                                  <<SpecId, "SMOKE", 1>>}
<1>1. /\ Range(<<TheCase>>) = {TheCase} /\ Range(<<ThePath>>) = {ThePath}
      /\ Range(<<TheSmoke>>) = {TheSmoke} /\ Range(<<TheEntry>>) = {TheEntry}
      /\ Range(<<TheTask>>) = {TheTask} /\ Range(<<TheCheck>>) = {TheCheck}
      /\ Range(<<>>) = {}
  BY Singleton, Empty
<1>2. EntryRefs(TheItems) \subseteq {<<SpecId, "AC", 1, 1>>, <<SpecId, "PATH", 1>>}
  <2> SUFFICES ASSUME NEW id \in EntryRefs(TheItems)
               PROVE  id \in {<<SpecId, "AC", 1, 1>>, <<SpecId, "PATH", 1>>}
    OBVIOUS
  <2>1. PICK k \in Collections : \E x \in Range(TheItems[k]) : id \in x.refs
    BY DEF EntryRefs
  <2>2. PICK x \in Range(TheItems[k]) : id \in x.refs
    BY <2>1
  <2>3. x \in {TheCase, ThePath, TheSmoke}
    BY <1>1, <2>2, CompleteFields
  <2>4. /\ TheCase.refs = {<<SpecId, "AC", 1, 1>>} /\ ThePath.refs = {}
        /\ TheSmoke.refs = {<<SpecId, "PATH", 1>>}
    BY DEF TheCase, ThePath, TheSmoke, Item
  <2> QED
    BY <2>2, <2>3, <2>4
<1>3. TraceRefs(<<TheEntry>>) = {<<SpecId, "AC", 1, 1>>, <<SpecId, "TC", 1>>}
  <2>1. TheEntry.req = <<SpecId, "AC", 1, 1>> /\ TheEntry.test = <<SpecId, "TC", 1>>
    BY DEF TheEntry
  <2> QED
    BY <1>1, <2>1 DEF TraceRefs
<1>4. PlanRefs(<<TheTests, TheWiring>>) \subseteq {<<SpecId, "REQ", 1>>, <<SpecId, "SMOKE", 1>>}
  <2> SUFFICES ASSUME NEW id \in PlanRefs(<<TheTests, TheWiring>>)
               PROVE  id \in {<<SpecId, "REQ", 1>>, <<SpecId, "SMOKE", 1>>}
    OBVIOUS
  <2>1. PICK g \in Range(<<TheTests, TheWiring>>) : \E t \in Range(g.subs) :
               id \in t.reqRefs \cup t.testRefs
    BY DEF PlanRefs
  <2>2. PICK t \in Range(g.subs) : id \in t.reqRefs \cup t.testRefs
    BY <2>1
  <2>3. g \in {TheTests, TheWiring}
    BY DEF Range
  <2>4. t \in {TheTask, TheCheck}
    BY <1>1, <2>2, <2>3, PartTypes
  <2>5. /\ TheTask.reqRefs = {<<SpecId, "REQ", 1>>} /\ TheTask.testRefs = {}
        /\ TheCheck.reqRefs = {} /\ TheCheck.testRefs = {<<SpecId, "SMOKE", 1>>}
    BY DEF TheTask, TheCheck
  <2> QED
    BY <2>2, <2>4, <2>5
<1>5. Referenced(Complete) = EntryRefs(TheItems) \cup TraceRefs(<<TheEntry>>)
                             \cup PlanRefs(<<TheTests, TheWiring>>)
  BY ReferencedAre, CompleteFields
<1> QED
  BY <1>2, <1>3, <1>4, <1>5

LEMMA CompleteDefines ==
  {<<SpecId, "AC", 1, 1>>, <<SpecId, "PATH", 1>>, <<SpecId, "TC", 1>>, <<SpecId, "REQ", 1>>,
   <<SpecId, "SMOKE", 1>>} \subseteq DefinedIds(Complete)
<1>1. /\ Range(<<TheCase>>) = {TheCase} /\ Range(<<ThePath>>) = {ThePath}
      /\ Range(<<TheSmoke>>) = {TheSmoke} /\ Range(<<TheReq>>) = {TheReq}
      /\ Range(<<TheCrit>>) = {TheCrit}
  BY Singleton
<1>2. /\ TheCase.id = <<SpecId, "TC", 1>> /\ ThePath.id = <<SpecId, "PATH", 1>>
      /\ TheSmoke.id = <<SpecId, "SMOKE", 1>> /\ TheReq.id = <<SpecId, "REQ", 1>>
      /\ TheCrit.id = <<SpecId, "AC", 1, 1>>
  BY DEF TheCase, ThePath, TheSmoke, TheReq, TheCrit, Item
<1>3. <<SpecId, "REQ", 1>> \in Ids(<<TheReq>>)
  BY <1>1, <1>2 DEF Ids
<1>4. <<SpecId, "AC", 1, 1>> \in CritIds(<<TheReq>>)
  <2>1. <<SpecId, "AC", 1, 1>> \in Ids(TheReq.acs)
    BY <1>1, <1>2, PartTypes DEF Ids
  <2>2. PICK r \in Range(<<TheReq>>) : r = TheReq
    BY <1>1
  <2>3. <<SpecId, "AC", 1, 1>> \in Ids(r.acs) \cup Ids(r.ecs)
    BY <2>1, <2>2
  <2> QED
    BY <2>3 DEF CritIds
<1>5. /\ <<SpecId, "TC", 1>> \in Ids(TheItems["cases"])
      /\ <<SpecId, "PATH", 1>> \in Ids(TheItems["paths"])
      /\ <<SpecId, "SMOKE", 1>> \in Ids(TheItems["smokes"])
  BY <1>1, <1>2, CompleteFields DEF Ids
<1>6. /\ <<SpecId, "TC", 1>> \in EntryIds(TheItems)
      /\ <<SpecId, "PATH", 1>> \in EntryIds(TheItems)
      /\ <<SpecId, "SMOKE", 1>> \in EntryIds(TheItems)
  BY <1>5, KindTypes DEF EntryIds
<1> QED
  BY <1>3, <1>4, <1>6, DefinedAre, CompleteFields

LEMMA CompleteIsCareful == Careful(Complete)
<1>1. Complete.heads.requirements = Identity /\ Identity \in Heads /\ Identity[1] = SpecId
  BY CompleteFields DEF Artifacts, Identity, Heads
<1>2. Complete.heads.requirements # Nil
  BY <1>1, EditingAssumption
<1>3. /\ Range(Complete.reqs) = {TheReq} /\ Range(TheReq.acs) = {TheCrit}
      /\ Range(TheReq.ecs) = {}
  BY CompleteFields, PartTypes, Singleton, Empty
<1>4. TheReq.id[1] = SpecId /\ CriteriaOf(TheReq)
  <2>1. TheReq.id = <<SpecId, "REQ", 1>> /\ TheCrit.id = <<SpecId, "AC", 1, 1>>
    BY DEF TheReq, TheCrit
  <2> QED
    BY <1>3, <2>1 DEF CriteriaOf
<1>5. RefersBack(Complete)
  BY CompleteRefers, CompleteDefines DEF RefersBack
<1> QED
  BY <1>1, <1>2, <1>3, <1>4, <1>5 DEF Careful

LEMMA ReplannedIsCareful == ASSUME NEW s, Replanned(s) PROVE Careful(s)
<1>1. /\ s.reqs = Complete.reqs /\ s.items = Complete.items /\ s.trace = Complete.trace
      /\ s.heads = Complete.heads
      /\ \A g \in Range(s.groups) : Range(g.subs) \subseteq {TheTask, TheCheck}
  BY ReplannedShape
<1>2. PlanRefs(s.groups) \subseteq {<<SpecId, "REQ", 1>>, <<SpecId, "SMOKE", 1>>}
  BY <1>1 DEF PlanRefs, TheTask, TheCheck
<1>3. {<<SpecId, "REQ", 1>>, <<SpecId, "SMOKE", 1>>} \subseteq DefinedIds(Complete)
  BY CompleteDefines
<1>4. EntryRefs(s.items) \cup TraceRefs(s.trace) \subseteq Referenced(Complete)
  BY <1>1, ReferencedAre
<1>5. DefinedIds(s) = DefinedIds(Complete)
  BY <1>1, DefinedAre
<1>6. RefersBack(s)
  <2>1. ASSUME NEW id \in Referenced(s) PROVE id \in DefinedIds(s)
    BY <1>2, <1>3, <1>4, <1>5, CompleteRefers, CompleteDefines, ReferencedAre
  <2> QED
    BY <2>1 DEF RefersBack
<1> QED
  BY <1>1, <1>6, CompleteIsCareful DEF Careful

LEMMA CInit == ASSUME Init PROVE CInv
<1>1. PICK start \in Starts : spec = Beginning[start[1]]
  BY DEF Init
<1>2. start[1] \in {"created", "complete", "bootstrap", "repeats", "twins"}
  BY EditingAssumption
<1>3. \/ spec = CreateSpec \/ spec = Complete \/ spec = NewBootstrapSpec
      \/ Replanned(spec)
  BY <1>1, <1>2, PlansWithRepeats DEF Beginning
<1> QED
  BY <1>3, EInit, CreateIsCareful, CompleteIsCareful, ReplannedIsCareful DEF CInv

\* What every step of a careful caller promises.
LEMMA Promised == ASSUME CInv, habits = {}, [Next]_vars PROVE Promise
<1>0. EInv /\ Careful(spec)
  BY DEF CInv
<1>1. CASE AddRequirement
  BY <1>1, CareAddRequirement
<1>2. CASE RemoveRequirement
  BY <1>2, CareRemoveRequirement
<1>3. CASE AddCriterion \/ AddEdgeCase
  BY <1>3, CareCriterion
<1>4. CASE AddToRequirements \/ AddToTests
  BY <1>4, CareItem, KindTypes DEF AddToRequirements, AddToTests
<1>5. CASE SetGlossaryEntry \/ RemoveGlossaryEntry
  <2>1. OnlyGroups /\ spec'.groups = spec.groups
    BY <1>0, <1>5, GlossaryDoes
  <2>2. Referenced(spec') = Referenced(spec)
    BY <2>1, SameReferences DEF OnlyGroups
  <2> QED
    BY <1>0, <2>1, <2>2, CarePlan DEF OnlyGroups
<1>6. CASE AddTaskGroup
  BY <1>6, CareGroup
<1>7. CASE AddSubtask
  BY <1>7, CareSubtask
<1>8. CASE AddTraceabilityEntry
  BY <1>8, CareTrace
<1>9. CASE TransitionSome \/ CompleteSubtaskStates \/ ResetSubtaskStates
  BY <1>9, CareStates
<1>10. CASE SetArtifact \/ SetPRD
  BY <1>10, CareBootstrap
<1>11. CASE UNCHANGED vars
  <2>1. spec' = spec
    BY <1>11 DEF vars
  <2> QED
    BY <1>0, <2>1, CarePlan
<1> QED
  BY <1>1, <1>2, <1>3, <1>4, <1>5, <1>6, <1>7, <1>8, <1>9, <1>10, <1>11 DEF Next

LEMMA HabitsStay == ASSUME [Next]_vars PROVE habits' = habits
<1>1. \A new : Edit(new) => habits' = habits
  BY DEF Edit
<1>2. ASSUME AddRequirement \/ RemoveRequirement \/ AddCriterion \/ AddEdgeCase
      PROVE  habits' = habits
  BY <1>1, <1>2, Zenon DEF AddRequirement, RemoveRequirement, AddCriterion, AddEdgeCase
<1>3. ASSUME NEW k, AddItem(k) PROVE habits' = habits
  BY <1>1, <1>3, Zenon DEF AddItem
<1>4. ASSUME SetGlossaryEntry \/ RemoveGlossaryEntry \/ AddTaskGroup
      PROVE  habits' = habits
  BY <1>1, <1>4, Zenon DEF SetGlossaryEntry, RemoveGlossaryEntry, AddTaskGroup
<1>5. ASSUME AddSubtask \/ AddTraceabilityEntry PROVE habits' = habits
  BY <1>1, <1>5, Zenon DEF AddSubtask, AddTraceabilityEntry
<1>6. ASSUME TransitionSome \/ CompleteSubtaskStates \/ ResetSubtaskStates
      PROVE  habits' = habits
  BY <1>1, <1>6, Zenon DEF TransitionSome, TransitionSubtask, CompleteSubtaskStates,
                           ResetSubtaskStates
<1>7. ASSUME SetArtifact \/ SetPRD \/ UNCHANGED vars PROVE habits' = habits
  BY <1>7 DEF SetArtifact, SetPRD, vars
<1> QED
  BY <1>2, <1>3, <1>4, <1>5, <1>6, <1>7 DEF Next, AddToRequirements, AddToTests

LEMMA CNext == ASSUME CInv, [Next]_vars PROVE CInv'
<1>1. EInv' /\ habits' = habits
  BY ENext, HabitsStay DEF CInv
<1>2. habits' = {} => Careful(spec')
  BY <1>1, Promised DEF Promise
<1> QED
  BY <1>1, <1>2 DEF CInv

\* In careful hands what is referred to is there, or was under a number that stays unused.
THEOREM CarefulInvariant == Spec => []CInv
<1>1. Init => CInv
  BY CInit
<1>2. CInv /\ [Next]_vars => CInv'
  BY CNext
<1> QED
  BY <1>1, <1>2, PTL DEF Spec

(***************************************************************************)
(* Next*ID looks at one list, and still no two entries of the whole        *)
(* specification have one id.                                              *)
(***************************************************************************)
THEOREM OneIdOneEntry == Spec => []IdsDenoteOneEntry
<1>1. CInv => IdsDenoteOneEntry
  BY OneEntry
<1> QED
  BY <1>1, CarefulInvariant, PTL

(***************************************************************************)
(* A new entry never takes an id that something refers to, be it what is   *)
(* left of the references to a requirement that was removed.               *)
(***************************************************************************)
THEOREM NewEntriesTakeNewIds == Spec => NewIdsAreNew
<1>1. CInv /\ [Next]_vars =>
        [habits = {} =>
           \A id \in DefinedIds(spec') \ DefinedIds(spec) : id \notin Referenced(spec)]_vars
  BY Promised DEF Promise
<1> QED
  BY <1>1, CarefulInvariant, PTL DEF Spec, NewIdsAreNew

-----------------------------------------------------------------------------
(***************************************************************************)
(* An edit breaks only what it touches.  The errors fall into groups, by   *)
(* what they look at: the requirements, the references, what is covered,   *)
(* the other entries, the plan; and those an edit may cause anywhere.      *)
(***************************************************************************)
Local(e) == \/ e[2] \in Touched
            \/ Len(e) = 3 /\ e[3] \in Removed
            \/ e[1] \in {"task_group_structure", "wiring_verification", "cross_file_6"}

Unknown(check, refs, known) == {<<check, ref>> : ref \in refs \ known}

RefsOf(q)     == UNION {x.refs : x \in Range(q)}
TraceReqs(s)  == {e.req : e \in Range(s.trace)}
TraceTests(s) == {e.test : e \in Range(s.trace)}
PlanReqs(s)   == UNION {t.reqRefs : t \in Subtasks(s)}
PlanTests(s)  == UNION {t.testRefs : t \in Subtasks(s)}

ReqErrors(s) ==
  {<<"json_schema", r.id>> : r \in {r \in Range(s.reqs) : r.acs = <<>>}}
  \cup EarsErrors(s) \cup RequirementIdErrors(s) \cup CriterionIdErrors(s)
  \cup {<<"no_criteria", r.id>> : r \in {r \in Range(s.reqs) : r.acs = <<>> /\ r.ecs = <<>>}}
  \cup MissingContracts(s)

RefErrors(s) ==
  Unknown("cross_file_1", TraceReqs(s), reqIDs(s))
  \cup Dangling("cross_file_1", s.items.errs, reqIDs(s))
  \cup Dangling("validates_ref", s.items.props, criterionIDs(s))
  \cup Dangling("dangling_reference", s.items.cases, reqIDs(s))
  \cup Dangling("dangling_reference", s.items.ptests, Ids(s.items.props))
  \cup Dangling("dangling_reference", s.items.etests, reqIDs(s))
  \cup Dangling("dangling_reference", s.items.smokes, Ids(s.items.paths))
  \cup Unknown("cross_file_5", TraceTests(s), knownTestIDs(s))
  \cup Unknown("cross_file_5", PlanTests(s), knownTestIDs(s))
  \cup Unknown("cross_file_9", PlanReqs(s), reqIDs(s))

GapErrors(s) ==
  Unknown("coverage_gap", criterionIDs(s), coveredReqIDs(s))
  \cup Unknown("cross_file_3", Ids(s.items.props), RefsOf(s.items.ptests))
  \cup Unknown("cross_file_4", Ids(s.items.paths), RefsOf(s.items.smokes))

ItemErrors(s) ==
  {<<"json_schema", p.id>> : p \in {p \in Range(s.items.props) : p.refs = {}}}
  \cup {<<"json_schema", t.id>> : t \in
         {t \in UNION {Range(s.items[k]) : k \in TestCollections} : t.refs = {}}}
  \cup EntryIdErrors(s) \cup TestIdErrors(s)

PlanErrors(s) ==
  ErrIf(s.groups = <<>>, <<"json_schema", "task_groups">>)
  \cup SubtaskIdErrors(s) \cup DuplicateTrace(s)

AnywhereErrors(s) == UndefinedTerms(s) \cup TaskGroupStructure(s) \cup WiringVerification(s)

LEMMA RefErrorsAre ==
  ASSUME NEW s
  PROVE  RefErrors(s) = UnknownRequirementRefs(s) \cup UnknownValidates(s) \cup DanglingTestRefs(s)
                        \cup UnknownTestRefs(s) \cup UnknownSubtaskRefs(s)
<1>2. UnknownRequirementRefs(s) = Unknown("cross_file_1", TraceReqs(s), reqIDs(s))
                                  \cup Dangling("cross_file_1", s.items.errs, reqIDs(s))
  <2>1. {<<"cross_file_1", e.req>> : e \in {e \in Range(s.trace) : e.req \notin reqIDs(s)}}
          = Unknown("cross_file_1", TraceReqs(s), reqIDs(s))
    BY DEF Unknown, TraceReqs
  <2> QED
    BY <2>1 DEF UnknownRequirementRefs
<1>5. UnknownTestRefs(s) = Unknown("cross_file_5", TraceTests(s), knownTestIDs(s))
                           \cup Unknown("cross_file_5", PlanTests(s), knownTestIDs(s))
  <2>1. {<<"cross_file_5", e.test>> : e \in {e \in Range(s.trace) : e.test \notin knownTestIDs(s)}}
          = Unknown("cross_file_5", TraceTests(s), knownTestIDs(s))
    BY DEF Unknown, TraceTests
  <2>2. {<<"cross_file_5", ref>> :
          ref \in (UNION {t.testRefs : t \in Subtasks(s)}) \ knownTestIDs(s)}
          = Unknown("cross_file_5", PlanTests(s), knownTestIDs(s))
    BY DEF Unknown, PlanTests
  <2> QED
    BY <2>1, <2>2 DEF UnknownTestRefs
<1>6. UnknownSubtaskRefs(s) = Unknown("cross_file_9", PlanReqs(s), reqIDs(s))
  BY DEF UnknownSubtaskRefs, Unknown, PlanReqs
<1> QED
  BY <1>2, <1>5, <1>6 DEF RefErrors, UnknownValidates, DanglingTestRefs

LEMMA GapErrorsAre ==
  ASSUME NEW s
  PROVE  /\ {<<"coverage_gap", c>> : c \in criterionIDs(s) \ coveredReqIDs(s)}
              \cup UntestedProperties(s) \cup UntestedPaths(s) = GapErrors(s)
BY DEF GapErrors, Unknown, UntestedProperties, UntestedPaths, Untested, RefsOf

LEMMA ErrorsAre ==
  ASSUME NEW s, \A a \in Artifacts : s.heads[a] # Nil
  PROVE  Errors(s) = ReqErrors(s) \cup RefErrors(s) \cup GapErrors(s) \cup ItemErrors(s)
                     \cup PlanErrors(s) \cup AnywhereErrors(s) \cup HeadErrors(s) \cup FolderErrors(s)
<1> DEFINE Q1 == {<<"json_schema", r.id>> : r \in {r \in Range(s.reqs) : r.acs = <<>>}}
           Q2 == {<<"json_schema", p.id>> : p \in {p \in Range(s.items.props) : p.refs = {}}}
           Q3 == {<<"json_schema", t.id>> : t \in
                   {t \in UNION {Range(s.items[k]) : k \in TestCollections} : t.refs = {}}}
           Q4 == ErrIf(s.groups = <<>>, <<"json_schema", "task_groups">>)
           G1 == {<<"coverage_gap", c>> : c \in criterionIDs(s) \ coveredReqIDs(s)}
           G2 == {<<"no_criteria", r.id>> :
                    r \in {r \in Range(s.reqs) : r.acs = <<>> /\ r.ecs = <<>>}}
<1>1. s.heads.requirements # Nil /\ s.heads.test_spec # Nil /\ s.heads.tasks # Nil
  BY DEF Artifacts
<1>2. SchemaErrors(s) = Q1 \cup Q2 \cup EarsErrors(s) \cup Q3 \cup Q4
  <2>1. ErrIf(s.heads.tasks # Nil /\ s.groups = <<>>, <<"json_schema", "task_groups">>) = Q4
    BY <1>1 DEF ErrIf
  <2> HIDE DEF Q4
  <2> QED
    BY <1>1, <2>1, Zenon DEF SchemaErrors
<1>3. ValidateCrossFile(s) =
        RequirementIdErrors(s) \cup CriterionIdErrors(s) \cup EntryIdErrors(s) \cup TestIdErrors(s)
        \cup SubtaskIdErrors(s) \cup UnknownRequirementRefs(s) \cup UnknownValidates(s)
        \cup DanglingTestRefs(s) \cup UnknownTestRefs(s) \cup UnknownSubtaskRefs(s)
        \cup (G1 \cup G2) \cup UntestedProperties(s) \cup UntestedPaths(s)
        \cup UndefinedTerms(s) \cup DuplicateTrace(s) \cup MissingContracts(s)
        \cup TaskGroupStructure(s) \cup WiringVerification(s) \cup HeadErrors(s) \cup FolderErrors(s)
  BY Zenon DEF ValidateCrossFile, CoverageGaps
<1>4. ReqErrors(s) = Q1 \cup EarsErrors(s) \cup RequirementIdErrors(s) \cup CriterionIdErrors(s)
                     \cup G2 \cup MissingContracts(s)
  BY Zenon DEF ReqErrors
<1>5. ItemErrors(s) = Q2 \cup Q3 \cup EntryIdErrors(s) \cup TestIdErrors(s)
  BY Zenon DEF ItemErrors
<1>6. PlanErrors(s) = Q4 \cup SubtaskIdErrors(s) \cup DuplicateTrace(s)
  BY Zenon DEF PlanErrors
<1>7. GapErrors(s) = G1 \cup UntestedProperties(s) \cup UntestedPaths(s)
  BY GapErrorsAre
<1> HIDE DEF Q1, Q2, Q3, Q4, G1, G2
<1> QED
  BY <1>2, <1>3, <1>4, <1>5, <1>6, <1>7, RefErrorsAre DEF Errors, AnywhereErrors

\* What is defined says by its kind in which list it is, so what a list loses or gains is touched.
LEMMA ByKind ==
  ASSUME NEW s, Shape(s)
  PROVE  /\ Ids(s.reqs) = {id \in DefinedIds(s) : id[2] = "REQ"}
         /\ criterionIDs(s) = {id \in DefinedIds(s) : id[2] \in {"AC", "EC"}}
         /\ reqIDs(s) = {id \in DefinedIds(s) : id[2] \in {"REQ", "AC", "EC"}}
         /\ \A k \in Collections : Ids(s.items[k]) = {id \in DefinedIds(s) : id[2] = TheKind(k)}
         /\ knownTestIDs(s) = {id \in DefinedIds(s) : id[2] \in {"TC", "PT", "ET", "SMOKE"}}
<1>1. DefinedIds(s) = Ids(s.reqs) \cup criterionIDs(s) \cup EntryIds(s.items)
  BY DefinedAre, CritIdsAre
<1>2. /\ \A id \in Ids(s.reqs) : id[2] = "REQ"
      /\ \A id \in criterionIDs(s) : id[2] \in {"AC", "EC"}
      /\ \A id \in EntryIds(s.items) : id[2] \notin {"REQ", "AC", "EC"}
  BY IdKinds, CritIdsAre
<1>3. \A k \in Collections : \A id \in Ids(s.items[k]) : id[2] = TheKind(k) /\ id \in EntryIds(s.items)
  BY KnownIds DEF ItemId, EntryIds
<1>4. \A id \in EntryIds(s.items) : \E k \in Collections : id \in Ids(s.items[k])
  BY DEF EntryIds
<1>5. ASSUME NEW k \in Collections
      PROVE  Ids(s.items[k]) = {id \in DefinedIds(s) : id[2] = TheKind(k)}
  <2>1. \A l \in Collections : TheKind(l) = TheKind(k) => l = k
    BY KindTypes
  <2>2. TheKind(k) \notin {"REQ", "AC", "EC"}
    BY KindTypes
  <2>3. ASSUME NEW id \in DefinedIds(s), id[2] = TheKind(k) PROVE id \in Ids(s.items[k])
    <3>1. PICK l \in Collections : id \in Ids(s.items[l])
      BY <1>1, <1>2, <1>4, <2>2, <2>3
    <3> QED
      BY <1>3, <2>1, <2>3, <3>1
  <2> QED
    BY <1>1, <1>3, <2>3
<1>6. reqIDs(s) = Ids(s.reqs) \cup criterionIDs(s)
  BY DEF reqIDs
<1>7. knownTestIDs(s) = {id \in DefinedIds(s) : id[2] \in {"TC", "PT", "ET", "SMOKE"}}
  <2>1. knownTestIDs(s) = Ids(s.items["cases"]) \cup Ids(s.items["ptests"])
                          \cup Ids(s.items["etests"]) \cup Ids(s.items["smokes"])
    BY DEF knownTestIDs, TestCollections
  <2> QED
    BY <1>5, <2>1, KindTypes
<1> QED
  BY <1>1, <1>2, <1>5, <1>6, <1>7

LEMMA Moved ==
  ASSUME Shape(spec), Shape(spec')
  PROVE  /\ criterionIDs(spec) \ criterionIDs(spec') \subseteq Touched
         /\ criterionIDs(spec') \ criterionIDs(spec) \subseteq Touched
         /\ reqIDs(spec) \ reqIDs(spec') \subseteq Touched
         /\ knownTestIDs(spec) \ knownTestIDs(spec') \subseteq Touched
         /\ \A k \in Collections : /\ Ids(spec.items[k]) \ Ids(spec'.items[k]) \subseteq Touched
                                   /\ Ids(spec'.items[k]) \ Ids(spec.items[k]) \subseteq Touched
         /\ Ids(spec'.reqs) \ Ids(spec.reqs) \subseteq Touched
BY ByKind DEF Touched, Removed

LEMMA UnknownLocal ==
  ASSUME NEW check, NEW X, NEW Y, NEW K, NEW L, X \subseteq Y \cup K \cup Touched,
         K \ L \subseteq Touched, NEW e \in Unknown(check, X, L)
  PROVE  e \in Unknown(check, Y, K) \/ Local(e)
<1>1. PICK ref \in X \ L : e = <<check, ref>>
  BY DEF Unknown
<1>2. ref \in Touched \/ ref \in Y \ K
  BY <1>1
<1> QED
  BY <1>1, <1>2 DEF Unknown, Local

\* The flat collections only grow, by entries that are touched.
ItemsGrow ==
  \A k \in Collections :
    /\ Range(spec.items[k]) \subseteq Range(spec'.items[k])
    /\ \A x \in Range(spec'.items[k]) : x \in Range(spec.items[k]) \/ x.id \in Touched

LEMMA DanglingLocal ==
  ASSUME NEW check, NEW k \in Collections, ItemsGrow, NEW K, NEW L, K \ L \subseteq Removed,
         NEW e \in Dangling(check, spec'.items[k], L)
  PROVE  e \in Dangling(check, spec.items[k], K) \/ Local(e)
<1>1. PICK x \in Range(spec'.items[k]) : e \in {<<check, x.id, ref>> : ref \in x.refs \ L}
  BY DEF Dangling
<1>2. PICK ref \in x.refs \ L : e = <<check, x.id, ref>>
  BY <1>1
<1>3. e[2] = x.id /\ e[3] = ref /\ Len(e) = 3
  BY <1>2
<1>4. CASE x.id \in Touched
  BY <1>3, <1>4 DEF Local
<1>5. CASE x \in Range(spec.items[k]) /\ ref \in K
  BY <1>2, <1>3, <1>5 DEF Local
<1>6. CASE x \in Range(spec.items[k]) /\ ref \notin K
  <2>1. e \in {<<check, x.id, r>> : r \in x.refs \ K}
    BY <1>2, <1>6
  <2> QED
    BY <1>6, <2>1 DEF Dangling
<1> QED
  BY <1>4, <1>5, <1>6 DEF ItemsGrow

\* Where the plan's and traceability's references come from: they were there, or name what was.
RefsGrow ==
  /\ TraceReqs(spec') \subseteq TraceReqs(spec) \cup reqIDs(spec)
  /\ TraceTests(spec') \subseteq TraceTests(spec) \cup knownTestIDs(spec)
  /\ PlanReqs(spec') \subseteq PlanReqs(spec) \cup reqIDs(spec)
  /\ PlanTests(spec') \subseteq PlanTests(spec) \cup knownTestIDs(spec)

LEMMA RefsLocal ==
  ASSUME Shape(spec), Shape(spec'), ItemsGrow, RefsGrow, NEW e \in RefErrors(spec')
  PROVE  e \in RefErrors(spec) \/ Local(e)
<1>1. /\ criterionIDs(spec) \ criterionIDs(spec') \subseteq Removed
      /\ reqIDs(spec) \ reqIDs(spec') \subseteq Removed
      /\ knownTestIDs(spec) \ knownTestIDs(spec') \subseteq Removed
      /\ Ids(spec.items.props) \ Ids(spec'.items.props) \subseteq Removed
      /\ Ids(spec.items.paths) \ Ids(spec'.items.paths) \subseteq Removed
  BY ByKind, KindTypes DEF Removed
<1>2. Removed \subseteq Touched
  BY DEF Touched
<1>3. CASE e \in Unknown("cross_file_1", TraceReqs(spec'), reqIDs(spec'))
  <2>1. e \in Unknown("cross_file_1", TraceReqs(spec), reqIDs(spec)) \/ Local(e)
    BY <1>1, <1>2, <1>3, UnknownLocal DEF RefsGrow
  <2> QED
    BY <2>1 DEF RefErrors
<1>4. CASE e \in Dangling("cross_file_1", spec'.items.errs, reqIDs(spec'))
  <2>1. e \in Dangling("cross_file_1", spec.items.errs, reqIDs(spec)) \/ Local(e)
    BY <1>1, <1>4, DanglingLocal, KindTypes
  <2> QED
    BY <2>1 DEF RefErrors
<1>5. CASE e \in Dangling("validates_ref", spec'.items.props, criterionIDs(spec'))
  <2>1. e \in Dangling("validates_ref", spec.items.props, criterionIDs(spec)) \/ Local(e)
    BY <1>1, <1>5, DanglingLocal, KindTypes
  <2> QED
    BY <2>1 DEF RefErrors
<1>6. CASE e \in Dangling("dangling_reference", spec'.items.cases, reqIDs(spec'))
  <2>1. e \in Dangling("dangling_reference", spec.items.cases, reqIDs(spec)) \/ Local(e)
    BY <1>1, <1>6, DanglingLocal, KindTypes
  <2> QED
    BY <2>1 DEF RefErrors
<1>7. CASE e \in Dangling("dangling_reference", spec'.items.ptests, Ids(spec'.items.props))
  <2>1. "ptests" \in Collections /\ Ids(spec.items.props) \ Ids(spec'.items.props) \subseteq Removed
    BY <1>1, KindTypes
  <2>2. \/ e \in Dangling("dangling_reference", spec.items.ptests, Ids(spec.items.props))
        \/ Local(e)
    BY <1>7, <2>1, DanglingLocal
  <2> QED
    BY <2>2 DEF RefErrors
<1>8. CASE e \in Dangling("dangling_reference", spec'.items.etests, reqIDs(spec'))
  <2>1. e \in Dangling("dangling_reference", spec.items.etests, reqIDs(spec)) \/ Local(e)
    BY <1>1, <1>8, DanglingLocal, KindTypes
  <2> QED
    BY <2>1 DEF RefErrors
<1>9. CASE e \in Dangling("dangling_reference", spec'.items.smokes, Ids(spec'.items.paths))
  <2>1. "smokes" \in Collections /\ Ids(spec.items.paths) \ Ids(spec'.items.paths) \subseteq Removed
    BY <1>1, KindTypes
  <2>2. \/ e \in Dangling("dangling_reference", spec.items.smokes, Ids(spec.items.paths))
        \/ Local(e)
    BY <1>9, <2>1, DanglingLocal
  <2> QED
    BY <2>2 DEF RefErrors
<1>10. CASE e \in Unknown("cross_file_5", TraceTests(spec'), knownTestIDs(spec'))
  <2>1. e \in Unknown("cross_file_5", TraceTests(spec), knownTestIDs(spec)) \/ Local(e)
    BY <1>1, <1>2, <1>10, UnknownLocal DEF RefsGrow
  <2> QED
    BY <2>1 DEF RefErrors
<1>11. CASE e \in Unknown("cross_file_5", PlanTests(spec'), knownTestIDs(spec'))
  <2>1. e \in Unknown("cross_file_5", PlanTests(spec), knownTestIDs(spec)) \/ Local(e)
    BY <1>1, <1>2, <1>11, UnknownLocal DEF RefsGrow
  <2> QED
    BY <2>1 DEF RefErrors
<1>12. CASE e \in Unknown("cross_file_9", PlanReqs(spec'), reqIDs(spec'))
  <2>1. e \in Unknown("cross_file_9", PlanReqs(spec), reqIDs(spec)) \/ Local(e)
    BY <1>1, <1>2, <1>12, UnknownLocal DEF RefsGrow
  <2> QED
    BY <2>1 DEF RefErrors
<1> QED
  BY <1>3, <1>4, <1>5, <1>6, <1>7, <1>8, <1>9, <1>10, <1>11, <1>12 DEF RefErrors

LEMMA GapsLocal ==
  ASSUME Shape(spec), Shape(spec'), ItemsGrow, NEW e \in GapErrors(spec')
  PROVE  e \in GapErrors(spec) \/ Local(e)
<1>1. /\ criterionIDs(spec') \subseteq criterionIDs(spec) \cup Touched
      /\ Ids(spec'.items.props) \subseteq Ids(spec.items.props) \cup Touched
      /\ Ids(spec'.items.paths) \subseteq Ids(spec.items.paths) \cup Touched
  BY Moved, KindTypes
<1>2. /\ coveredReqIDs(spec) \subseteq coveredReqIDs(spec')
      /\ RefsOf(spec.items.ptests) \subseteq RefsOf(spec'.items.ptests)
      /\ RefsOf(spec.items.smokes) \subseteq RefsOf(spec'.items.smokes)
  <2>1. /\ Range(spec.items.cases) \subseteq Range(spec'.items.cases)
        /\ Range(spec.items.etests) \subseteq Range(spec'.items.etests)
        /\ Range(spec.items.ptests) \subseteq Range(spec'.items.ptests)
        /\ Range(spec.items.smokes) \subseteq Range(spec'.items.smokes)
    BY KindTypes DEF ItemsGrow
  <2> QED
    BY <2>1 DEF coveredReqIDs, RefsOf
<1>3. CASE e \in Unknown("coverage_gap", criterionIDs(spec'), coveredReqIDs(spec'))
  <2>1. e \in Unknown("coverage_gap", criterionIDs(spec), coveredReqIDs(spec)) \/ Local(e)
    <3>1. coveredReqIDs(spec) \ coveredReqIDs(spec') \subseteq Touched
      BY <1>2
    <3>2. criterionIDs(spec') \subseteq criterionIDs(spec) \cup coveredReqIDs(spec) \cup Touched
      BY <1>1
    <3> QED
      BY <1>3, <3>1, <3>2, UnknownLocal
  <2> QED
    BY <2>1 DEF GapErrors
<1>4. CASE e \in Unknown("cross_file_3", Ids(spec'.items.props), RefsOf(spec'.items.ptests))
  <2>1. e \in Unknown("cross_file_3", Ids(spec.items.props), RefsOf(spec.items.ptests)) \/ Local(e)
    <3>1. RefsOf(spec.items.ptests) \ RefsOf(spec'.items.ptests) \subseteq Touched
      BY <1>2
    <3>2. Ids(spec'.items.props) \subseteq Ids(spec.items.props) \cup RefsOf(spec.items.ptests) \cup Touched
      BY <1>1
    <3> QED
      BY <1>4, <3>1, <3>2, UnknownLocal
  <2> QED
    BY <2>1 DEF GapErrors
<1>5. CASE e \in Unknown("cross_file_4", Ids(spec'.items.paths), RefsOf(spec'.items.smokes))
  <2>1. e \in Unknown("cross_file_4", Ids(spec.items.paths), RefsOf(spec.items.smokes)) \/ Local(e)
    <3>1. RefsOf(spec.items.smokes) \ RefsOf(spec'.items.smokes) \subseteq Touched
      BY <1>2
    <3>2. Ids(spec'.items.paths) \subseteq Ids(spec.items.paths) \cup RefsOf(spec.items.smokes) \cup Touched
      BY <1>1
    <3> QED
      BY <1>5, <3>1, <3>2, UnknownLocal
  <2> QED
    BY <2>1 DEF GapErrors
<1> QED
  BY <1>3, <1>4, <1>5 DEF GapErrors

\* Where no id is repeated, the id rules look at each entry by itself.
BadIds(X, kinds, prefix) ==
  {<<"id_format", x.id>> : x \in {x \in X : x.id[2] \notin kinds \/ x.id[1] # prefix}}

LEMMA IdErrorsAre ==
  ASSUME NEW S, NEW q \in Seq(S), NEW kinds, NEW prefix
  PROVE  /\ DistinctIds(q) => IdErrors(q, kinds, prefix) = BadIds(Range(q), kinds, prefix)
         /\ BadIds(Range(q), kinds, prefix) \subseteq IdErrors(q, kinds, prefix)
<1>1. DOMAIN q = 1..Len(q) /\ Len(q) \in Nat
  OBVIOUS
<1>2. ASSUME DistinctIds(q) PROVE Repeated(q) = {}
  <2> SUFFICES ASSUME NEW j \in DOMAIN q, NEW i \in 1..(j - 1), q[i].id = q[j].id PROVE FALSE
    BY DEF Repeated
  <2>1. i \in DOMAIN q /\ i # j
    BY <1>1
  <2> QED
    BY <1>2, <2>1 DEF DistinctIds
<1>3. IdErrors(q, kinds, prefix) = BadIds(Range(q), kinds, prefix)
                                   \cup {<<"duplicate", d>> : d \in Repeated(q)}
  BY DEF IdErrors, BadIds
<1> QED
  BY <1>2, <1>3

LEMMA BadIdsLocal ==
  ASSUME NEW X, NEW Y, \A x \in X : x \in Y \/ x.id \in Touched, NEW kinds, NEW prefix,
         NEW e \in BadIds(X, kinds, prefix)
  PROVE  e \in BadIds(Y, kinds, prefix) \/ Local(e)
<1>1. PICK x \in X : e = <<"id_format", x.id>> /\ (x.id[2] \notin kinds \/ x.id[1] # prefix)
  BY DEF BadIds
<1> QED
  BY <1>1 DEF BadIds, Local

LEMMA ItemsLocal ==
  ASSUME Shape(spec), Shape(spec'), Named(spec'), ItemsGrow,
         \A a \in Artifacts : spec'.heads[a] = spec.heads[a], NEW e \in ItemErrors(spec')
  PROVE  e \in ItemErrors(spec) \/ Local(e)
<1>1. /\ spec'.heads.requirements = spec.heads.requirements
      /\ spec'.heads.test_spec = spec.heads.test_spec
  BY DEF Artifacts
<1>2. ASSUME NEW k \in Collections, NEW prefix,
             e \in IdErrors(spec'.items[k], IdPattern[k], prefix)
      PROVE  e \in IdErrors(spec.items[k], IdPattern[k], prefix) \/ Local(e)
  <2>1. /\ spec'.items[k] \in Seq(ItemOf(k)) /\ DistinctIds(spec'.items[k])
        /\ spec.items[k] \in Seq(ItemOf(k))
    BY DEF Shape, Named
  <2>2. e \in BadIds(Range(spec'.items[k]), IdPattern[k], prefix)
    BY <1>2, <2>1, IdErrorsAre
  <2>3. \A x \in Range(spec'.items[k]) : x \in Range(spec.items[k]) \/ x.id \in Touched
    BY DEF ItemsGrow
  <2>4. e \in BadIds(Range(spec.items[k]), IdPattern[k], prefix) \/ Local(e)
    BY <2>2, <2>3, BadIdsLocal
  <2> QED
    BY <2>1, <2>4, IdErrorsAre
<1>3. CASE e \in {<<"json_schema", p.id>> : p \in {p \in Range(spec'.items.props) : p.refs = {}}}
  <2>1. PICK p \in Range(spec'.items.props) : e = <<"json_schema", p.id>> /\ p.refs = {}
    BY <1>3
  <2>2. p \in Range(spec.items.props) \/ p.id \in Touched
    BY KindTypes DEF ItemsGrow
  <2> QED
    BY <2>1, <2>2 DEF ItemErrors, Local
<1>4. CASE e \in {<<"json_schema", t.id>> : t \in
                   {t \in UNION {Range(spec'.items[k]) : k \in TestCollections} : t.refs = {}}}
  <2>1. PICK k \in TestCollections : \E t \in Range(spec'.items[k]) :
                e = <<"json_schema", t.id>> /\ t.refs = {}
    BY <1>4
  <2>2. PICK t \in Range(spec'.items[k]) : e = <<"json_schema", t.id>> /\ t.refs = {}
    BY <2>1
  <2>3. t \in Range(spec.items[k]) \/ t.id \in Touched
    BY KindTypes DEF ItemsGrow
  <2> QED
    BY <2>2, <2>3 DEF ItemErrors, Local
<1>5. CASE e \in EntryIdErrors(spec')
  <2>1. PICK k \in Collections \ TestCollections :
               e \in IdErrors(spec'.items[k], IdPattern[k], spec.heads.requirements[1])
    BY <1>1, <1>5 DEF EntryIdErrors
  <2>2. e \in IdErrors(spec.items[k], IdPattern[k], spec.heads.requirements[1]) \/ Local(e)
    BY <1>2, <2>1
  <2> QED
    BY <2>2 DEF ItemErrors, EntryIdErrors
<1>6. CASE e \in TestIdErrors(spec')
  <2>1. PICK k \in TestCollections :
               e \in IdErrors(spec'.items[k], IdPattern[k], spec.heads.test_spec[1])
    BY <1>1, <1>6 DEF TestIdErrors
  <2>2. e \in IdErrors(spec.items[k], IdPattern[k], spec.heads.test_spec[1]) \/ Local(e)
    BY <1>2, <2>1, KindTypes
  <2> QED
    BY <2>2 DEF ItemErrors, TestIdErrors
<1> QED
  BY <1>3, <1>4, <1>5, <1>6 DEF ItemErrors

\* A requirement keeps its criteria, but for what is touched.
ReqsGrow ==
  /\ \A c \in Criteria(spec') : c \in Criteria(spec) \/ c.id \in Touched
  /\ \A r \in Range(spec'.reqs) :
       \/ r.id \in Touched
       \/ \E old \in Range(spec.reqs) : /\ old.id = r.id
                                        /\ r.acs = <<>> => old.acs = <<>>
                                        /\ r.ecs = <<>> => old.ecs = <<>>

LEMMA CritSeqsAre ==
  ASSUME NEW s, NEW c
  PROVE  c \in Criteria(s) <=> \E r \in Range(s.reqs) : \E q \in CritSeqs(r) : c \in Range(q)
<1>1. ASSUME c \in Criteria(s) PROVE \E r \in Range(s.reqs) : \E q \in CritSeqs(r) : c \in Range(q)
  <2>1. PICK q \in UNION {CritSeqs(r) : r \in Range(s.reqs)} : c \in Range(q)
    BY <1>1 DEF Criteria
  <2>2. PICK r \in Range(s.reqs) : q \in CritSeqs(r)
    BY <2>1
  <2> QED
    BY <2>1, <2>2
<1>2. ASSUME NEW r \in Range(s.reqs), NEW q \in CritSeqs(r), c \in Range(q) PROVE c \in Criteria(s)
  <2>1. q \in UNION {CritSeqs(x) : x \in Range(s.reqs)}
    OBVIOUS
  <2> QED
    BY <1>2, <2>1 DEF Criteria
<1> QED
  BY <1>1, <1>2

LEMMA CritErrorsAre ==
  ASSUME NEW s, NEW e
  PROVE  e \in CriterionIdErrors(s) <=>
           \E r \in Range(s.reqs) : \E q \in CritSeqs(r) :
             e \in IdErrors(q, {"AC", "EC"}, s.heads.requirements[1])
<1>1. ASSUME e \in CriterionIdErrors(s)
      PROVE  \E r \in Range(s.reqs) : \E q \in CritSeqs(r) :
               e \in IdErrors(q, {"AC", "EC"}, s.heads.requirements[1])
  <2>1. PICK q \in UNION {CritSeqs(r) : r \in Range(s.reqs)} :
               e \in IdErrors(q, {"AC", "EC"}, s.heads.requirements[1])
    BY <1>1 DEF CriterionIdErrors
  <2>2. PICK r \in Range(s.reqs) : q \in CritSeqs(r)
    BY <2>1
  <2> QED
    BY <2>1, <2>2
<1>2. ASSUME NEW r \in Range(s.reqs), NEW q \in CritSeqs(r),
             e \in IdErrors(q, {"AC", "EC"}, s.heads.requirements[1])
      PROVE  e \in CriterionIdErrors(s)
  <2>1. q \in UNION {CritSeqs(x) : x \in Range(s.reqs)}
    OBVIOUS
  <2> QED
    BY <1>2, <2>1 DEF CriterionIdErrors
<1> QED
  BY <1>1, <1>2

LEMMA CritSeqTypes ==
  ASSUME NEW s, Shape(s), NEW r \in Range(s.reqs), NEW q \in CritSeqs(r)
  PROVE  q \in Seq(Criterion) /\ (Named(s) => DistinctIds(q))
<1>1. PICK i \in DOMAIN s.reqs : r = s.reqs[i]
  BY DEF Range
<1>2. r \in Requirement
  BY <1>1 DEF Shape
<1>3. q \in Seq(Criterion)
  BY <1>2 DEF Requirement, CritSeqs
<1>4. Named(s) => DistinctIds(q)
  BY <1>1 DEF Named, CritSeqs
<1> QED
  BY <1>3, <1>4

LEMMA ReqsLocal ==
  ASSUME Shape(spec), Shape(spec'), Named(spec'), ReqsGrow,
         \A a \in Artifacts : spec'.heads[a] = spec.heads[a], NEW e \in ReqErrors(spec')
  PROVE  e \in ReqErrors(spec) \/ Local(e)
<1>1. spec'.heads.requirements = spec.heads.requirements
  BY DEF Artifacts
<1>2. CASE e \in {<<"json_schema", r.id>> : r \in {r \in Range(spec'.reqs) : r.acs = <<>>}}
  <2>1. PICK r \in Range(spec'.reqs) : e = <<"json_schema", r.id>> /\ r.acs = <<>>
    BY <1>2
  <2>2. r.id \in Touched \/ \E old \in Range(spec.reqs) : old.id = r.id /\ old.acs = <<>>
    BY <2>1 DEF ReqsGrow
  <2> QED
    BY <2>1, <2>2 DEF ReqErrors, Local
<1>3. CASE e \in EarsErrors(spec')
  <2>1. PICK c \in Criteria(spec') :
          /\ e = <<"ears_constraint", c.id>>
          /\ c.pattern \notin DOMAIN EarsRequired \/ c.fields # EarsRequired[c.pattern]
    BY <1>3 DEF EarsErrors
  <2>2. c \in Criteria(spec) \/ c.id \in Touched
    BY DEF ReqsGrow
  <2>3. c \in Criteria(spec) => e \in EarsErrors(spec)
    BY <2>1 DEF EarsErrors
  <2> QED
    BY <2>1, <2>2, <2>3 DEF ReqErrors, Local
<1>4. CASE e \in RequirementIdErrors(spec')
  <2> DEFINE kinds  == {"REQ", "AC", "EC"}
             prefix == spec.heads.requirements[1]
  <2>1. /\ spec'.reqs \in Seq(Requirement) /\ DistinctIds(spec'.reqs)
        /\ spec.reqs \in Seq(Requirement)
    BY DEF Shape, Named
  <2>2. e \in IdErrors(spec'.reqs, kinds, prefix)
    BY <1>1, <1>4 DEF RequirementIdErrors
  <2>3. e \in BadIds(Range(spec'.reqs), kinds, prefix)
    BY <2>1, <2>2, IdErrorsAre
  <2>4. PICK r \in Range(spec'.reqs) : /\ e = <<"id_format", r.id>>
                                       /\ r.id[2] \notin kinds \/ r.id[1] # prefix
    BY <2>3 DEF BadIds
  <2>5. CASE r.id \in Touched
    BY <2>4, <2>5 DEF Local
  <2>6. CASE \E old \in Range(spec.reqs) : old.id = r.id
    <3>1. e \in BadIds(Range(spec.reqs), kinds, prefix)
      BY <2>4, <2>6 DEF BadIds
    <3>2. e \in IdErrors(spec.reqs, kinds, prefix)
      BY <2>1, <3>1, IdErrorsAre
    <3> QED
      BY <3>2 DEF ReqErrors, RequirementIdErrors
  <2> QED
    BY <2>5, <2>6 DEF ReqsGrow
<1>5. CASE e \in CriterionIdErrors(spec')
  <2> DEFINE kinds  == {"AC", "EC"}
             prefix == spec.heads.requirements[1]
  <2>1. PICK r \in Range(spec'.reqs) : \E q \in CritSeqs(r) : e \in IdErrors(q, kinds, prefix)
    BY <1>1, <1>5, CritErrorsAre
  <2>2. PICK q \in CritSeqs(r) : e \in IdErrors(q, kinds, prefix)
    BY <2>1
  <2>3. q \in Seq(Criterion) /\ DistinctIds(q)
    BY CritSeqTypes
  <2>4. e \in BadIds(Range(q), kinds, prefix)
    BY <2>2, <2>3, IdErrorsAre
  <2>5. PICK c \in Range(q) : /\ e = <<"id_format", c.id>>
                              /\ c.id[2] \notin kinds \/ c.id[1] # prefix
    BY <2>4 DEF BadIds
  <2>6. c \in Criteria(spec) \/ c.id \in Touched
    BY CritSeqsAre DEF ReqsGrow
  <2>7. CASE c.id \in Touched
    BY <2>5, <2>7 DEF Local
  <2>8. CASE c \in Criteria(spec)
    <3>1. PICK old \in Range(spec.reqs) : \E p \in CritSeqs(old) : c \in Range(p)
      BY <2>8, CritSeqsAre
    <3>2. PICK p \in CritSeqs(old) : c \in Range(p)
      BY <3>1
    <3>3. e \in BadIds(Range(p), kinds, prefix)
      BY <2>5, <3>2 DEF BadIds
    <3>4. p \in Seq(Criterion)
      BY CritSeqTypes
    <3>5. e \in IdErrors(p, kinds, prefix)
      BY <3>3, <3>4, IdErrorsAre
    <3>6. e \in CriterionIdErrors(spec)
      BY <3>5, CritErrorsAre
    <3> QED
      BY <3>6 DEF ReqErrors
  <2> QED
    BY <2>6, <2>7, <2>8
<1>6. CASE e \in {<<"no_criteria", r.id>> :
                    r \in {r \in Range(spec'.reqs) : r.acs = <<>> /\ r.ecs = <<>>}}
  <2>1. PICK r \in Range(spec'.reqs) : e = <<"no_criteria", r.id>> /\ r.acs = <<>> /\ r.ecs = <<>>
    BY <1>6
  <2>2. \/ r.id \in Touched
        \/ \E old \in Range(spec.reqs) : old.id = r.id /\ old.acs = <<>> /\ old.ecs = <<>>
    BY <2>1 DEF ReqsGrow
  <2> QED
    BY <2>1, <2>2 DEF ReqErrors, Local
<1>7. CASE e \in MissingContracts(spec')
  <2>1. PICK c \in Criteria(spec') :
          e = <<"cross_file_10", c.id>> /\ c.pattern = "unwanted" /\ ~c.contract
    BY <1>7 DEF MissingContracts
  <2>2. c \in Criteria(spec) \/ c.id \in Touched
    BY DEF ReqsGrow
  <2>3. c \in Criteria(spec) => e \in MissingContracts(spec)
    BY <2>1 DEF MissingContracts
  <2> QED
    BY <2>1, <2>2, <2>3 DEF ReqErrors, Local
<1> QED
  BY <1>2, <1>3, <1>4, <1>5, <1>6, <1>7 DEF ReqErrors

\* The rules on the plan and on traceability find no more than they did.
PlanGrows ==
  /\ SubtaskIdErrors(spec') \subseteq SubtaskIdErrors(spec)
  /\ DuplicateTrace(spec') \subseteq DuplicateTrace(spec)
  /\ spec'.groups = <<>> => spec.groups = <<>>

LEMMA AllLocal ==
  ASSUME Shape(spec), Shape(spec'), Named(spec'),
         \A a \in Artifacts : Has(a) /\ spec'.heads[a] = spec.heads[a],
         ReqsGrow, ItemsGrow, RefsGrow, PlanGrows, NEW e \in Errors(spec')
  PROVE  e \in Errors(spec) \/ Local(e)
<1>1. \A a \in Artifacts : spec.heads[a] # Nil /\ spec'.heads[a] # Nil
  BY DEF Has
<1>2. /\ Errors(spec) = ReqErrors(spec) \cup RefErrors(spec) \cup GapErrors(spec)
                        \cup ItemErrors(spec) \cup PlanErrors(spec) \cup AnywhereErrors(spec)
                        \cup HeadErrors(spec) \cup FolderErrors(spec)
      /\ Errors(spec') = ReqErrors(spec') \cup RefErrors(spec') \cup GapErrors(spec')
                         \cup ItemErrors(spec') \cup PlanErrors(spec') \cup AnywhereErrors(spec')
                         \cup HeadErrors(spec') \cup FolderErrors(spec')
  BY <1>1, ErrorsAre
<1>3. CASE e \in PlanErrors(spec')
  <2>1. PlanErrors(spec') \subseteq PlanErrors(spec)
    BY DEF PlanErrors, PlanGrows, ErrIf
  <2> QED
    BY <1>2, <1>3, <2>1
<1>4. CASE e \in AnywhereErrors(spec')
  <2>1. \A x \in UndefinedTerms(spec') : x[1] = "cross_file_6"
    BY DEF UndefinedTerms
  <2>2. \A x \in TaskGroupStructure(spec') : x[1] = "task_group_structure"
    BY DEF TaskGroupStructure, ErrIf
  <2>3. \A x \in WiringVerification(spec') : x[1] = "wiring_verification"
    BY DEF WiringVerification, ErrIf
  <2> QED
    BY <1>4, <2>1, <2>2, <2>3 DEF AnywhereErrors, Local
<1>5. CASE e \in HeadErrors(spec')
  <2>1. spec'.sid = spec.sid /\ spec'.name = spec.name
    BY DEF Shape
  <2>2. PICK a \in Artifacts : \/ e \in ErrIf(spec'.heads[a][1] # spec'.sid, <<"cross_file_7", a>>)
                              \/ e \in ErrIf(spec'.heads[a][2] # spec'.name, <<"cross_file_7", a>>)
    BY <1>5 DEF HeadErrors
  <2>3. \/ e \in ErrIf(spec.heads[a][1] # spec.sid, <<"cross_file_7", a>>)
        \/ e \in ErrIf(spec.heads[a][2] # spec.name, <<"cross_file_7", a>>)
    BY <2>1, <2>2
  <2>4. e \in HeadErrors(spec)
    BY <2>3 DEF HeadErrors
  <2> QED
    BY <1>2, <2>4
<1>6. FolderErrors(spec') = {}
  <2>1. spec'.folder \in {Nil, Identity} /\ spec'.sid = SpecId /\ spec'.name = Name
    BY DEF Shape
  <2> QED
    BY <2>1 DEF FolderErrors, Identity, ErrIf
<1>7. CASE e \in ReqErrors(spec')
  BY <1>2, <1>7, ReqsLocal
<1>8. CASE e \in RefErrors(spec')
  BY <1>2, <1>8, RefsLocal
<1>9. CASE e \in GapErrors(spec')
  BY <1>2, <1>9, GapsLocal
<1>10. CASE e \in ItemErrors(spec')
  BY <1>2, <1>10, ItemsLocal
<1> QED
  BY <1>2, <1>3, <1>4, <1>5, <1>6, <1>7, <1>8, <1>9, <1>10

-----------------------------------------------------------------------------
(***************************************************************************)
(* Edit by edit.  What a field's errors look at is as it was when the      *)
(* field is.                                                               *)
(***************************************************************************)
LEMMA KeptReqs == ASSUME spec'.reqs = spec.reqs PROVE ReqsGrow
<1>1. Criteria(spec') = Criteria(spec)
  BY DEF Criteria
<1> QED
  BY <1>1 DEF ReqsGrow

LEMMA KeptItems == ASSUME spec'.items = spec.items PROVE ItemsGrow
BY DEF ItemsGrow

LEMMA KeptTrace ==
  ASSUME spec'.trace = spec.trace
  PROVE  /\ TraceReqs(spec') \subseteq TraceReqs(spec) \cup reqIDs(spec)
         /\ TraceTests(spec') \subseteq TraceTests(spec) \cup knownTestIDs(spec)
         /\ DuplicateTrace(spec') \subseteq DuplicateTrace(spec)
BY DEF TraceReqs, TraceTests, DuplicateTrace

LEMMA KeptGroups ==
  ASSUME spec'.groups = spec.groups
  PROVE  /\ PlanReqs(spec') \subseteq PlanReqs(spec) \cup reqIDs(spec)
         /\ PlanTests(spec') \subseteq PlanTests(spec) \cup knownTestIDs(spec)
         /\ SubtaskIdErrors(spec') \subseteq SubtaskIdErrors(spec)
         /\ spec'.groups = <<>> => spec.groups = <<>>
<1>1. Subtasks(spec') = Subtasks(spec)
  BY DEF Subtasks
<1> QED
  BY <1>1 DEF PlanReqs, PlanTests, SubtaskIdErrors

Grows == ReqsGrow /\ ItemsGrow /\ RefsGrow /\ PlanGrows

LEMMA ReqsOnly == ASSUME OnlyReqs, ReqsGrow PROVE Grows
BY KeptItems, KeptTrace, KeptGroups DEF OnlyReqs, Grows, RefsGrow, PlanGrows

LEMMA LocalAddRequirement == ASSUME CInv, AddRequirement PROVE Grows
<1>1. PICK r \in Requirement :
         /\ spec'.reqs = Append(spec.reqs, r) /\ r.id \notin Ids(spec.reqs)
         /\ r.acs = <<>> /\ r.ecs = <<>>
  BY AddRequirementDoes DEF CInv
<1>2. /\ OnlyReqs /\ Shape(spec) /\ Shape(spec')
      /\ spec.reqs \in Seq(Requirement)
  BY AddRequirementDoes DEF CInv, EInv, Shape
<1>3. /\ Range(spec'.reqs) = Range(spec.reqs) \cup {r}
      /\ Ids(spec'.reqs) = Ids(spec.reqs) \cup {r.id}
  BY <1>1, <1>2, IdsAppend
<1>4. r.id \in Touched
  BY <1>1, <1>2, <1>3, Moved
<1>5. ASSUME NEW c \in Criteria(spec') PROVE c \in Criteria(spec)
  <2>1. PICK x \in Range(spec'.reqs) : \E q \in CritSeqs(x) : c \in Range(q)
    BY CritSeqsAre
  <2>2. \A q \in CritSeqs(r) : Range(q) = {}
    BY <1>1, Empty DEF CritSeqs
  <2>3. x \in Range(spec.reqs)
    BY <1>3, <2>1, <2>2
  <2> QED
    BY <2>1, <2>3, CritSeqsAre
<1>6. ReqsGrow
  BY <1>3, <1>4, <1>5 DEF ReqsGrow
<1> QED
  BY <1>2, <1>6, ReqsOnly

LEMMA LocalRemoveRequirement == ASSUME CInv, RemoveRequirement PROVE Grows
<1>1. PICK i \in DOMAIN spec.reqs :
        spec'.reqs = SubSeq(spec.reqs, 1, i - 1) \o SubSeq(spec.reqs, i + 1, Len(spec.reqs))
  BY RemoveRequirementDoes DEF CInv
<1>2. OnlyReqs /\ Named(spec) /\ spec.reqs \in Seq(Requirement)
  BY RemoveRequirementDoes DEF CInv, EInv, Shape
<1>3. Range(spec'.reqs) \subseteq Range(spec.reqs)
  BY <1>1, <1>2, DistinctRemove DEF Named
<1>4. \A c \in Criteria(spec') : c \in Criteria(spec)
  BY <1>3, CritSeqsAre
<1>5. ReqsGrow
  BY <1>3, <1>4 DEF ReqsGrow
<1> QED
  BY <1>2, <1>5, ReqsOnly

LEMMA LocalCriterion ==
  ASSUME CInv, habits = {}, AddCriterion \/ AddEdgeCase PROVE Grows
<1>1. PICK i \in DOMAIN spec.reqs, r \in Requirement, c \in Criterion :
         /\ spec'.reqs = [spec.reqs EXCEPT ![i] = r]
         /\ r.id = spec.reqs[i].id
         /\ \/ /\ r.acs = Append(spec.reqs[i].acs, c) /\ r.ecs = spec.reqs[i].ecs
               /\ c.id \notin Ids(spec.reqs[i].acs) /\ c.id = NextCriterionID(spec.reqs[i])
            \/ /\ r.ecs = Append(spec.reqs[i].ecs, c) /\ r.acs = spec.reqs[i].acs
               /\ c.id \notin Ids(spec.reqs[i].ecs) /\ c.id = NextEdgeCaseID(spec.reqs[i])
  <2>1. EInv
    BY DEF CInv
  <2> QED
    BY <2>1, CriterionDoes, Zenon
<1>2. /\ OnlyReqs /\ Careful(spec) /\ Named(spec) /\ Shape(spec) /\ Shape(spec')
      /\ spec.reqs \in Seq(Requirement)
  BY CriterionDoes DEF CInv, EInv, Shape
<1> DEFINE old == spec.reqs[i]
<1>3. /\ DOMAIN spec'.reqs = DOMAIN spec.reqs /\ spec'.reqs[i] = r
      /\ \A j \in DOMAIN spec.reqs \ {i} : spec'.reqs[j] = spec.reqs[j]
  BY <1>1, <1>2, ReplaceAt
<1>4. /\ old \in Requirement /\ old \in Range(spec.reqs)
      /\ old.acs \in Seq(Criterion) /\ old.ecs \in Seq(Criterion)
  <2>1. old \in Requirement /\ old \in Range(spec.reqs)
    BY <1>2 DEF Range
  <2> QED
    BY <2>1 DEF Requirement
<1>5. /\ Range(r.acs) \subseteq Range(old.acs) \cup {c} /\ Range(r.ecs) \subseteq Range(old.ecs) \cup {c}
      /\ c \in Range(r.acs) \/ c \in Range(r.ecs)
      /\ r.acs = <<>> => old.acs = <<>>
      /\ r.ecs = <<>> => old.ecs = <<>>
  <2>1. /\ Range(Append(old.acs, c)) = Range(old.acs) \cup {c} /\ Append(old.acs, c) # <<>>
        /\ Range(Append(old.ecs, c)) = Range(old.ecs) \cup {c} /\ Append(old.ecs, c) # <<>>
    <3>1. /\ Range(Append(old.acs, c)) = Range(old.acs) \cup {c}
          /\ Range(Append(old.ecs, c)) = Range(old.ecs) \cup {c}
      BY <1>4, IdsAppend
    <3>2. Range(<<>>) = {}
      BY Empty
    <3> QED
      BY <3>1, <3>2
  <2> HIDE DEF old
  <2> QED
    BY <1>1, <2>1 DEF old
<1>6. c.id[1] = old.id[1] /\ c.id[3] = old.id[3]
  BY <1>1 DEF NextCriterionID, NextEdgeCaseID
<1>7. c.id \notin criterionIDs(spec)
  <2> SUFFICES ASSUME c.id \in criterionIDs(spec) PROVE FALSE
    OBVIOUS
  <2>1. PICK d \in Criteria(spec) : d.id = c.id
    BY DEF criterionIDs
  <2>2. PICK x \in Range(spec.reqs) : \E q \in CritSeqs(x) : d \in Range(q)
    BY CritSeqsAre
  <2>3. d \in Range(x.acs) \/ d \in Range(x.ecs)
    BY <2>2 DEF CritSeqs
  <2>4. CriteriaOf(x) /\ x \in Requirement
    BY <1>2 DEF Careful, Range
  <2>5. x.id[1] = old.id[1] /\ x.id[3] = old.id[3]
    BY <1>6, <2>1, <2>3, <2>4 DEF CriteriaOf
  <2>6. x.id = old.id
    <3>1. x.id \in ReqId /\ old.id \in ReqId
      BY <1>4, <2>4 DEF Requirement
    <3> QED
      BY <2>5, <3>1 DEF ReqId
  <2>7. x = old
    BY <1>2, <2>6 DEF Named, DistinctIds, Range
  <2>8. CASE c.id \notin Ids(old.acs) /\ c.id = NextCriterionID(old)
    <3>1. d.id[2] = "AC"
      BY <2>1, <2>8 DEF NextCriterionID
    <3>2. d \in Range(x.acs)
      BY <2>3, <2>4, <3>1 DEF CriteriaOf
    <3> QED
      BY <2>1, <2>7, <2>8, <3>2 DEF Ids
  <2>9. CASE c.id \notin Ids(old.ecs) /\ c.id = NextEdgeCaseID(old)
    <3>1. d.id[2] = "EC"
      BY <2>1, <2>9 DEF NextEdgeCaseID
    <3>2. d \in Range(x.ecs)
      BY <2>3, <2>4, <3>1 DEF CriteriaOf
    <3> QED
      BY <2>1, <2>7, <2>9, <3>2 DEF Ids
  <2> QED
    BY <1>1, <2>8, <2>9
<1>8. r \in Range(spec'.reqs) /\ \A x \in Range(spec'.reqs) : x \in Range(spec.reqs) \/ x = r
  BY <1>3 DEF Range
<1>9. c.id \in Touched
  <2>1. c \in Criteria(spec')
    BY <1>5, <1>8, CritSeqsAre DEF CritSeqs
  <2>2. c.id \in criterionIDs(spec')
    BY <2>1 DEF criterionIDs
  <2> QED
    BY <1>2, <1>7, <2>2, Moved
<1>10. ASSUME NEW d \in Criteria(spec') PROVE d \in Criteria(spec) \/ d.id \in Touched
  <2>1. PICK x \in Range(spec'.reqs) : \E q \in CritSeqs(x) : d \in Range(q)
    BY CritSeqsAre
  <2>2. CASE x \in Range(spec.reqs)
    BY <2>1, <2>2, CritSeqsAre
  <2>3. CASE x = r
    <3>1. d \in Range(old.acs) \/ d \in Range(old.ecs) \/ d = c
      BY <1>5, <2>1, <2>3 DEF CritSeqs
    <3>2. d \in Range(old.acs) \/ d \in Range(old.ecs) => d \in Criteria(spec)
      BY <1>4, CritSeqsAre DEF CritSeqs
    <3> QED
      BY <1>9, <3>1, <3>2
  <2> QED
    BY <1>8, <2>2, <2>3
<1>11. ReqsGrow
  <2>1. ASSUME NEW x \in Range(spec'.reqs)
        PROVE  \E o \in Range(spec.reqs) : /\ o.id = x.id
                                           /\ x.acs = <<>> => o.acs = <<>>
                                           /\ x.ecs = <<>> => o.ecs = <<>>
    BY <1>1, <1>4, <1>5, <1>8
  <2> QED
    BY <1>10, <2>1 DEF ReqsGrow
<1> QED
  BY <1>2, <1>11, ReqsOnly

LEMMA LocalItem == ASSUME CInv, NEW k \in Collections, AddItem(k) PROVE Grows
<1>1. PICK x \in ItemOf(k) :
        spec'.items[k] = Append(spec.items[k], x) /\ x.id \notin Ids(spec.items[k])
  BY AddItemDoes DEF CInv
<1>2. /\ OnlyItems /\ Shape(spec) /\ Shape(spec') /\ spec.items[k] \in Seq(ItemOf(k))
      /\ \A l \in Collections \ {k} : spec'.items[l] = spec.items[l]
  BY AddItemDoes DEF CInv, EInv, Shape
<1>3. /\ Range(spec'.items[k]) = Range(spec.items[k]) \cup {x}
      /\ Ids(spec'.items[k]) = Ids(spec.items[k]) \cup {x.id}
  BY <1>1, <1>2, IdsAppend
<1>4. x.id \in Touched
  BY <1>1, <1>2, <1>3, Moved
<1>5. ItemsGrow
  BY <1>2, <1>3, <1>4 DEF ItemsGrow
<1>6. spec'.reqs = spec.reqs /\ spec'.trace = spec.trace /\ spec'.groups = spec.groups
  BY <1>2 DEF OnlyItems
<1> QED
  BY <1>5, <1>6, KeptReqs, KeptTrace, KeptGroups DEF Grows, RefsGrow, PlanGrows

\* A plan that names no more, and calls no subtask after another group.
LEMMA GroupsOnly ==
  ASSUME OnlyGroups, spec'.groups = <<>> => spec.groups = <<>>,
         \A t \in Subtasks(spec') : /\ t.reqRefs \subseteq PlanReqs(spec) \cup reqIDs(spec)
                                    /\ t.testRefs \subseteq PlanTests(spec) \cup knownTestIDs(spec),
         \A g \in Range(spec'.groups) : \A t \in Range(g.subs) :
           t.id[1] # g.id => <<"id_format", t.id>> \in SubtaskIdErrors(spec)
  PROVE  Grows
<1>1. PlanReqs(spec') \subseteq PlanReqs(spec) \cup reqIDs(spec)
  <2> SUFFICES ASSUME NEW id \in PlanReqs(spec') PROVE id \in PlanReqs(spec) \cup reqIDs(spec)
    OBVIOUS
  <2>1. PICK t \in Subtasks(spec') : id \in t.reqRefs
    BY DEF PlanReqs
  <2> QED
    BY <2>1
<1>2. PlanTests(spec') \subseteq PlanTests(spec) \cup knownTestIDs(spec)
  <2> SUFFICES ASSUME NEW id \in PlanTests(spec') PROVE id \in PlanTests(spec) \cup knownTestIDs(spec)
    OBVIOUS
  <2>1. PICK t \in Subtasks(spec') : id \in t.testRefs
    BY DEF PlanTests
  <2> QED
    BY <2>1
<1>3. SubtaskIdErrors(spec') \subseteq SubtaskIdErrors(spec)
  <2> SUFFICES ASSUME NEW e \in SubtaskIdErrors(spec') PROVE e \in SubtaskIdErrors(spec)
    OBVIOUS
  <2>1. PICK g \in Range(spec'.groups) :
          e \in {<<"id_format", t.id>> : t \in {t \in Range(g.subs) : t.id[1] # g.id}}
    BY DEF SubtaskIdErrors
  <2>2. PICK t \in Range(g.subs) : e = <<"id_format", t.id>> /\ t.id[1] # g.id
    BY <2>1
  <2> QED
    BY <2>2
<1> QED
  BY <1>1, <1>2, <1>3, KeptReqs, KeptItems, KeptTrace DEF OnlyGroups, Grows, RefsGrow, PlanGrows

\* What a subtask that was there brings with it.
LEMMA OldSubtask ==
  ASSUME NEW g \in Range(spec.groups), NEW t \in Range(g.subs)
  PROVE  /\ t.reqRefs \subseteq PlanReqs(spec) /\ t.testRefs \subseteq PlanTests(spec)
         /\ t.id[1] # g.id => <<"id_format", t.id>> \in SubtaskIdErrors(spec)
<1>1. t \in Subtasks(spec)
  BY DEF Subtasks
<1>2. t.id[1] # g.id => <<"id_format", t.id>> \in SubtaskIdErrors(spec)
  BY DEF SubtaskIdErrors
<1> QED
  BY <1>1, <1>2 DEF PlanReqs, PlanTests

LEMMA LocalGroup == ASSUME CInv, AddTaskGroup PROVE Grows
<1>1. PICK g \in TaskGroup : spec'.groups = Append(spec.groups, g) /\ g.subs = <<>>
  BY AddGroupDoes DEF CInv
<1>2. OnlyGroups /\ spec.groups \in Seq(TaskGroup)
  BY AddGroupDoes DEF CInv, EInv, Shape
<1>3. Range(spec'.groups) = Range(spec.groups) \cup {g} /\ Range(g.subs) = {}
  BY <1>1, <1>2, RangeOfAppend, Empty
<1>4. spec'.groups # <<>>
  BY <1>3, Empty
<1>5. \A h \in Range(spec'.groups) : \A t \in Range(h.subs) : h \in Range(spec.groups)
  BY <1>3
<1>6. \A t \in Subtasks(spec') : /\ t.reqRefs \subseteq PlanReqs(spec) \cup reqIDs(spec)
                                 /\ t.testRefs \subseteq PlanTests(spec) \cup knownTestIDs(spec)
  <2> SUFFICES ASSUME NEW t \in Subtasks(spec')
               PROVE  t.reqRefs \subseteq PlanReqs(spec) /\ t.testRefs \subseteq PlanTests(spec)
    OBVIOUS
  <2>1. PICK h \in Range(spec'.groups) : t \in Range(h.subs)
    BY DEF Subtasks
  <2> QED
    BY <1>5, <2>1, OldSubtask
<1>7. \A h \in Range(spec'.groups) : \A t \in Range(h.subs) :
        t.id[1] # h.id => <<"id_format", t.id>> \in SubtaskIdErrors(spec)
  BY <1>5, OldSubtask
<1> QED
  BY <1>2, <1>4, <1>6, <1>7, GroupsOnly

LEMMA LocalSubtask == ASSUME CInv, habits = {}, AddSubtask PROVE Grows
<1>1. PICK i \in DOMAIN spec.groups, g \in TaskGroup, t \in Subtask :
              /\ spec'.groups = [spec.groups EXCEPT ![i] = g]
              /\ g.id = spec.groups[i].id
              /\ g.subs = Append(spec.groups[i].subs, t)
              /\ t.reqRefs \in RefChoices(Ids(spec.reqs), LooseReq)
              /\ t.testRefs \in RefChoices(knownTestIDs(spec), LooseTest)
              /\ t.id[1] = g.id
  <2>1. EInv
    BY DEF CInv
  <2> QED
    BY <2>1, AddSubtaskDoes, Zenon
<1>2. OnlyGroups /\ spec.groups \in Seq(TaskGroup)
  BY AddSubtaskDoes DEF CInv, EInv, Shape
<1>3. /\ DOMAIN spec'.groups = DOMAIN spec.groups /\ spec'.groups[i] = g
      /\ \A j \in DOMAIN spec.groups \ {i} : spec'.groups[j] = spec.groups[j]
  BY <1>1, <1>2, ReplaceAt
<1>4. Range(g.subs) = Range(spec.groups[i].subs) \cup {t}
  <2>1. spec.groups[i] \in TaskGroup
    BY <1>2
  <2>2. spec.groups[i].subs \in Seq(Subtask)
    BY <2>1 DEF TaskGroup
  <2> QED
    BY <1>1, <2>2, RangeOfAppend
<1>5. t.reqRefs \subseteq reqIDs(spec) /\ t.testRefs \subseteq knownTestIDs(spec)
  BY <1>1, CarefulChoices DEF reqIDs
<1>6. ASSUME NEW h \in Range(spec'.groups), NEW u \in Range(h.subs)
      PROVE  \/ u = t /\ h = g
             \/ \E o \in Range(spec.groups) : u \in Range(o.subs) /\ o.id = h.id
  <2>1. PICK j \in DOMAIN spec.groups : h = spec'.groups[j]
    BY <1>3 DEF Range
  <2>2. spec.groups[j] \in Range(spec.groups)
    BY DEF Range
  <2>3. CASE j = i
    BY <1>1, <1>3, <1>4, <2>1, <2>2, <2>3
  <2>4. CASE j # i
    BY <1>3, <2>1, <2>2, <2>4
  <2> QED
    BY <2>3, <2>4
<1>7. ASSUME NEW u \in Subtasks(spec')
      PROVE  /\ u.reqRefs \subseteq PlanReqs(spec) \cup reqIDs(spec)
             /\ u.testRefs \subseteq PlanTests(spec) \cup knownTestIDs(spec)
  <2>1. PICK h \in Range(spec'.groups) : u \in Range(h.subs)
    BY DEF Subtasks
  <2>2. CASE u = t
    BY <1>5, <2>2
  <2>3. CASE \E o \in Range(spec.groups) : u \in Range(o.subs)
    BY <2>3, OldSubtask
  <2> QED
    BY <1>6, <2>1, <2>2, <2>3
<1>8. ASSUME NEW h \in Range(spec'.groups), NEW u \in Range(h.subs), u.id[1] # h.id
      PROVE  <<"id_format", u.id>> \in SubtaskIdErrors(spec)
  <2>1. PICK o \in Range(spec.groups) : u \in Range(o.subs) /\ o.id = h.id
    BY <1>1, <1>6, <1>8
  <2> QED
    BY <1>8, <2>1, OldSubtask
<1>9. spec'.groups # <<>>
  <2>1. spec'.groups[i] \in Range(spec'.groups)
    BY <1>3 DEF Range
  <2> QED
    BY <2>1, Empty
<1> QED
  BY <1>2, <1>7, <1>8, <1>9, GroupsOnly

LEMMA LocalStates ==
  ASSUME CInv, TransitionSome \/ CompleteSubtaskStates \/ ResetSubtaskStates PROVE Grows
<1>1. /\ OnlyGroups /\ DOMAIN spec'.groups = DOMAIN spec.groups
      /\ \A i \in DOMAIN spec.groups : Alike(spec.groups[i], spec'.groups[i])
      /\ Shape(spec) /\ Shape(spec')
  BY StatesDo DEF CInv, EInv
<1>2. ASSUME NEW h \in Range(spec'.groups), NEW u \in Range(h.subs)
      PROVE  \E o \in Range(spec.groups) : \E v \in Range(o.subs) :
               o.id = h.id /\ v.id = u.id /\ v.reqRefs = u.reqRefs /\ v.testRefs = u.testRefs
  <2>1. PICK i \in DOMAIN spec.groups : h = spec'.groups[i]
    BY <1>1 DEF Range
  <2>2. /\ spec.groups[i].subs \in Seq(Subtask) /\ h.subs \in Seq(Subtask)
        /\ Alike(spec.groups[i], h)
    <3>1. spec.groups[i] \in TaskGroup /\ spec'.groups[i] \in TaskGroup
      BY <1>1 DEF Shape
    <3> QED
      BY <1>1, <2>1, <3>1 DEF TaskGroup
  <2>3. DOMAIN h.subs = DOMAIN spec.groups[i].subs
    BY <2>2 DEF Alike
  <2>4. PICK j \in DOMAIN spec.groups[i].subs : u = h.subs[j]
    BY <2>3 DEF Range
  <2>5. spec.groups[i] \in Range(spec.groups) /\ spec.groups[i].subs[j] \in Range(spec.groups[i].subs)
    BY DEF Range
  <2> QED
    BY <2>2, <2>4, <2>5 DEF Alike
<1>3. ASSUME NEW u \in Subtasks(spec')
      PROVE  /\ u.reqRefs \subseteq PlanReqs(spec) \cup reqIDs(spec)
             /\ u.testRefs \subseteq PlanTests(spec) \cup knownTestIDs(spec)
  <2>1. PICK h \in Range(spec'.groups) : u \in Range(h.subs)
    BY DEF Subtasks
  <2>2. PICK o \in Range(spec.groups) : \E v \in Range(o.subs) :
               v.reqRefs = u.reqRefs /\ v.testRefs = u.testRefs
    BY <1>2, <2>1
  <2> QED
    BY <2>2, OldSubtask
<1>4. ASSUME NEW h \in Range(spec'.groups), NEW u \in Range(h.subs), u.id[1] # h.id
      PROVE  <<"id_format", u.id>> \in SubtaskIdErrors(spec)
  <2>1. PICK o \in Range(spec.groups) : \E v \in Range(o.subs) : o.id = h.id /\ v.id = u.id
    BY <1>2
  <2> QED
    BY <1>4, <2>1, OldSubtask
<1>5. spec'.groups = <<>> => spec.groups = <<>>
  <2>1. spec.groups \in Seq(TaskGroup) /\ spec'.groups \in Seq(TaskGroup)
    BY <1>1 DEF Shape
  <2> QED
    BY <1>1, <2>1
<1> QED
  BY <1>1, <1>3, <1>4, <1>5, GroupsOnly

LEMMA LocalTrace == ASSUME CInv, AddTraceabilityEntry PROVE Grows
<1>1. PICK e \in TraceEntry :
        /\ spec'.trace = Append(spec.trace, e)
        /\ e.req \in reqIDs(spec) /\ e.test \in knownTestIDs(spec)
        /\ \A x \in Range(spec.trace) : <<x.req, x.test>> # <<e.req, e.test>>
  BY TraceDoes DEF CInv
<1>2. OnlyTrace /\ spec.trace \in Seq(TraceEntry)
  BY TraceDoes DEF CInv, EInv, Shape
<1> DEFINE n == Len(spec.trace)
<1>3. /\ Range(spec'.trace) = Range(spec.trace) \cup {e}
      /\ Len(spec'.trace) = n + 1 /\ spec'.trace[n + 1] = e
      /\ \A i \in 1..n : spec'.trace[i] = spec.trace[i]
      /\ DOMAIN spec.trace = 1..n /\ DOMAIN spec'.trace = 1..(n + 1) /\ n \in Nat
  BY <1>1, <1>2, RangeOfAppend
<1>4. /\ TraceReqs(spec') \subseteq TraceReqs(spec) \cup reqIDs(spec)
      /\ TraceTests(spec') \subseteq TraceTests(spec) \cup knownTestIDs(spec)
  BY <1>1, <1>3 DEF TraceReqs, TraceTests
<1>5. DuplicateTrace(spec') \subseteq DuplicateTrace(spec)
  <2> SUFFICES ASSUME NEW x \in DuplicateTrace(spec') PROVE x \in DuplicateTrace(spec)
    OBVIOUS
  <2>1. PICK j \in DOMAIN spec'.trace :
          /\ x = <<"cross_file_8", spec'.trace[j].req>>
          /\ \E i \in 1..(j - 1) : /\ spec'.trace[i].req = spec'.trace[j].req
                                   /\ spec'.trace[i].test = spec'.trace[j].test
    BY DEF DuplicateTrace
  <2>2. PICK i \in 1..(j - 1) : /\ spec'.trace[i].req = spec'.trace[j].req
                                /\ spec'.trace[i].test = spec'.trace[j].test
    BY <2>1
  <2> HIDE DEF n
  <2>3. j \in 1..(n + 1) /\ i \in 1..n
    BY <1>3, <2>2
  <2>4. spec'.trace[i] = spec.trace[i] /\ spec.trace[i] \in Range(spec.trace)
    BY <1>3, <2>3 DEF Range
  <2>5. j # n + 1
    BY <1>1, <1>3, <2>2, <2>4
  <2>6. j \in DOMAIN spec.trace /\ spec'.trace[j] = spec.trace[j]
    BY <1>3, <2>3, <2>5
  <2> QED
    BY <2>1, <2>2, <2>4, <2>6 DEF DuplicateTrace
<1>6. spec'.reqs = spec.reqs /\ spec'.items = spec.items /\ spec'.groups = spec.groups
  BY <1>2 DEF OnlyTrace
<1> QED
  BY <1>4, <1>5, <1>6, KeptReqs, KeptItems, KeptGroups DEF Grows, RefsGrow, PlanGrows

LEMMA PlanUnchanged ==
  ASSUME spec'.reqs = spec.reqs, spec'.items = spec.items, spec'.trace = spec.trace,
         spec'.groups = spec.groups
  PROVE  Grows
BY KeptReqs, KeptItems, KeptTrace, KeptGroups DEF Grows, RefsGrow, PlanGrows

\* Once every artifact is there, a step keeps the identities and breaks only what it touches.
LEMMA StaysLocal ==
  ASSUME CInv, habits = {}, \A a \in Artifacts : Has(a), [Next]_vars
  PROVE  Grows /\ \A a \in Artifacts : spec'.heads[a] = spec.heads[a]
<1>0. EInv
  BY DEF CInv
<1>1. CASE AddRequirement
  BY <1>0, <1>1, AddRequirementDoes, LocalAddRequirement DEF OnlyReqs
<1>2. CASE RemoveRequirement
  BY <1>0, <1>2, RemoveRequirementDoes, LocalRemoveRequirement DEF OnlyReqs
<1>3. CASE AddCriterion \/ AddEdgeCase
  BY <1>0, <1>3, CriterionDoes, LocalCriterion DEF OnlyReqs
<1>4. CASE AddToRequirements \/ AddToTests
  <2>1. PICK k \in Collections : AddItem(k)
    BY <1>4, KindTypes DEF AddToRequirements, AddToTests
  <2> QED
    BY <1>0, <2>1, AddItemDoes, LocalItem DEF OnlyItems
<1>5. CASE SetGlossaryEntry \/ RemoveGlossaryEntry
  BY <1>0, <1>5, GlossaryDoes, PlanUnchanged DEF OnlyGroups
<1>6. CASE AddTaskGroup
  BY <1>0, <1>6, AddGroupDoes, LocalGroup DEF OnlyGroups
<1>7. CASE AddSubtask
  BY <1>0, <1>7, AddSubtaskDoes, LocalSubtask DEF OnlyGroups
<1>8. CASE AddTraceabilityEntry
  BY <1>0, <1>8, TraceDoes, LocalTrace DEF OnlyTrace
<1>9. CASE TransitionSome \/ CompleteSubtaskStates \/ ResetSubtaskStates
  BY <1>0, <1>9, StatesDo, LocalStates DEF OnlyGroups
<1>10. CASE SetArtifact
  BY <1>10 DEF SetArtifact, Has
<1>11. CASE SetPRD
  <2>1. spec' = [spec EXCEPT !.prd = TRUE]
    BY <1>11 DEF SetPRD
  <2>2. /\ spec'.reqs = spec.reqs /\ spec'.items = spec.items /\ spec'.trace = spec.trace
        /\ spec'.groups = spec.groups /\ spec'.heads = spec.heads
    BY <1>0, <2>1 DEF EInv, Shape
  <2> QED
    BY <2>2, PlanUnchanged
<1>12. CASE UNCHANGED vars
  <2>1. spec' = spec
    BY <1>12 DEF vars
  <2> QED
    BY <2>1, PlanUnchanged
<1> QED
  BY <1>1, <1>2, <1>3, <1>4, <1>5, <1>6, <1>7, <1>8, <1>9, <1>10, <1>11, <1>12 DEF Next

(***************************************************************************)
(* A careful edit of a specification with all its artifacts brings up no   *)
(* error about an entry it did not touch, unless that entry refers to what *)
(* the edit took away, whatever was wrong before.                          *)
(***************************************************************************)
THEOREM EditsStayLocal == Spec => EditsBreakLocally
<1>1. CInv /\ [Next]_vars =>
        [habits = {} /\ (\A a \in Artifacts : Has(a)) =>
           \A e \in Errors(spec') \ Errors(spec) :
             \/ e[2] \in Touched
             \/ Len(e) = 3 /\ e[3] \in Removed
             \/ e[1] \in {"task_group_structure", "wiring_verification", "cross_file_6"}]_vars
  <2> SUFFICES ASSUME CInv, [Next]_vars, habits = {}, \A a \in Artifacts : Has(a),
                      NEW e \in Errors(spec') \ Errors(spec)
               PROVE  Local(e)
    BY DEF Local
  <2>1. EInv /\ EInv'
    BY ENext DEF CInv
  <2>2. Shape(spec) /\ Shape(spec') /\ Named(spec')
    BY <2>1 DEF EInv
  <2>3. Grows /\ \A a \in Artifacts : spec'.heads[a] = spec.heads[a]
    BY StaysLocal
  <2> QED
    BY <2>2, <2>3, AllLocal DEF Grows
<1> QED
  BY <1>1, CarefulInvariant, PTL DEF Spec, EditsBreakLocally
=============================================================================
