---------------------------- MODULE SpecEditing ----------------------------
(***************************************************************************)
(* Editing a specification held in memory: the Add, Remove and Next*ID     *)
(* functions (mutate.go, nextid.go), the subtask states (subtask.go), and  *)
(* the incremental build of a BootstrapSpec (bootstrap.go).  Every one of  *)
(* them works on a deep copy, so an edit is one step, and one that returns *)
(* an error leaves the specification alone.                                *)
(*                                                                         *)
(* A caller numbers every new entry with the Next*ID function of its       *)
(* collection, refers to entries that are there, and has habits besides:   *)
(*   own_ids      it makes up ids,                                         *)
(*   loose_refs   it refers to entries it has yet to add,                  *)
(*   remove_last  it removes the requirement with the largest number.      *)
(***************************************************************************)
EXTENDS SpecRendering

CONSTANTS SpecId,    \* spec_id of the specification
          Foreign,   \* spec_id of another one
          Shapes,    \* what criteria are like, up to their ids
          Terms,     \* glossary terms
          Starts,    \* triples: what to begin with, the caller's habits, a bound on edits
          MaxItems   \* bound on the length of a collection

VARIABLES spec,
          edits,   \* how many are left
          habits

vars == <<spec, edits, habits>>

Name == "name"

Identity == <<SpecId, Name>>

\* The identities an artifact can have.
Heads == {SpecId, Foreign} \X {Name, "other"}

ASSUME EditingAssumption ==
  /\ MaxItems \in Nat \ {0}
  /\ Nil \notin Heads
  /\ Starts \subseteq {"created", "complete", "bootstrap", "repeats", "twins"}
                     \X (SUBSET {"own_ids", "loose_refs", "remove_last"}) \X Nat

States == {"pending", "queued", "in_progress", "done", "pending_reevaluation", "dropped"}

-----------------------------------------------------------------------------
(***************************************************************************)
(* CreateSpec: the scaffold with its two mandatory groups.                 *)
(***************************************************************************)
Group(n, kind, stub) == [id |-> n, kind |-> kind, stub |-> stub, subs |-> <<>>]

Scaffold == <<Group(1, "tests", FALSE), Group(2, "wiring_verification", TRUE)>>

CreateSpec ==
  [sid |-> SpecId, name |-> Name, folder |-> Nil, prd |-> FALSE,
   heads |-> [a \in Artifacts |-> Identity], glossary |-> {}, reqs |-> <<>>,
   items |-> [k \in Collections |-> <<>>], groups |-> Scaffold, trace |-> <<>>]

\* NewBootstrapSpec: an identity, and nothing else yet.
NewBootstrapSpec ==
  [CreateSpec EXCEPT !.heads = [a \in Artifacts |-> Nil], !.groups = <<>>]

Item(id, refs) == [id |-> id, refs |-> refs, terms |-> {}]

\* A small specification that validates, as an agent or an author leaves it.
Complete ==
  LET r  == <<SpecId, "REQ", 1>>
      c  == <<SpecId, "AC", 1, 1>>
      t  == <<SpecId, "TC", 1>>
      sm == <<SpecId, "SMOKE", 1>>
      Sub(id, reqRefs, testRefs) == [id |-> id, state |-> "pending", reqRefs |-> reqRefs,
                                     testRefs |-> testRefs, mentions |-> {}]
  IN  [CreateSpec EXCEPT
         !.prd = TRUE, !.folder = Identity,
         !.reqs = <<[id |-> r, ecs |-> <<>>,
                     acs |-> <<[id |-> c, pattern |-> "ubiquitous", fields |-> {},
                                contract |-> FALSE, terms |-> {}]>>]>>,
         !.items = [@ EXCEPT !.cases  = <<Item(t, {c})>>,
                             !.paths  = <<Item(<<SpecId, "PATH", 1>>, {})>>,
                             !.smokes = <<Item(sm, {<<SpecId, "PATH", 1>>})>>],
         !.groups = <<[@[1] EXCEPT !.subs = <<Sub(<<1, 1>>, {r}, {})>>],
                      [@[2] EXCEPT !.subs = <<Sub(<<2, 1>>, {}, {sm})>>]>>,
         !.trace = <<[req |-> c, test |-> t, task |-> <<1, 1>>]>>]

\* What no rule looks at and a file can hold: subtask 1.1 twice, and two groups 1.
Repeats == [Complete EXCEPT !.groups[1].subs = <<@[1], @[1]>>]

Twins == [Complete EXCEPT !.groups = <<@[1], [@[1] EXCEPT !.kind = "standard"], @[2]>>]

Beginning == [created |-> CreateSpec, complete |-> Complete, bootstrap |-> NewBootstrapSpec,
              repeats |-> Repeats, twins |-> Twins]

Init ==
  \E start \in Starts : spec = Beginning[start[1]] /\ habits = start[2] /\ edits = start[3]

-----------------------------------------------------------------------------
(***************************************************************************)
(* extractMaxSuffix and the Next*ID functions.  Ids of another kind are    *)
(* skipped, the prefix and a criterion's own requirement are not looked at.*)
(***************************************************************************)
Suffixes(q, kind) == {x.id[Len(x.id)] : x \in {x \in Range(q) : x.id[2] = kind}}

MaxSuffix(q, kind) ==
  CHOOSE n \in Suffixes(q, kind) \cup {0} : \A m \in Suffixes(q, kind) : m <= n

\* Variant: the first number that is free.
NextFreeRequirementID ==
  <<spec.heads.requirements[1], "REQ",
    CHOOSE n \in 1..(Len(spec.reqs) + 1) :
      /\ n \notin Suffixes(spec.reqs, "REQ")
      /\ \A m \in 1..(n - 1) : m \in Suffixes(spec.reqs, "REQ")>>

NextRequirementID == <<spec.heads.requirements[1], "REQ", MaxSuffix(spec.reqs, "REQ") + 1>>

NextCriterionID(r) == <<r.id[1], "AC", r.id[3], MaxSuffix(r.acs, "AC") + 1>>

\* Variant: edge cases are numbered like acceptance criteria, on their own.
NextEdgeCaseAsCriterion(r) == <<r.id[1], "AC", r.id[3], MaxSuffix(r.ecs, "AC") + 1>>

NextEdgeCaseID(r) == <<r.id[1], "EC", r.id[3], MaxSuffix(r.ecs, "EC") + 1>>

TheKind(k) == CHOOSE kind \in IdPattern[k] : TRUE

NextID(k) == <<spec.heads[Home(k)][1], TheKind(k), MaxSuffix(spec.items[k], TheKind(k)) + 1>>

NextSubtaskID(g) == <<g.id, Len(g.subs) + 1>>

-----------------------------------------------------------------------------
(***************************************************************************)
(* What a caller puts into a new entry.                                    *)
(***************************************************************************)
OwnIds(id, made) == {id} \cup (IF "own_ids" \in habits THEN made ELSE {})

\* Nothing, one entry that is there, or (loose) one that is not there yet.
RefChoices(known, loose) ==
  {{}} \cup {{x} : x \in known} \cup (IF "loose_refs" \in habits THEN {{loose}} ELSE {})

LooseReq  == <<SpecId, "REQ", MaxItems + 1>>
LooseCrit == <<SpecId, "AC", 2, 1>>
LooseTest == <<SpecId, "SMOKE", 2>>

\* The entries a new member of collection k can refer to.
ItemRefs(k) ==
  CASE k = "props"                -> RefChoices(criterionIDs(spec), LooseCrit)
    [] k \in {"cases", "etests"}  -> RefChoices(criterionIDs(spec), LooseCrit) \ {{}}
    [] k = "errs"                 -> RefChoices(reqIDs(spec), LooseReq)
    [] k = "ptests"               -> RefChoices(Ids(spec.items.props), LooseReq) \ {{}}
    [] k = "smokes"               -> RefChoices(Ids(spec.items.paths), LooseReq) \ {{}}
    [] OTHER                      -> {{}}

Has(a) == spec.heads[a] # Nil

Edit(new) ==
  /\ edits > 0
  /\ edits' = edits - 1
  /\ spec' = new
  /\ UNCHANGED habits

-----------------------------------------------------------------------------
(***************************************************************************)
(* Requirements and criteria.  A criterion is added to a Requirement the   *)
(* caller has looked up, and the result is put back in its place.          *)
(***************************************************************************)
AddRequirement ==
  /\ Has("requirements") /\ Len(spec.reqs) < MaxItems
  /\ \E id \in OwnIds(NextRequirementID, {<<Foreign, "REQ", 1>>}) :
       /\ id \notin Ids(spec.reqs)
       /\ Edit([spec EXCEPT !.reqs = Append(@, [id |-> id, acs |-> <<>>, ecs |-> <<>>])])

RemoveRequirement ==
  \E i \in DOMAIN spec.reqs :
    /\ "remove_last" \in habits \/ spec.reqs[i].id[3] < MaxSuffix(spec.reqs, "REQ")
    /\ Edit([spec EXCEPT !.reqs = SubSeq(@, 1, i - 1) \o SubSeq(@, i + 1, Len(@))])

NewCriterion(id, shape) == [id |-> id, pattern |-> shape.pattern, fields |-> shape.fields,
                            contract |-> shape.contract, terms |-> shape.terms]

AddCriterion ==
  \E i \in DOMAIN spec.reqs, shape \in Shapes :
    LET r == spec.reqs[i]
    IN  /\ Len(r.acs) < MaxItems
        /\ \E id \in OwnIds(NextCriterionID(r), {<<SpecId, "AC", 1, 1>>}) :
             /\ id \notin Ids(r.acs)
             /\ Edit([spec EXCEPT !.reqs[i].acs = Append(@, NewCriterion(id, shape))])

AddEdgeCase ==
  \E i \in DOMAIN spec.reqs, shape \in Shapes :
    LET r == spec.reqs[i]
    IN  /\ Len(r.ecs) < MaxItems
        /\ \E id \in OwnIds(NextEdgeCaseID(r), {<<SpecId, "AC", 1, 1>>}) :
             /\ id \notin Ids(r.ecs)
             /\ Edit([spec EXCEPT !.reqs[i].ecs = Append(@, NewCriterion(id, shape))])

-----------------------------------------------------------------------------
(***************************************************************************)
(* The flat collections: AddCorrectnessProperty, AddExecutionPath,         *)
(* AddErrorHandling, AddTestCase, AddPropertyTest, AddEdgeCaseTest and     *)
(* AddSmokeTest do the same to seven lists.                                *)
(***************************************************************************)
AddItem(k) ==
  /\ Has(Home(k)) /\ Len(spec.items[k]) < MaxItems
  /\ \E id \in OwnIds(NextID(k), {<<Foreign, TheKind(k), 1>>}), refs \in ItemRefs(k) :
       /\ id \notin Ids(spec.items[k])
       /\ Edit([spec EXCEPT !.items[k] = Append(@, Item(id, refs))])

AddToRequirements == \E k \in Collections \ TestCollections : AddItem(k)

AddToTests == \E k \in TestCollections : AddItem(k)

SetGlossaryEntry ==
  /\ Has("requirements")
  /\ \E term \in Terms \ spec.glossary : Edit([spec EXCEPT !.glossary = @ \cup {term}])

RemoveGlossaryEntry ==
  \E term \in spec.glossary : Edit([spec EXCEPT !.glossary = @ \ {term}])

-----------------------------------------------------------------------------
(***************************************************************************)
(* The task plan.                                                          *)
(***************************************************************************)
AddTaskGroup ==
  /\ Has("tasks") /\ Len(spec.groups) < MaxItems + 1
  /\ \E kind \in {"standard", "wiring_verification"} :
       LET n == Len(spec.groups) + 1
       IN  /\ n \notin Ids(spec.groups)
           /\ Edit([spec EXCEPT !.groups = Append(@, Group(n, kind, FALSE))])

AddSubtask ==
  \E i \in DOMAIN spec.groups :
    LET g == spec.groups[i]
    IN  /\ Len(g.subs) < MaxItems
        /\ \E id \in OwnIds(NextSubtaskID(g), {<<1, 1>>}),
              reqRefs \in RefChoices(Ids(spec.reqs), LooseReq),
              testRefs \in RefChoices(knownTestIDs(spec), LooseTest),
              mentions \in RefChoices(Ids(spec.reqs), LooseReq) :
             /\ id \notin Ids(g.subs)
             /\ mentions = {} \/ reqRefs \cup testRefs = {}
             /\ Edit([spec EXCEPT !.groups[i].subs =
                        Append(@, [id |-> id, state |-> "pending", reqRefs |-> reqRefs,
                                   testRefs |-> testRefs, mentions |-> mentions])])

AddTraceabilityEntry ==
  /\ Has("tasks") /\ Len(spec.trace) < MaxItems
  /\ \E c \in reqIDs(spec), t \in knownTestIDs(spec), task \in SubtaskIds(spec) :
       /\ \A e \in Range(spec.trace) : <<e.req, e.test>> # <<c, t>>
       /\ Edit([spec EXCEPT !.trace = Append(@, [req |-> c, test |-> t, task |-> task])])

-----------------------------------------------------------------------------
(***************************************************************************)
(* Subtask states.  A transition follows the table and moves the first     *)
(* subtask with the id; the bulk operations ask for nothing.               *)
(***************************************************************************)
subtaskTransitions ==
  [pending              |-> {"queued", "dropped"},
   queued               |-> {"in_progress", "pending", "dropped"},
   in_progress          |-> {"done", "pending_reevaluation"},
   done                 |-> {"pending_reevaluation"},
   pending_reevaluation |-> {"pending", "dropped"},
   dropped              |-> {}]

\* Where the search for a subtask ends: group by group, in order.
Before(p, q) == p[1] < q[1] \/ (p[1] = q[1] /\ p[2] < q[2])

Places(s, id) ==
  UNION {{<<i, j>> : j \in {j \in DOMAIN s.groups[i].subs : s.groups[i].subs[j].id = id}}
           : i \in DOMAIN s.groups}

FirstPlace(s, id) == CHOOSE p \in Places(s, id) : \A q \in Places(s, id) \ {p} : Before(p, q)

TransitionSubtask(id, target) ==
  /\ Places(spec, id) # {}
  /\ LET p == FirstPlace(spec, id)
     IN  /\ target \in subtaskTransitions[spec.groups[p[1]].subs[p[2]].state]
         /\ Edit([spec EXCEPT !.groups[p[1]].subs[p[2]].state = target])

SetStates(g, state) == [g EXCEPT !.subs = [j \in DOMAIN @ |-> [@[j] EXCEPT !.state = state]]]

InGroups(ids, state) ==
  [spec EXCEPT !.groups =
     [i \in DOMAIN @ |-> IF @[i].id \in ids THEN SetStates(@[i], state) ELSE @[i]]]

\* Variant: a state that is not one.
CompleteSubtasksOddly == \E n \in Ids(spec.groups) : Edit(InGroups({n}, "completed"))

CompleteSubtaskStates == \E ids \in {Ids(spec.groups)} \cup {{n} : n \in Ids(spec.groups)} :
                           Edit(InGroups(ids, "done"))

ResetSubtaskStates == \E n \in Ids(spec.groups) : Edit(InGroups({n}, "pending"))

-----------------------------------------------------------------------------
(***************************************************************************)
(* BootstrapSpec: the artifacts come in any order, each with an identity   *)
(* of its own, and Finalize is asked at any time.                          *)
(***************************************************************************)
SetArtifact ==
  \E a \in Artifacts, head \in {Identity, <<Foreign, Name>>, <<SpecId, "other">>} :
    /\ spec.heads[a] = Nil
    /\ spec' = [spec EXCEPT !.heads[a] = head,
                            !.groups = IF a = "tasks" THEN Scaffold ELSE @]
    /\ UNCHANGED <<edits, habits>>

SetPRD == ~spec.prd /\ spec' = [spec EXCEPT !.prd = TRUE] /\ UNCHANGED <<edits, habits>>

\* Variant: prd.md is not asked for.
FinalizeWithoutPRD(s) ==
  LET missing == {<<"bootstrap", a>> : a \in {a \in Artifacts : s.heads[a] = Nil}}
  IN  IF missing # {} THEN missing ELSE Errors(s)

FinalizeErrors(s) ==
  LET missing    == {<<"bootstrap", a>> : a \in {a \in Artifacts : s.heads[a] = Nil}}
                    \cup ErrIf(~s.prd, <<"bootstrap", "prd">>)
      mismatches == {<<"cross_file", a>> : a \in {a \in Artifacts : s.heads[a] # <<s.sid, s.name>>}}
  IN  IF missing # {} THEN missing
      ELSE IF mismatches # {} THEN mismatches
      ELSE Errors(s)

-----------------------------------------------------------------------------
TransitionSome ==
  \E id \in SubtaskIds(spec), target \in States : TransitionSubtask(id, target)

Next ==
  \/ AddRequirement \/ RemoveRequirement \/ AddCriterion \/ AddEdgeCase
  \/ AddToRequirements \/ AddToTests \/ SetGlossaryEntry \/ RemoveGlossaryEntry
  \/ AddTaskGroup \/ AddSubtask \/ AddTraceabilityEntry
  \/ TransitionSome \/ CompleteSubtaskStates \/ ResetSubtaskStates
  \/ SetArtifact \/ SetPRD

Spec == Init /\ [][Next]_vars

-----------------------------------------------------------------------------
(***************************************************************************)
(* Properties.                                                             *)
(***************************************************************************)
Id == LET Kinds == {"REQ", "AC", "EC"} \cup UNION {IdPattern[k] : k \in Collections}
      IN  ({SpecId, Foreign} \X Kinds \X Nat) \cup ({SpecId, Foreign} \X Kinds \X Nat \X Nat)

\* Types: ids and references are ids, whoever made them up.
TypeOK ==
  /\ edits \in Nat
  /\ spec.heads \in [Artifacts -> {Nil} \cup Heads]
  /\ spec.glossary \subseteq Terms
  /\ \A k \in Collections : \A x \in Range(spec.items[k]) : x.id \in Id /\ x.refs \subseteq Id
  /\ \A t \in Subtasks(spec) : t.state \in States /\ t.reqRefs \cup t.testRefs \subseteq Id

\* Every id the specification defines, with the places that define it.
Defined(s) ==
  {<<"req", i>> : i \in DOMAIN s.reqs}
  \cup (UNION {{<<"ac", i, j>> : j \in DOMAIN s.reqs[i].acs} : i \in DOMAIN s.reqs})
  \cup (UNION {{<<"ec", i, j>> : j \in DOMAIN s.reqs[i].ecs} : i \in DOMAIN s.reqs})
  \cup UNION {{<<"item", k, j>> : j \in DOMAIN s.items[k]} : k \in Collections}

IdAt(s, d) ==
  CASE d[1] = "req"  -> s.reqs[d[2]].id
    [] d[1] = "ac"   -> s.reqs[d[2]].acs[d[3]].id
    [] d[1] = "ec"   -> s.reqs[d[2]].ecs[d[3]].id
    [] d[1] = "item" -> s.items[d[2]][d[3]].id

(***************************************************************************)
(* One id, one entry, in the whole specification: a caller that numbers    *)
(* with Next*ID gets this although each function looks at one list only.   *)
(***************************************************************************)
IdsDenoteOneEntry ==
  habits = {} => \A d, e \in Defined(spec) : IdAt(spec, d) = IdAt(spec, e) => d = e

Referenced(s) ==
  (UNION {UNION {x.refs : x \in Range(s.items[k])} : k \in Collections})
  \cup {e.req : e \in Range(s.trace)} \cup {e.test : e \in Range(s.trace)}
  \cup UNION {t.reqRefs \cup t.testRefs : t \in Subtasks(s)}

DefinedIds(s) == {IdAt(s, d) : d \in Defined(s)}

(***************************************************************************)
(* A new entry never takes an id that something already refers to: no test *)
(* of a removed criterion comes to cover the next one.  It needs callers   *)
(* that leave the requirement with the largest number in place.            *)
(***************************************************************************)
NewIdsAreNew ==
  [][habits = {} =>
       \A id \in DefinedIds(spec') \ DefinedIds(spec) : id \notin Referenced(spec)]_vars

(***************************************************************************)
(* An edit breaks only what it touches: a new validation error is about an *)
(* id the edit added or took away, or about an entry that refers to what   *)
(* it took away, or one of the two rules on the last group, or a glossary  *)
(* term.  The error of a reference in traceability or in a subtask is      *)
(* about the id it names, which is the one taken away.                     *)
(***************************************************************************)
Removed == DefinedIds(spec) \ DefinedIds(spec')

Touched == (DefinedIds(spec') \ DefinedIds(spec)) \cup Removed
           \cup (SubtaskIds(spec') \ SubtaskIds(spec))

EditsBreakLocally ==
  [][habits = {} /\ (\A a \in Artifacts : Has(a)) =>
       \A e \in Errors(spec') \ Errors(spec) :
         \/ e[2] \in Touched
         \/ Len(e) = 3 /\ e[3] \in Removed
         \/ e[1] \in {"task_group_structure", "wiring_verification", "cross_file_6"}]_vars

(***************************************************************************)
(* No rule compares the ids of subtasks or the numbers of groups, so a     *)
(* file can hold 1.1 twice and validate.  An edit never makes that worse:  *)
(* while no two groups have one number, what it leaves valid has every     *)
(* subtask id in one place, or where it was before, although AddSubtask    *)
(* looks at one group only.  So TransitionSubtask means what it meant.     *)
(***************************************************************************)
GroupsApart(s) == \A i, j \in DOMAIN s.groups : s.groups[i].id = s.groups[j].id => i = j

SubtaskIdsStayApart ==
  [][GroupsApart(spec) /\ Valid(spec') =>
       \A id \in SubtaskIds(spec') :
         Cardinality(Places(spec', id)) = 1 \/ Places(spec', id) = Places(spec, id)]_vars

(***************************************************************************)
(* No rule says so by itself, but a specification that validates and has   *)
(* smoke tests runs one that exists in its last group.                     *)
(***************************************************************************)
ValidPlansRunASmokeTest ==
  Valid(spec) /\ spec.items.smokes # <<>> =>
    \E t \in Range(LastGroup(spec).subs) : t.testRefs \cap Ids(spec.items.smokes) # {}

(***************************************************************************)
(* Finalize accepts what Validate accepts, its own checks of the           *)
(* identities rejecting nothing more, except for the missing prd.md body.  *)
(***************************************************************************)
FinalizeAgreesWithValidate == FinalizeErrors(spec) = {} <=> spec.prd /\ Valid(spec)

Owner(s, ref) == {r.id : r \in {r \in Range(s.reqs) : r.id = ref \/ ref \in Ids(r.acs) \cup Ids(r.ecs)}}

(***************************************************************************)
(* The agent on a task group is shown every requirement and test that the  *)
(* group's subtasks refer to, or that traceability gives its tasks when    *)
(* they refer to nothing, at any level of truncation.  Of two groups with  *)
(* one number this is true of the first: nothing renders the other.        *)
(***************************************************************************)
FirstGroups == {i \in DOMAIN spec.groups : \A j \in 1..(i - 1) : spec.groups[j].id # spec.groups[i].id}

WorkIsShown ==
  \A g \in {spec.groups[i] : i \in FirstGroups}, level \in Levels :
    LET shown  == RenderIndividualScoped(spec, g.id, level)
        traced == {e \in Range(spec.trace) : e.task[1] = g.id}
    IN  /\ \A t \in Range(g.subs) :
             /\ \A ref \in t.reqRefs : Owner(spec, ref) \subseteq shown.reqs
             /\ t.testRefs \cap knownTestIDs(spec) \subseteq shown.tests
        /\ (\A t \in Range(g.subs) : t.reqRefs \cup t.testRefs = {}) =>
             \A e \in traced : /\ Owner(spec, e.req) \subseteq shown.reqs
                               /\ {e.test} \cap knownTestIDs(spec) \subseteq shown.tests
=============================================================================
