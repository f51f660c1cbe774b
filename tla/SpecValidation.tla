-------------------------- MODULE SpecValidation --------------------------
(***************************************************************************)
(* Spec.Validate of the afspec library (validate.go): the errors found in  *)
(* one specification held in memory, as a set of <<check, subject>> pairs, *)
(* one operator per rule.                                                  *)
(*                                                                         *)
(* A specification is a record                                             *)
(*   sid, name, folder  the prd.md identity and the directory's, or Nil    *)
(*   prd                does prd.md have a body                            *)
(*   heads              identity in each JSON artifact; Nil: not there     *)
(*   glossary           the defined terms                                  *)
(*   reqs               requirements [id, acs, ecs] with their criteria    *)
(*                      [id, pattern, fields, contract, terms]             *)
(*   items              the flat collections, each a sequence of           *)
(*                      [id, refs, terms]: refs are the ids an entry names *)
(*   groups             task groups [id, kind, stub, subs] with subtasks   *)
(*                      [id, state, reqRefs, testRefs, mentions]           *)
(*   trace              traceability entries [req, test, task]             *)
(* "05-REQ-2.E3" is <<"05", "EC", 2, 3>>: prefix, kind, numbers.           *)
(***************************************************************************)
EXTENDS Integers, Sequences, FiniteSets, Functions

CONSTANT Nil

Artifacts == {"requirements", "test_spec", "tasks"}

(***************************************************************************)
(* The flat collections and the kinds of id their patterns accept.         *)
(***************************************************************************)
IdPattern == [props  |-> {"PROP"}, paths  |-> {"PATH"}, errs   |-> {"ERR"},
              cases  |-> {"TC"},   ptests |-> {"PT"},   etests |-> {"ET"},
              smokes |-> {"SMOKE"}]

Collections     == DOMAIN IdPattern
TestCollections == {"cases", "ptests", "etests", "smokes"}

Home(k) == IF k \in TestCollections THEN "test_spec" ELSE "requirements"

ErrIf(cond, e) == IF cond THEN {e} ELSE {}

-----------------------------------------------------------------------------
(***************************************************************************)
(* The ids a specification defines, as ValidateCrossFile collects them.    *)
(***************************************************************************)
Ids(q) == {x.id : x \in Range(q)}

CritSeqs(r)     == {r.acs, r.ecs}
Criteria(s)     == UNION {Range(q) : q \in UNION {CritSeqs(r) : r \in Range(s.reqs)}}
criterionIDs(s) == {c.id : c \in Criteria(s)}
reqIDs(s)       == Ids(s.reqs) \cup criterionIDs(s)
knownTestIDs(s) == UNION {Ids(s.items[k]) : k \in TestCollections}
Subtasks(s)     == UNION {Range(g.subs) : g \in Range(s.groups)}
SubtaskIds(s)   == {t.id : t \in Subtasks(s)}

\* Variant: the map is made anew for every test.
coveredByTheLast(s) ==
  LET tests == s.items.cases \o s.items.etests
  IN  IF tests = <<>> THEN {} ELSE tests[Len(tests)].refs

coveredReqIDs(s) == UNION {x.refs : x \in Range(s.items.cases) \cup Range(s.items.etests)}

-----------------------------------------------------------------------------
(***************************************************************************)
(* ValidateSchema: the list lengths the schemas demand, and the fields an  *)
(* EARS pattern requires, all others being forbidden.                      *)
(***************************************************************************)
EarsRequired == [ubiquitous    |-> {},
                 event_driven  |-> {"trigger"},
                 complex_event |-> {"trigger", "condition"},
                 state_driven  |-> {"state"},
                 unwanted      |-> {"error_condition"},
                 optional      |-> {"feature"}]

EarsErrors(s) ==
  {<<"ears_constraint", c.id>> : c \in
     {c \in Criteria(s) : \/ c.pattern \notin DOMAIN EarsRequired
                          \/ c.fields # EarsRequired[c.pattern]}}

SchemaErrors(s) ==
  (IF s.heads.requirements = Nil THEN {} ELSE
      {<<"json_schema", r.id>> : r \in {r \in Range(s.reqs) : r.acs = <<>>}}
      \cup {<<"json_schema", p.id>> : p \in {p \in Range(s.items.props) : p.refs = {}}}
      \cup EarsErrors(s))
  \cup (IF s.heads.test_spec = Nil THEN {} ELSE
      {<<"json_schema", t.id>> : t \in
         {t \in UNION {Range(s.items[k]) : k \in TestCollections} : t.refs = {}}})
  \cup ErrIf(s.heads.tasks # Nil /\ s.groups = <<>>, <<"json_schema", "task_groups">>)

-----------------------------------------------------------------------------
(***************************************************************************)
(* The id rules: the pattern, the prefix and, within one list, duplicates. *)
(***************************************************************************)
Repeated(q) == {q[j].id : j \in {j \in DOMAIN q : \E i \in 1..(j - 1) : q[i].id = q[j].id}}

IdErrors(q, kinds, prefix) ==
  {<<"id_format", x.id>> : x \in {x \in Range(q) : x.id[2] \notin kinds \/ x.id[1] # prefix}}
  \cup {<<"duplicate", d>> : d \in Repeated(q)}

RequirementIdErrors(s) == IdErrors(s.reqs, {"REQ", "AC", "EC"}, s.heads.requirements[1])

CriterionIdErrors(s) ==
  UNION {IdErrors(q, {"AC", "EC"}, s.heads.requirements[1]) :
           q \in UNION {CritSeqs(r) : r \in Range(s.reqs)}}

EntryIdErrors(s) ==
  UNION {IdErrors(s.items[k], IdPattern[k], s.heads.requirements[1]) :
           k \in Collections \ TestCollections}

TestIdErrors(s) ==
  UNION {IdErrors(s.items[k], IdPattern[k], s.heads.test_spec[1]) : k \in TestCollections}

\* Variant: the ids need only have the form of a subtask id.
SubtaskIdErrorsInForm(s) == {}

\* A subtask id carries its group's number; two equal ids in it are not looked for.
SubtaskIdErrors(s) ==
  UNION {{<<"id_format", t.id>> : t \in {t \in Range(g.subs) : t.id[1] # g.id}} :
           g \in Range(s.groups)}

-----------------------------------------------------------------------------
(***************************************************************************)
(* References that resolve to nothing.  An entry's is an error of the      *)
(* entry; one of traceability or of a subtask is known by what it names.   *)
(***************************************************************************)
Dangling(check, q, known) ==
  UNION {{<<check, x.id, ref>> : ref \in x.refs \ known} : x \in Range(q)}

UnknownRequirementRefs(s) ==        \* rule 1
  {<<"cross_file_1", e.req>> : e \in {e \in Range(s.trace) : e.req \notin reqIDs(s)}}
  \cup Dangling("cross_file_1", s.items.errs, reqIDs(s))

UnknownValidates(s) == Dangling("validates_ref", s.items.props, criterionIDs(s))

DanglingTestRefs(s) ==
  Dangling("dangling_reference", s.items.cases, reqIDs(s))
  \cup Dangling("dangling_reference", s.items.ptests, Ids(s.items.props))
  \cup Dangling("dangling_reference", s.items.etests, reqIDs(s))
  \cup Dangling("dangling_reference", s.items.smokes, Ids(s.items.paths))

\* Variant: rule 5 looks at the traceability entries and not at the subtasks.
UnknownTracedTests(s) ==
  {<<"cross_file_5", e.test>> : e \in {e \in Range(s.trace) : e.test \notin knownTestIDs(s)}}

UnknownTestRefs(s) ==               \* rule 5
  {<<"cross_file_5", e.test>> : e \in {e \in Range(s.trace) : e.test \notin knownTestIDs(s)}}
  \cup {<<"cross_file_5", ref>> :
          ref \in (UNION {t.testRefs : t \in Subtasks(s)}) \ knownTestIDs(s)}

UnknownSubtaskRefs(s) ==            \* rule 9
  {<<"cross_file_9", ref>> : ref \in (UNION {t.reqRefs : t \in Subtasks(s)}) \ reqIDs(s)}

-----------------------------------------------------------------------------
(***************************************************************************)
(* What must be there: a test of every criterion, property and path, a     *)
(* definition of every term, a contract for every unwanted behaviour.      *)
(***************************************************************************)
CoverageGaps(s) ==
  {<<"coverage_gap", c>> : c \in criterionIDs(s) \ coveredReqIDs(s)}
  \cup {<<"no_criteria", r.id>> : r \in {r \in Range(s.reqs) : r.acs = <<>> /\ r.ecs = <<>>}}

Untested(check, entries, tests) ==
  {<<check, id>> : id \in Ids(entries) \ UNION {t.refs : t \in Range(tests)}}

UntestedProperties(s) == Untested("cross_file_3", s.items.props, s.items.ptests)

UntestedPaths(s) == Untested("cross_file_4", s.items.paths, s.items.smokes)

UndefinedTerms(s) ==                \* rule 6
  {<<"cross_file_6", term>> : term \in
     (UNION {x.terms : x \in Criteria(s) \cup Range(s.items.props)}) \ s.glossary}

DuplicateTrace(s) ==                \* rule 8
  {<<"cross_file_8", s.trace[j].req>> : j \in
     {j \in DOMAIN s.trace : \E i \in 1..(j - 1) : /\ s.trace[i].req = s.trace[j].req
                                                   /\ s.trace[i].test = s.trace[j].test}}

MissingContracts(s) ==              \* rule 10
  {<<"cross_file_10", c.id>> : c \in
     {c \in Criteria(s) : c.pattern = "unwanted" /\ ~c.contract}}

-----------------------------------------------------------------------------
(***************************************************************************)
(* The task plan: first the tests, last and once the wiring group, which   *)
(* runs a smoke test once there is one and speaks of stub removal.         *)
(***************************************************************************)
LastGroup(s) == s.groups[Len(s.groups)]

WiringGroups(s) == {i \in DOMAIN s.groups : s.groups[i].kind = "wiring_verification"}

TaskGroupStructure(s) ==
  IF s.groups = <<>> THEN {} ELSE
  ErrIf(s.groups[1].kind # "tests", <<"task_group_structure", "first">>)
  \cup ErrIf(LastGroup(s).kind # "wiring_verification", <<"task_group_structure", "last">>)
  \cup ErrIf(Cardinality(WiringGroups(s)) > 1, <<"task_group_structure", "wiring">>)

WiringVerification(s) ==
  IF s.groups = <<>> \/ LastGroup(s).kind # "wiring_verification" THEN {} ELSE
  LET refs == UNION {t.testRefs : t \in Range(LastGroup(s).subs)}
  IN  ErrIf(s.items.smokes # <<>> /\ refs = {}, <<"wiring_verification", "refs">>)
      \cup ErrIf(s.items.smokes # <<>> /\ \A ref \in refs : ref[2] # "SMOKE",
                 <<"wiring_verification", "smoke">>)
      \cup ErrIf(~LastGroup(s).stub, <<"wiring_verification", "stub">>)

-----------------------------------------------------------------------------
(***************************************************************************)
(* Identities (rule 7 and the folder rule), and the whole of it.  An       *)
(* artifact that is missing is the only thing reported across files.       *)
(***************************************************************************)
HeadErrors(s) ==
  UNION {ErrIf(s.heads[a][1] # s.sid, <<"cross_file_7", a>>)
         \cup ErrIf(s.heads[a][2] # s.name, <<"cross_file_7", a>>) : a \in Artifacts}

FolderErrors(s) ==
  IF s.folder = Nil THEN {} ELSE ErrIf(s.folder # <<s.sid, s.name>>, <<"folder_name", s.folder>>)

ValidateCrossFile(s) ==
  IF \E a \in Artifacts : s.heads[a] = Nil THEN {<<"completeness", "spec">>} ELSE
  RequirementIdErrors(s) \cup CriterionIdErrors(s) \cup EntryIdErrors(s) \cup TestIdErrors(s)
  \cup SubtaskIdErrors(s) \cup UnknownRequirementRefs(s) \cup UnknownValidates(s)
  \cup DanglingTestRefs(s) \cup UnknownTestRefs(s) \cup UnknownSubtaskRefs(s)
  \cup CoverageGaps(s) \cup UntestedProperties(s) \cup UntestedPaths(s)
  \cup UndefinedTerms(s) \cup DuplicateTrace(s) \cup MissingContracts(s)
  \cup TaskGroupStructure(s) \cup WiringVerification(s) \cup HeadErrors(s) \cup FolderErrors(s)

Errors(s) == SchemaErrors(s) \cup ValidateCrossFile(s)

Valid(s) == Errors(s) = {}
=============================================================================
