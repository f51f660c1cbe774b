--------------------------- MODULE SpecRendering ---------------------------
(***************************************************************************)
(* RenderIndividualScoped (render.go, render_inference.go): what an agent  *)
(* working on one task group is shown of a specification, as the set of    *)
(* requirements and of tests given in full.  The markdown is left out.     *)
(*                                                                         *)
(* The token budget drops detail in levels: 1 leaves architecture.md out,  *)
(* 2 also re-renders the tests without their bodies.  How far it goes      *)
(* depends on the sizes of the texts, so any level is possible.            *)
(***************************************************************************)
EXTENDS SpecValidation

Levels == 0..2

(***************************************************************************)
(* The references of a group, from the first source that has any: the      *)
(* subtasks' own, the traceability entries of the group's tasks, the ids   *)
(* mentioned in the subtasks' text that exist.                             *)
(***************************************************************************)
ExplicitRefs(g) ==
  [reqs  |-> UNION {t.reqRefs : t \in Range(g.subs)},
   tests |-> UNION {t.testRefs : t \in Range(g.subs)}]

inferRefsFromTraceability(s, g) ==
  LET ours == {e \in Range(s.trace) : e.task[1] = g.id}
  IN  [reqs |-> {e.req : e \in ours}, tests |-> {e.test : e \in ours}]

inferRefsFromSubtaskText(s, g) ==
  LET raw == UNION {t.mentions : t \in Range(g.subs)}
  IN  [reqs |-> raw \cap reqIDs(s), tests |-> raw \cap knownTestIDs(s)]

None == [reqs |-> {}, tests |-> {}]

\* Only what traceability gave may leave a section unscoped.
ScopeRefs(s, g) ==
  LET traced == inferRefsFromTraceability(s, g)
  IN  CASE ExplicitRefs(g) # None                   -> [refs |-> ExplicitRefs(g), partial |-> FALSE]
        [] ExplicitRefs(g) = None /\ traced # None  -> [refs |-> traced, partial |-> TRUE]
        [] OTHER -> [refs |-> inferRefsFromSubtaskText(s, g), partial |-> FALSE]

\* Variant: criteria do not bring their requirement in.
isRequirementInScopeById(r, refs) == r.id \in refs

isRequirementInScope(r, refs) ==
  r.id \in refs \/ \E c \in Range(r.acs) \cup Range(r.ecs) : c.id \in refs

InScope(s, refs) == {r.id : r \in {r \in Range(s.reqs) : isRequirementInScope(r, refs)}}

-----------------------------------------------------------------------------
(***************************************************************************)
(* The three forms of the result.                                          *)
(***************************************************************************)
RenderIndividual(s, level) ==
  [reqs |-> Ids(s.reqs), tests |-> knownTestIDs(s), groups |-> Ids(s.groups),
   architecture |-> level = 0, slim |-> level = 2]

\* At level 2 tests without references are no longer scoped to none of them.
RenderScoped(s, g, level) ==
  LET scope == ScopeRefs(s, g)
  IN  [reqs  |-> IF scope.partial /\ scope.refs.reqs = {} THEN Ids(s.reqs)
                 ELSE InScope(s, scope.refs.reqs),
       tests |-> IF scope.refs.tests = {} /\ (scope.partial \/ level = 2) THEN knownTestIDs(s)
                 ELSE knownTestIDs(s) \cap scope.refs.tests,
       groups |-> {g.id}, architecture |-> level = 0, slim |-> level = 2]

RenderIndividualScoped(s, n, level) ==
  IF n \notin Ids(s.groups) THEN RenderIndividual(s, level) ELSE
  LET i == CHOOSE i \in DOMAIN s.groups :
             s.groups[i].id = n /\ \A j \in 1..(i - 1) : s.groups[j].id # n
  IN  IF ScopeRefs(s, s.groups[i]).refs = None
      THEN [RenderIndividual(s, level) EXCEPT !.groups = {n}]
      ELSE RenderScoped(s, s.groups[i], level)
=============================================================================
