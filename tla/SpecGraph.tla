----------------------------- MODULE SpecGraph -----------------------------
(***************************************************************************)
(* The graph of the specs of one root directory and what is computed from  *)
(* it: DependencyGraph (graph.go), the cross-spec rules (validate.go, and  *)
(* "spec validate --cross"), and the summaries of the upstream specs       *)
(* (LoadDependentInterfaces in mutate.go).                                 *)
(*                                                                         *)
(* The program reads file after file, and an author may write to the files *)
(* in between, any number of times.  An edge goes from a spec to one it    *)
(* depends on.  Spec ids are numbers in the order of their strings.        *)
(***************************************************************************)
EXTENDS Integers, Sequences, FiniteSets, Functions

CONSTANTS Nil,
          Dirs,      \* spec directories under the root, in ReadDir order
          Start,     \* what they may hold at the beginning
          DepLists,  \* what an author may write as dependencies
          Uses,      \* which of "sort", "cross", "interfaces" is asked for
          MaxWritten \* bound on the directories the author writes to

(***************************************************************************)
(* A directory holds prd, whether prd.md can be parsed, its spec id sid,   *)
(* deps, the ids in the dependencies of tasks.json in their order, or Nil  *)
(* when the file cannot be read, and from requirements.json the sets of    *)
(* pairs glossary (term, definition) and contracts (backticked term,       *)
(* return contract), the list symbols of pairs (name, signature), the set  *)
(* actors, and the list reqs of requirement ids, or Nil when that file     *)
(* cannot be read.                                                         *)
(***************************************************************************)
Edge == [from : Nat, to : Nat]

SpecFiles == [prd : BOOLEAN, sid : Nat, deps : Seq(Nat) \cup {Nil},
              glossary : SUBSET (STRING \X STRING), symbols : Seq(STRING \X STRING),
              contracts : SUBSET (STRING \X STRING), actors : SUBSET STRING,
              reqs : Seq(Nat) \cup {Nil}]

ASSUME GraphAssumption ==
  /\ Dirs \subseteq Nat /\ IsFiniteSet(Dirs) /\ MaxWritten \in Nat
  /\ Nil \notin Seq(Nat)
  /\ DepLists \subseteq Seq(Nat) \cup {Nil}
  /\ Start \subseteq [Dirs -> SpecFiles]

VARIABLES disk,
          written,   \* directories the author has written to
          use,       \* what the program is asked for
          pc,        \* "load", "discover", "read", "sort", "summarize", "done"
          todo,      \* what the present loop has yet to visit
          metas,     \* directories whose prd.md was parsed
          unparsed,  \* the error of DiscoverSpecs: those whose prd.md was not
          loaded,    \* what LoadSpec returned for them ("cross" only)
          edges, errs,               \* the graph and its error
          order, degree, queue,      \* of TopologicalSort
          result

author == <<disk, written>>
sorting == <<order, degree, queue>>
vars == <<disk, written, use, pc, todo, metas, unparsed, loaded, edges, errs,
          order, degree, queue, result>>

First(d, S) == d \in S /\ \A e \in S : d <= e

-----------------------------------------------------------------------------
\* LoadSpec fails when one of the files cannot be read.
Loads(spec) == spec.prd /\ spec.deps # Nil /\ spec.reqs # Nil

Init ==
  /\ disk \in Start /\ written = {} /\ use \in Uses
  /\ pc = IF use = "cross" THEN "load" ELSE "discover"
  /\ todo = Dirs /\ metas = {} /\ unparsed = {}
  /\ loaded = <<>> /\ edges = <<>> /\ errs = {}
  /\ order = <<>> /\ degree = <<>> /\ queue = {} /\ result = Nil

(***************************************************************************)
(* DiscoverSpecs: the directories whose frontmatter can be parsed, and the *)
(* joined errors of the others.  LoadDependentInterfaces gives up on any   *)
(* error; who sorts the graph goes on with the specs that were found.      *)
(***************************************************************************)
DiscoverNext ==
  /\ pc = "discover"
  /\ \E d \in todo :
       /\ First(d, todo)
       /\ todo' = todo \ {d}
       /\ IF disk[d].prd THEN metas' = metas \cup {d} /\ UNCHANGED unparsed
                         ELSE unparsed' = unparsed \cup {d} /\ UNCHANGED metas
  /\ UNCHANGED <<author, use, pc, loaded, edges, errs, sorting, result>>

DiscoverDone ==
  /\ pc = "discover" /\ todo = {} /\ (use = "sort" \/ unparsed = {})
  /\ pc' = "read" /\ todo' = metas
  /\ UNCHANGED <<author, use, metas, unparsed, loaded, edges, errs, sorting, result>>

\* The ids that the interfaces may be asked for.
specIDs == {disk[d].sid : d \in Dirs}

GiveUp ==
  /\ pc = "discover" /\ todo = {} /\ use = "interfaces" /\ unparsed # {}
  /\ pc' = "done"
  /\ \E id \in specIDs : result' = [of |-> id, summaries |-> <<>>]
  /\ UNCHANGED <<author, use, todo, metas, unparsed, loaded, edges, errs, sorting>>

\* runValidateCross takes every directory and leaves it to LoadSpec.
LoadNext ==
  /\ pc = "load"
  /\ \E d \in todo :
       /\ First(d, todo)
       /\ todo' = todo \ {d}
       /\ IF Loads(disk[d])
          THEN metas' = metas \cup {d} /\ loaded' = [e \in metas' |-> IF e = d THEN disk[d] ELSE loaded[e]]
          ELSE UNCHANGED <<metas, loaded>>
  /\ UNCHANGED <<author, use, pc, unparsed, edges, errs, sorting, result>>

\* With nothing loaded there is no graph and nothing to check.
LoadDone ==
  /\ pc = "load" /\ todo = {}
  /\ todo' = metas
  /\ IF metas = {} THEN pc' = "done" /\ result' = {} ELSE pc' = "read" /\ UNCHANGED result
  /\ UNCHANGED <<author, use, metas, unparsed, loaded, edges, errs, sorting>>

-----------------------------------------------------------------------------
(***************************************************************************)
(* BuildDependencyGraph: reads the tasks.json of every meta.  A file that  *)
(* cannot be read and an unknown id are errors, and the loop goes on.      *)
(***************************************************************************)
knownSpecs == {disk[m].sid : m \in metas}

EdgesOf(spec) == [i \in DOMAIN spec.deps |-> [from |-> spec.sid, to |-> spec.deps[i]]]

ReadNext ==
  /\ pc = "read"
  /\ \E d \in todo :
       /\ First(d, todo)
       /\ todo' = todo \ {d}
       /\ IF disk[d].deps = Nil
          THEN errs' = errs \cup {<<"unreadable", d>>} /\ UNCHANGED edges
          ELSE /\ edges' = edges \o EdgesOf(disk[d])
               /\ errs' = errs \cup {<<"unknown", disk[d].sid, id>> :
                                       id \in Range(disk[d].deps) \ knownSpecs}
  /\ UNCHANGED <<author, use, pc, metas, unparsed, loaded, sorting, result>>

-----------------------------------------------------------------------------
(***************************************************************************)
(* TopologicalSort: Kahn's algorithm.  The sorted queue is a set of which  *)
(* the least element is taken; every edge counts, repeated ones too.       *)
(***************************************************************************)
nodeSet == {e.from : e \in Range(edges)} \cup {e.to : e \in Range(edges)}

\* Variant: edges are followed the way they are declared.
EdgesBackwards(n, S) == {i \in DOMAIN edges : edges[i].to = n /\ edges[i].from \in S}

EdgesBetween(n, S) == {i \in DOMAIN edges : edges[i].from = n /\ edges[i].to \in S}

\* Variant: a dependency counts once however often it is declared.
StartSortOnce ==
  /\ pc = "read" /\ todo = {} /\ use = "sort"
  /\ degree' = [n \in nodeSet |-> Cardinality({edges[i].to : i \in EdgesBetween(n, nodeSet)})]
  /\ queue' = {n \in nodeSet : degree'[n] = 0}
  /\ pc' = "sort"
  /\ UNCHANGED <<author, use, todo, metas, unparsed, loaded, edges, errs, order, result>>

StartSort ==
  /\ pc = "read" /\ todo = {} /\ use = "sort"
  /\ degree' = [n \in nodeSet |-> Cardinality(EdgesBetween(n, nodeSet))]
  /\ queue' = {n \in nodeSet : degree'[n] = 0}
  /\ pc' = "sort"
  /\ UNCHANGED <<author, use, todo, metas, unparsed, loaded, edges, errs, order, result>>

\* Variant: the queue is not sorted again.
TakeAnyNode ==
  /\ pc = "sort"
  /\ \E node \in queue :
       /\ order' = Append(order, node)
       /\ degree' = [n \in DOMAIN degree |-> degree[n] - Cardinality(EdgesBetween(n, {node}))]
       /\ queue' = (queue \ {node}) \cup {n \in DOMAIN degree : degree[n] > 0 /\ degree'[n] = 0}
  /\ UNCHANGED <<author, use, pc, todo, metas, unparsed, loaded, edges, errs, result>>

TakeNode ==
  /\ pc = "sort"
  /\ \E node \in queue :
       /\ First(node, queue)
       /\ order' = Append(order, node)
       /\ degree' = [n \in DOMAIN degree |-> degree[n] - Cardinality(EdgesBetween(n, {node}))]
       /\ queue' = (queue \ {node}) \cup {n \in DOMAIN degree : degree[n] > 0 /\ degree'[n] = 0}
  /\ UNCHANGED <<author, use, pc, todo, metas, unparsed, loaded, edges, errs, result>>

FinishSort ==
  /\ pc = "sort" /\ queue = {}
  /\ result' = IF Len(order) = Cardinality(nodeSet)
               THEN [order |-> order, cycle |-> {}]
               ELSE [order |-> <<>>, cycle |-> {n \in nodeSet : degree[n] > 0}]
  /\ pc' = "done"
  /\ UNCHANGED <<author, use, todo, metas, unparsed, loaded, edges, errs, sorting>>

-----------------------------------------------------------------------------
(***************************************************************************)
(* ValidateCrossSpec on the loaded specs and the graph, and the check of   *)
(* the requirement ids in validateCrossSpecs.  Two directories can have    *)
(* one spec id: the lookup by id keeps the last.                           *)
(***************************************************************************)
Loaded == DOMAIN loaded

specByID(id) == {loaded[d] : d \in {d \in Loaded : /\ loaded[d].sid = id
                                                   /\ \A e \in Loaded : loaded[e].sid = id => e <= d}}

\* The specs at the two ends of an edge, when both are loaded.
Ends == UNION {specByID(e.from) \X specByID(e.to) : e \in Range(edges)}

\* Terms to which the two sets of pairs give different, or no common, values.
Values(pairs, t) == {p[2] : p \in {p \in pairs : p[1] = t}}
Shared(a, b) == {p[1] : p \in a} \cap {p[1] : p \in b}
Disjoint(a, b) == {t \in Shared(a, b) : Values(a, t) \cap Values(b, t) = {}}

GlossaryConflicts ==
  UNION {{<<"glossary_conflict", t>> : t \in Disjoint(loaded[p[1]].glossary, loaded[p[2]].glossary)} :
           p \in Loaded \X Loaded}

\* The edges that are the first between their two specs, in either direction.
FirstEdges == {i \in DOMAIN edges : \A j \in 1..(i - 1) :
                 {edges[j].from, edges[j].to} # {edges[i].from, edges[i].to}}

\* The signature that a name keeps in a map filled from the list.
Signature(symbols, name) ==
  {symbols[j][2] : j \in {j \in DOMAIN symbols :
     symbols[j][1] = name /\ \A k \in DOMAIN symbols : symbols[k][1] = name => k <= j}}

SymbolConflicts ==            \* rule 1
  UNION {UNION {{<<"cross_spec_1", s[1]>> : s \in {s \in Range(p[2].symbols) :
                   \E sig \in Signature(p[1].symbols, s[1]) : sig # s[2]}} :
           p \in specByID(edges[i].from) \X specByID(edges[i].to)} : i \in FirstEdges}

\* Variant: the ids are looked up among those that the graph joins.
UnknownInGraph ==
  UNION {{<<"cross_spec_3", loaded[d].sid, id>> :
            id \in Range(loaded[d].deps) \ nodeSet} : d \in Loaded}

UnknownDependencies ==        \* rule 3
  UNION {{<<"cross_spec_3", loaded[d].sid, id>> :
            id \in Range(loaded[d].deps) \ {loaded[e].sid : e \in Loaded}} : d \in Loaded}

ContractConflicts ==          \* rule 4
  UNION {{<<"cross_spec_4", t>> : t \in Disjoint(p[1].contracts, p[2].contracts)} : p \in Ends}

\* Rule 5 takes the spec an edge comes from for the upstream one.
MissingActors ==
  {<<"cross_spec_5", p[2].sid, p[1].sid>> : p \in
     {p \in Ends : p[1].actors # {} /\ p[1].actors \cap p[2].actors = {}}}

ValidateCrossSpec ==
  IF Cardinality(Loaded) <= 1 THEN {}
  ELSE GlossaryConflicts \cup SymbolConflicts \cup UnknownDependencies
       \cup ContractConflicts \cup MissingActors

\* Where a requirement id stands, in the files that can be read.
Occurrences(id) ==
  UNION {{d} \X {i \in DOMAIN disk[d].reqs : disk[d].reqs[i] = id} :
           d \in {d \in Dirs : disk[d].reqs # Nil}}

validateCrossSpecs ==
  {<<"duplicate_id", id>> : id \in
     {id \in UNION {Range(disk[d].reqs) : d \in {d \in Dirs : disk[d].reqs # Nil}} :
        Cardinality(Occurrences(id)) > 1}}

CheckCross ==
  /\ pc = "read" /\ todo = {} /\ use = "cross"
  /\ result' = ValidateCrossSpec \cup validateCrossSpecs
  /\ pc' = "done"
  /\ UNCHANGED <<author, use, todo, metas, unparsed, loaded, edges, errs, sorting>>

-----------------------------------------------------------------------------
(***************************************************************************)
(* LoadDependentInterfaces for one spec, once there is a graph: LoadSpec   *)
(* for the spec at the end of each of its edges, leaving out ids that are  *)
(* unknown and specs that do not load.  There always is a graph, and its   *)
(* error is not looked at.  A summary is given by its directory.           *)
(***************************************************************************)

\* The edges from a spec, as their positions in the list.
Dependencies(id) == {i \in DOMAIN edges : edges[i].from = id}

metaByID(id) == {d \in metas : disk[d].sid = id /\ \A e \in metas : disk[e].sid = id => e <= d}

StartSummaries ==
  /\ pc = "read" /\ todo = {} /\ use = "interfaces"
  /\ \E id \in specIDs : /\ result' = [of |-> id, summaries |-> <<>>]
                          /\ todo' = Dependencies(id)
  /\ pc' = "summarize"
  /\ UNCHANGED <<author, use, metas, unparsed, loaded, edges, errs, sorting>>

\* Variant: an upstream spec that does not load ends the loop.
SummarizeOrStop ==
  /\ pc = "summarize"
  /\ \E i \in todo :
       /\ First(i, todo)
       /\ LET found == {d \in metaByID(edges[i].to) : Loads(disk[d])}
          IN  IF found = {} THEN todo' = {} /\ UNCHANGED result
              ELSE /\ todo' = todo \ {i}
                   /\ \E d \in found : result' = [result EXCEPT !.summaries = Append(@, d)]
  /\ UNCHANGED <<author, use, pc, metas, unparsed, loaded, edges, errs, sorting>>

Summarize ==
  /\ pc = "summarize"
  /\ \E i \in todo :
       /\ First(i, todo)
       /\ todo' = todo \ {i}
       /\ LET found == {d \in metaByID(edges[i].to) : Loads(disk[d])}
          IN  IF found = {} THEN UNCHANGED result
              ELSE \E d \in found : result' = [result EXCEPT !.summaries = Append(@, d)]
  /\ UNCHANGED <<author, use, pc, metas, unparsed, loaded, edges, errs, sorting>>

FinishSummaries ==
  /\ pc = "summarize" /\ todo = {}
  /\ pc' = "done"
  /\ UNCHANGED <<author, use, todo, metas, unparsed, loaded, edges, errs, sorting, result>>

-----------------------------------------------------------------------------
(***************************************************************************)
(* An author saves another list of dependencies or a broken tasks.json, a  *)
(* prd.md that can or cannot be parsed, or a broken requirements.json.     *)
(***************************************************************************)
Write ==
  /\ pc \in {"load", "discover", "read", "summarize"}
  /\ \E d \in Dirs :
       /\ Cardinality(written \cup {d}) <= MaxWritten
       /\ written' = written \cup {d}
       /\ \/ \E deps \in DepLists : disk' = [disk EXCEPT ![d].deps = deps]
          \/ \E prd \in BOOLEAN : disk' = [disk EXCEPT ![d].prd = prd]
          \/ disk' = [disk EXCEPT ![d].reqs = Nil]
  /\ UNCHANGED <<use, pc, todo, metas, unparsed, loaded, edges, errs, sorting, result>>

Next == \/ DiscoverNext \/ DiscoverDone \/ GiveUp
        \/ LoadNext \/ LoadDone \/ ReadNext
        \/ StartSort \/ TakeNode \/ FinishSort
        \/ CheckCross
        \/ StartSummaries \/ Summarize \/ FinishSummaries
        \/ Write

Spec == Init /\ [][Next]_vars

-----------------------------------------------------------------------------
(***************************************************************************)
(* Properties.                                                             *)
(***************************************************************************)
\* Types: the graph's edges join spec ids, the counts are numbers.
TypeOK ==
  /\ disk \in [Dirs -> SpecFiles] /\ written \subseteq Dirs /\ use \in Uses
  /\ pc \in {"load", "discover", "read", "sort", "summarize", "done"}
  /\ pc = "summarize" => todo \subseteq DOMAIN edges
  /\ pc \in {"load", "discover", "read"} => todo \subseteq Dirs
  /\ metas \subseteq Dirs /\ unparsed \subseteq Dirs /\ DOMAIN loaded \subseteq Dirs
  /\ edges \in Seq(Edge)
  /\ order \in Seq(Nat) /\ queue \subseteq DOMAIN degree
  /\ DOMAIN degree \subseteq nodeSet /\ degree \in [DOMAIN degree -> Nat]

(***************************************************************************)
(* TopologicalSort: every spec appears before its dependents, at any time  *)
(* of the run and also when one dependency is declared more than once.     *)
(***************************************************************************)
DependenciesFirst ==
  \A i \in DOMAIN order : \A e \in Range(edges) :
    e.from = order[i] => \E j \in 1..(i - 1) : order[j] = e.to

\* The specs on a cycle or behind one: in some set whose members all depend on members.
Stuck == UNION {S \in SUBSET nodeSet :
                  \A n \in S : \E e \in Range(edges) : e.from = n /\ e.to \in S}

(***************************************************************************)
(* A cycle is reported exactly when there is one, with the specs that      *)
(* cannot be ordered, and otherwise the order has every spec once.         *)
(***************************************************************************)
CyclesAreReported ==
  pc = "done" /\ use = "sort" =>
    /\ result.cycle = Stuck
    /\ Stuck = {} => /\ Range(result.order) = nodeSet
                     /\ Len(result.order) = Cardinality(nodeSet)

(***************************************************************************)
(* The order is a function of the graph and not of the order in which the  *)
(* files declare things: of all orders, the one that comes first.          *)
(***************************************************************************)
Allowed(n, done) == n \in nodeSet \ done /\ \A e \in Range(edges) : e.from = n => e.to \in done

OrderIsLeast ==
  \A i \in DOMAIN order :
    LET done == {order[j] : j \in 1..(i - 1)}
    IN  First(order[i], {n \in nodeSet : Allowed(n, done)})

(***************************************************************************)
(* spec validate --cross throws the error of BuildDependencyGraph away,    *)
(* and rule 3 compares what was loaded before.  A write between the two    *)
(* reads of tasks.json can make them differ for the written spec only: of  *)
(* any other, rule 3 reports exactly the unknown dependencies that the     *)
(* thrown away error names, and no file is unreadable.  That takes two     *)
(* loaded specs: with a single one rule 3 is not run and reports nothing.  *)
(***************************************************************************)
Unknown(sid, set, kind) == {e[3] : e \in {e \in set : e[1] = kind /\ e[2] = sid}}

Untouched(sid) == \A d \in written : disk[d].sid # sid

GraphErrorsAreReported ==
  pc = "done" /\ use = "cross" =>
    /\ \A sid \in specIDs :
         Untouched(sid) => Unknown(sid, result, "cross_spec_3") =
           IF Cardinality(Loaded) > 1 THEN Unknown(sid, errs, "unknown") ELSE {}
    /\ \A e \in errs : e[1] = "unreadable" => e[2] \in written

(***************************************************************************)
(* LoadDependentInterfaces: unless a prd.md under the root kept it from    *)
(* looking, every spec that an untouched tasks.json declares as a          *)
(* dependency and whose own files are untouched and load is summarized,    *)
(* whatever else is broken, unknown or being written at the time.  One     *)
(* prd.md that cannot be parsed, of any spec, costs all the summaries.     *)
(***************************************************************************)
Latest(up) == \A d \in Dirs : disk[d].sid = disk[up].sid => d <= up

UpstreamsAreSummarized ==
  pc = "done" /\ use = "interfaces" =>
    /\ unparsed = {} =>
         \A d, up \in Dirs \ written :
           /\ disk[d].sid = result.of /\ disk[d].deps # Nil
           /\ disk[up].sid \in Range(disk[d].deps) /\ Latest(up) /\ Loads(disk[up])
           => up \in Range(result.summaries)
    /\ (\E d \in Dirs \ written : ~disk[d].prd) => result.summaries = <<>>

(***************************************************************************)
(* What spec-format.md and the comment on rule 5 say: a spec must name an  *)
(* actor from each upstream spec it depends on, and is reported otherwise. *)
(***************************************************************************)
ActorsAsDocumented ==
  pc = "done" /\ use = "cross" /\ Cardinality(Loaded) > 1 =>
    \A e \in Range(edges) : \A down \in specByID(e.from), up \in specByID(e.to) :
      <<"cross_spec_5", e.from, e.to>> \in result <=>
        up.actors # {} /\ up.actors \cap down.actors = {}

=============================================================================
