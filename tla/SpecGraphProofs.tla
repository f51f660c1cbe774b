-------------------------- MODULE SpecGraphProofs --------------------------
(***************************************************************************)
(* Theorems about SpecGraph for every set of directories and all that they *)
(* may hold and the author may write: types, the correctness of            *)
(* TopologicalSort, what spec validate --cross reports of unknown          *)
(* dependencies, and what LoadDependentInterfaces leaves out.              *)
(***************************************************************************)
EXTENDS SpecGraph, SequenceFacts, FiniteSetTheorems, TLAPS

-----------------------------------------------------------------------------
(***************************************************************************)
(* The edges between specs.                                                *)
(***************************************************************************)
LEMMA EdgesBetweenFinite ==
  ASSUME edges \in Seq(Edge), NEW n, NEW S
  PROVE  /\ IsFiniteSet(EdgesBetween(n, S)) /\ Cardinality(EdgesBetween(n, S)) \in Nat
         /\ Cardinality(EdgesBetween(n, S)) = 0 <=> EdgesBetween(n, S) = {}
<1>1. DOMAIN edges = 1..Len(edges) /\ Len(edges) \in Nat
  OBVIOUS
<1>2. IsFiniteSet(DOMAIN edges)
  BY <1>1, FS_Interval
<1>3. EdgesBetween(n, S) \subseteq DOMAIN edges
  BY DEF EdgesBetween
<1>4. IsFiniteSet(EdgesBetween(n, S))
  BY <1>2, <1>3, FS_Subset
<1> QED
  BY <1>4, FS_CardinalityType, FS_EmptySet

\* Taking one spec away takes its edges away.
LEMMA EdgesBetweenLess ==
  ASSUME edges \in Seq(Edge), NEW n, NEW S, NEW m \in S
  PROVE  Cardinality(EdgesBetween(n, S \ {m})) =
           Cardinality(EdgesBetween(n, S)) - Cardinality(EdgesBetween(n, {m}))
<1>1. EdgesBetween(n, S \ {m}) = EdgesBetween(n, S) \ EdgesBetween(n, {m})
  BY DEF EdgesBetween
<1>2. EdgesBetween(n, S) \cap EdgesBetween(n, {m}) = EdgesBetween(n, {m})
  BY DEF EdgesBetween
<1>3. IsFiniteSet(EdgesBetween(n, S)) /\ IsFiniteSet(EdgesBetween(n, {m}))
  BY EdgesBetweenFinite
<1> QED
  BY <1>1, <1>2, <1>3, FS_Difference

LEMMA NoEdgesBetween ==
  ASSUME NEW n, NEW S
  PROVE  EdgesBetween(n, S) = {} <=> \A e \in Range(edges) : e.from = n => e.to \notin S
BY DEF EdgesBetween, Range

LEMMA NodesOfEdges ==
  ASSUME edges \in Seq(Edge)
  PROVE  /\ \A e \in Range(edges) : e.from \in nodeSet /\ e.to \in nodeSet
         /\ nodeSet \subseteq Nat
<1>1. Range(edges) \subseteq Edge
  BY DEF Range
<1> QED
  BY <1>1 DEF nodeSet, Edge

-----------------------------------------------------------------------------
(***************************************************************************)
(* The invariant of TopologicalSort.  A count is the number of edges to    *)
(* the specs that are not in the order yet, the queue holds those of them  *)
(* whose count is zero, and no set of specs that all depend on one another *)
(* has a member in the order.                                              *)
(***************************************************************************)
Remaining == nodeSet \ Range(order)

Closed == {S \in SUBSET nodeSet : \A n \in S : \E e \in Range(edges) : e.from = n /\ e.to \in S}

Counts ==
  /\ degree \in [nodeSet -> Nat]
  /\ \A n \in nodeSet : degree[n] = Cardinality(EdgesBetween(n, Remaining))

Queue == queue = {n \in Remaining : degree[n] = 0}

Ordered ==
  /\ order \in Seq(nodeSet)
  /\ \A i, j \in DOMAIN order : order[i] = order[j] => i = j
  /\ \A S \in Closed : S \cap Range(order) = {}

\* What FinishSort has returned.
Reported ==
  result = IF Len(order) = Cardinality(nodeSet)
           THEN [order |-> order, cycle |-> {}]
           ELSE [order |-> <<>>, cycle |-> {n \in nodeSet : degree[n] > 0}]

Phases ==
  /\ pc = "load" => use = "cross"
  /\ pc = "discover" => use # "cross"
  /\ pc = "sort" => use = "sort"
  /\ pc = "summarize" => use = "interfaces"
  /\ pc \notin {"sort", "done"} \/ use # "sort" => order = <<>> /\ degree = <<>> /\ queue = {}
  /\ pc = "sort" => Counts /\ Queue
  /\ pc = "done" /\ use = "sort" => Counts /\ Queue /\ queue = {} /\ Reported

SortInv == TypeOK /\ Phases /\ Ordered /\ DependenciesFirst /\ OrderIsLeast

-----------------------------------------------------------------------------
(***************************************************************************)
(* Types.                                                                  *)
(***************************************************************************)
LEMMA TypeInit == Init => TypeOK
<1> SUFFICES ASSUME Init PROVE TypeOK
  OBVIOUS
<1>1. disk \in [Dirs -> SpecFiles] /\ written \subseteq Dirs
  BY GraphAssumption DEF Init
<1>2. use \in Uses /\ pc \in {"load", "discover"}
  BY DEF Init
<1>3. todo \subseteq Dirs /\ metas \subseteq Dirs /\ unparsed \subseteq Dirs
      /\ DOMAIN loaded \subseteq Dirs
  BY DEF Init
<1>4. edges \in Seq(Edge) /\ order \in Seq(Nat)
  BY DEF Init
<1>5. queue \subseteq DOMAIN degree /\ DOMAIN degree \subseteq nodeSet
      /\ degree \in [DOMAIN degree -> Nat]
  BY DEF Init
<1> QED
  BY <1>1, <1>2, <1>3, <1>4, <1>5 DEF TypeOK

\* What an author's write leaves alone: the ids, and the other directories.
LEMMA WriteKeeps ==
  ASSUME TypeOK, Write
  PROVE  \E d \in Dirs : /\ written' = written \cup {d}
                         /\ disk' \in [Dirs -> SpecFiles]
                         /\ \A e \in Dirs : disk'[e].sid = disk[e].sid
                         /\ \A e \in Dirs \ {d} : disk'[e] = disk[e]
<1>1. PICK d \in Dirs :
        /\ written' = written \cup {d}
        /\ \/ \E deps \in DepLists : disk' = [disk EXCEPT ![d].deps = deps]
           \/ \E prd \in BOOLEAN : disk' = [disk EXCEPT ![d].prd = prd]
           \/ disk' = [disk EXCEPT ![d].reqs = Nil]
  BY DEF Write
<1>2. disk \in [Dirs -> SpecFiles] /\ disk[d] \in SpecFiles
  BY DEF TypeOK
<1>3. PICK new \in SpecFiles : disk' = [disk EXCEPT ![d] = new] /\ new.sid = disk[d].sid
  <2>1. CASE \E deps \in DepLists : disk' = [disk EXCEPT ![d].deps = deps]
    <3>1. PICK deps \in DepLists : disk' = [disk EXCEPT ![d].deps = deps]
      BY <2>1
    <3>2. deps \in Seq(Nat) \cup {Nil}
      BY GraphAssumption
    <3>3. [disk[d] EXCEPT !.deps = deps] \in SpecFiles
      BY <1>2, <3>2 DEF SpecFiles
    <3> QED
      BY <1>2, <3>1, <3>3 DEF SpecFiles
  <2>2. CASE \E prd \in BOOLEAN : disk' = [disk EXCEPT ![d].prd = prd]
    <3>1. PICK prd \in BOOLEAN : disk' = [disk EXCEPT ![d].prd = prd]
      BY <2>2
    <3>2. [disk[d] EXCEPT !.prd = prd] \in SpecFiles
      BY <1>2 DEF SpecFiles
    <3> QED
      BY <1>2, <3>1, <3>2 DEF SpecFiles
  <2>3. CASE disk' = [disk EXCEPT ![d].reqs = Nil]
    <3>1. [disk[d] EXCEPT !.reqs = Nil] \in SpecFiles
      BY <1>2 DEF SpecFiles
    <3> QED
      BY <1>2, <2>3, <3>1 DEF SpecFiles
  <2> QED
    BY <1>1, <2>1, <2>2, <2>3
<1> QED
  BY <1>1, <1>2, <1>3

LEMMA EdgesOfType ==
  ASSUME TypeOK, NEW d \in Dirs, disk[d].deps # Nil
  PROVE  EdgesOf(disk[d]) \in Seq(Edge)
<1>1. disk[d] \in SpecFiles
  BY DEF TypeOK
<1>2. disk[d].sid \in Nat /\ disk[d].deps \in Seq(Nat)
  BY <1>1 DEF SpecFiles
<1> DEFINE n == Len(disk[d].deps)
<1>3. n \in Nat /\ DOMAIN disk[d].deps = 1..n
  BY <1>2
<1>4. EdgesOf(disk[d]) \in [1..n -> Edge]
  BY <1>2, <1>3 DEF EdgesOf, Edge
<1> HIDE DEF n
<1> QED
  BY <1>3, <1>4

\* A longer list of edges joins more specs.
LEMMA NodesGrow ==
  ASSUME edges \in Seq(Edge), NEW more \in Seq(Edge), edges' = edges \o more
  PROVE  edges' \in Seq(Edge) /\ nodeSet \subseteq nodeSet'
<1>1. edges' \in Seq(Edge) /\ Len(edges') = Len(edges) + Len(more)
      /\ \A i \in 1..Len(edges) : edges'[i] = edges[i]
  OBVIOUS
<1>2. DOMAIN edges = 1..Len(edges) /\ DOMAIN edges' = 1..Len(edges')
      /\ Len(edges) \in Nat /\ Len(more) \in Nat
  BY <1>1
<1>3. DOMAIN edges \subseteq DOMAIN edges'
  BY <1>1, <1>2
<1>4. Range(edges) \subseteq Range(edges')
  BY <1>1, <1>2, <1>3 DEF Range
<1> QED
  BY <1>1, <1>4 DEF nodeSet

-----------------------------------------------------------------------------
(***************************************************************************)
(* The steps that sort nothing leave the order empty.                      *)
(***************************************************************************)
LEMMA EmptyOrder ==
  ASSUME order = <<>> PROVE Ordered /\ DependenciesFirst /\ OrderIsLeast
<1>1. DOMAIN order = {} /\ order \in Seq(nodeSet)
  OBVIOUS
<1>2. Range(order) = {}
  BY <1>1 DEF Range
<1> QED
  BY <1>1, <1>2 DEF Ordered, DependenciesFirst, OrderIsLeast

LEMMA SortInit == Init => SortInv
<1> SUFFICES ASSUME Init PROVE SortInv
  OBVIOUS
<1>1. TypeOK
  BY TypeInit
<1>2. order = <<>>
  BY DEF Init
<1>3. Ordered /\ DependenciesFirst /\ OrderIsLeast
  BY <1>2, EmptyOrder
<1>4. Phases
  BY DEF Init, Phases
<1> QED
  BY <1>1, <1>3, <1>4 DEF SortInv

\* What a step before the sort, or on the way to another use, has to show.
LEMMA BeforeTheSort ==
  ASSUME SortInv, pc \notin {"sort", "done"}, UNCHANGED <<sorting, use>>,
         pc' \in {"load", "discover", "read", "summarize", "done"},
         pc' = "done" => use # "sort", pc' = "load" => pc = "load",
         pc' = "discover" => pc = "discover", pc' = "summarize" => use = "interfaces",
         disk' \in [Dirs -> SpecFiles], written' \subseteq Dirs,
         pc' = "summarize" => todo' \subseteq DOMAIN edges',
         pc' \in {"load", "discover", "read"} => todo' \subseteq Dirs,
         metas' \subseteq Dirs, unparsed' \subseteq Dirs,
         DOMAIN loaded' \subseteq Dirs, edges' \in Seq(Edge)
  PROVE  SortInv'
<1>1. order = <<>> /\ degree = <<>> /\ queue = {}
  BY DEF SortInv, Phases
<1>2. order' = <<>> /\ degree' = <<>> /\ queue' = {}
  BY <1>1 DEF sorting
<1>3. DOMAIN degree' = {} /\ degree' \in [DOMAIN degree' -> Nat] /\ order' \in Seq(Nat)
  BY <1>2
<1>4. TypeOK'
  BY <1>2, <1>3 DEF TypeOK, SortInv
<1>5. Phases'
  BY <1>2 DEF SortInv, Phases
<1>6. (Ordered /\ DependenciesFirst /\ OrderIsLeast)'
  <2>1. DOMAIN order' = {} /\ order' \in Seq(nodeSet')
    BY <1>2
  <2>2. Range(order') = {}
    BY <2>1 DEF Range
  <2> QED
    BY <2>1, <2>2 DEF Ordered, DependenciesFirst, OrderIsLeast
<1> QED
  BY <1>4, <1>5, <1>6 DEF SortInv

LEMMA ReadType ==
  ASSUME TypeOK, ReadNext PROVE edges' \in Seq(Edge) /\ todo' \subseteq Dirs
<1>1. PICK d \in todo : /\ todo' = todo \ {d}
                        /\ disk[d].deps = Nil => UNCHANGED edges
                        /\ disk[d].deps # Nil => edges' = edges \o EdgesOf(disk[d])
  BY DEF ReadNext
<1>2. d \in Dirs /\ edges \in Seq(Edge) /\ todo \subseteq Dirs
  BY DEF TypeOK, ReadNext
<1>3. CASE disk[d].deps = Nil
  BY <1>1, <1>2, <1>3
<1>4. CASE disk[d].deps # Nil
  <2>1. EdgesOf(disk[d]) \in Seq(Edge)
    BY <1>2, <1>4, EdgesOfType
  <2> QED
    BY <1>1, <1>2, <1>4, <2>1, NodesGrow
<1> QED
  BY <1>3, <1>4

LEMMA LoadType ==
  ASSUME TypeOK, LoadNext
  PROVE  todo' \subseteq Dirs /\ metas' \subseteq Dirs /\ DOMAIN loaded' \subseteq Dirs
<1>1. PICK d \in todo :
        /\ todo' = todo \ {d}
        /\ \/ /\ metas' = metas \cup {d}
              /\ loaded' = [e \in metas' |-> IF e = d THEN disk[d] ELSE loaded[e]]
           \/ UNCHANGED <<metas, loaded>>
  BY DEF LoadNext
<1> QED
  BY <1>1 DEF TypeOK, LoadNext

LEMMA DiscoverType ==
  ASSUME TypeOK, DiscoverNext
  PROVE  todo' \subseteq Dirs /\ metas' \subseteq Dirs /\ unparsed' \subseteq Dirs
<1>1. PICK d \in todo :
        /\ todo' = todo \ {d}
        /\ \/ metas' = metas \cup {d} /\ UNCHANGED unparsed
           \/ unparsed' = unparsed \cup {d} /\ UNCHANGED metas
  BY DEF DiscoverNext
<1>2. d \in Dirs
  BY DEF DiscoverNext, TypeOK
<1> QED
  BY <1>1, <1>2 DEF TypeOK, DiscoverNext

LEMMA OtherSteps ==
  ASSUME SortInv,
         \/ DiscoverNext \/ DiscoverDone \/ GiveUp \/ LoadNext \/ LoadDone \/ ReadNext
         \/ CheckCross \/ StartSummaries \/ Summarize \/ FinishSummaries \/ Write
  PROVE  SortInv'
<1> USE DEF author
<1>0. TypeOK /\ Phases
  BY DEF SortInv
<1>1. CASE DiscoverNext
  BY <1>0, <1>1, DiscoverType, BeforeTheSort DEF DiscoverNext, TypeOK
<1>2. CASE DiscoverDone
  BY <1>0, <1>2, BeforeTheSort DEF DiscoverDone, TypeOK
<1>3. CASE GiveUp
  BY <1>0, <1>3, BeforeTheSort DEF GiveUp, TypeOK
<1>4. CASE LoadNext
  BY <1>0, <1>4, LoadType, BeforeTheSort DEF LoadNext, TypeOK
<1>5. CASE LoadDone
  BY <1>0, <1>5, BeforeTheSort DEF LoadDone, TypeOK, Phases
<1>6. CASE ReadNext
  BY <1>0, <1>6, ReadType, BeforeTheSort DEF ReadNext, TypeOK
<1>7. CASE CheckCross
  BY <1>0, <1>7, BeforeTheSort DEF CheckCross, TypeOK
<1>8. CASE StartSummaries
  <2>1. todo' \subseteq DOMAIN edges
    BY <1>8 DEF StartSummaries, Dependencies
  <2> QED
    BY <1>0, <1>8, <2>1, BeforeTheSort DEF StartSummaries, TypeOK
<1>9. CASE Summarize
  <2>1. todo' \subseteq todo /\ UNCHANGED <<author, use, pc, metas, unparsed, loaded, edges, sorting>>
        /\ pc = "summarize"
    BY <1>9 DEF Summarize
  <2> QED
    BY <1>0, <2>1, BeforeTheSort DEF TypeOK, Phases
<1>10. CASE FinishSummaries
  BY <1>0, <1>10, BeforeTheSort DEF FinishSummaries, TypeOK, Phases
<1>11. CASE Write
  <2>1. disk' \in [Dirs -> SpecFiles] /\ written' \subseteq Dirs
    BY <1>0, <1>11, WriteKeeps DEF TypeOK
  <2>2. pc \in {"load", "discover", "read", "summarize"}
        /\ UNCHANGED <<use, pc, todo, metas, unparsed, loaded, edges, sorting>>
    BY <1>11 DEF Write
  <2> QED
    BY <1>0, <2>1, <2>2, BeforeTheSort DEF TypeOK, Phases
<1> QED
  BY <1>1, <1>2, <1>3, <1>4, <1>5, <1>6, <1>7, <1>8, <1>9, <1>10, <1>11

-----------------------------------------------------------------------------
(***************************************************************************)
(* The sort begins: every edge counts, nothing is ordered.                 *)
(***************************************************************************)
LEMMA StartSortStep ==
  ASSUME SortInv, StartSort PROVE SortInv'
<1>1. /\ UNCHANGED <<disk, written, use, todo, metas, unparsed, loaded, edges, order, result>>
      /\ pc = "read" /\ use = "sort" /\ pc' = "sort"
      /\ degree' = [n \in nodeSet |-> Cardinality(EdgesBetween(n, nodeSet))]
      /\ queue' = {n \in nodeSet : degree'[n] = 0}
  BY DEF StartSort, author
<1>2. TypeOK /\ order = <<>> /\ edges \in Seq(Edge)
  BY <1>1 DEF SortInv, Phases, TypeOK
<1>3. nodeSet' = nodeSet /\ (\A n, S : EdgesBetween(n, S)' = EdgesBetween(n, S))
  BY <1>1 DEF nodeSet, EdgesBetween
<1>4. Remaining' = nodeSet
  <2>1. order' = <<>> /\ DOMAIN order' = {}
    BY <1>1, <1>2
  <2>2. Range(order') = {}
    BY <2>1 DEF Range
  <2> QED
    BY <1>3, <2>2 DEF Remaining
<1>5. degree' \in [nodeSet -> Nat]
  BY <1>1, <1>2, EdgesBetweenFinite
<1>6. Counts'
  <2>1. degree' \in [nodeSet' -> Nat]
    BY <1>3, <1>5
  <2>2. ASSUME NEW n \in nodeSet' PROVE degree'[n] = Cardinality(EdgesBetween(n, Remaining))'
    BY <1>1, <1>3, <1>4 DEF EdgesBetween
  <2> QED
    BY <2>1, <2>2 DEF Counts
<1>7. Queue'
  BY <1>1, <1>4 DEF Queue
<1>8. Phases'
  BY <1>1, <1>6, <1>7 DEF Phases
<1>9. TypeOK'
  BY <1>1, <1>2, <1>3, <1>5 DEF TypeOK
<1>10. (Ordered /\ DependenciesFirst /\ OrderIsLeast)'
  <2>1. order' = <<>> /\ DOMAIN order' = {} /\ order' \in Seq(nodeSet')
    BY <1>1, <1>2
  <2>2. Range(order') = {}
    BY <2>1 DEF Range
  <2> QED
    BY <2>1, <2>2 DEF Ordered, DependenciesFirst, OrderIsLeast
<1> QED
  BY <1>8, <1>9, <1>10 DEF SortInv

-----------------------------------------------------------------------------
(***************************************************************************)
(* A spec is taken from the queue.  What it depends on is in the order.    *)
(***************************************************************************)
LEMMA QueueIsReady ==
  ASSUME SortInv, Counts, Queue, NEW node \in queue
  PROVE  /\ node \in nodeSet /\ node \notin Range(order)
         /\ \A e \in Range(edges) : e.from = node => e.to \in Range(order)
<1>1. edges \in Seq(Edge)
  BY DEF SortInv, TypeOK
<1>2. node \in Remaining /\ degree[node] = 0 /\ node \in nodeSet
  BY DEF Queue, Remaining
<1>3. Cardinality(EdgesBetween(node, Remaining)) = 0
  BY <1>2 DEF Counts
<1>4. EdgesBetween(node, Remaining) = {}
  BY <1>1, <1>3, EdgesBetweenFinite
<1>5. \A e \in Range(edges) : e.from = node => e.to \notin Remaining
  BY <1>4, NoEdgesBetween
<1> QED
  BY <1>1, <1>2, <1>5, NodesOfEdges DEF Remaining

\* What is in the order has no edge left.
LEMMA OrderedAreDone ==
  ASSUME SortInv, Counts, NEW n \in Range(order) PROVE n \in nodeSet /\ degree[n] = 0
<1>1. edges \in Seq(Edge) /\ order \in Seq(nodeSet)
  BY DEF SortInv, TypeOK, Ordered
<1>2. n \in nodeSet
  BY <1>1 DEF Range
<1>3. PICK i \in DOMAIN order : order[i] = n
  BY DEF Range
<1>4. ASSUME NEW e \in Range(edges), e.from = n PROVE e.to \in Range(order)
  <2>1. DOMAIN order = 1..Len(order) /\ Len(order) \in Nat
    BY <1>1
  <2>2. PICK j \in 1..(i - 1) : order[j] = e.to
    BY <1>3, <1>4 DEF SortInv, DependenciesFirst
  <2>3. j \in DOMAIN order
    BY <2>1, <2>2
  <2> QED
    BY <2>2, <2>3 DEF Range
<1>5. EdgesBetween(n, Remaining) = {}
  BY <1>4, NoEdgesBetween DEF Remaining
<1> QED
  BY <1>1, <1>2, <1>5, EdgesBetweenFinite DEF Counts

\* The queue holds what may come next.
LEMMA QueueIsAllowed ==
  ASSUME SortInv, Counts, Queue PROVE queue = {n \in nodeSet : Allowed(n, Range(order))}
<1>1. edges \in Seq(Edge)
  BY DEF SortInv, TypeOK
<1>2. ASSUME NEW n \in queue PROVE n \in nodeSet /\ Allowed(n, Range(order))
  BY <1>2, QueueIsReady DEF Allowed
<1>3. ASSUME NEW n \in nodeSet, Allowed(n, Range(order)) PROVE n \in queue
  <2>1. n \in Remaining
    BY <1>3 DEF Allowed, Remaining
  <2>2. EdgesBetween(n, Remaining) = {}
    BY <1>3, NoEdgesBetween DEF Allowed, Remaining
  <2>3. degree[n] = 0
    BY <1>1, <2>2, EdgesBetweenFinite DEF Counts
  <2> QED
    BY <2>1, <2>3 DEF Queue
<1> QED
  BY <1>2, <1>3

LEMMA TakeNodeStep ==
  ASSUME SortInv, TakeNode PROVE SortInv'
<1>0. TypeOK /\ Counts /\ Queue /\ Ordered /\ pc = "sort" /\ use = "sort"
  BY DEF SortInv, Phases, TakeNode
<1>1. PICK node \in queue :
        /\ First(node, queue)
        /\ order' = Append(order, node)
        /\ degree' = [n \in DOMAIN degree |-> degree[n] - Cardinality(EdgesBetween(n, {node}))]
        /\ queue' = (queue \ {node}) \cup {n \in DOMAIN degree : degree[n] > 0 /\ degree'[n] = 0}
  BY DEF TakeNode
<1>2. /\ UNCHANGED <<disk, written, use, pc, todo, metas, unparsed, loaded, edges, errs, result>>
      /\ pc' = "sort" /\ use' = "sort"
  BY <1>0 DEF TakeNode, author
<1>3. /\ node \in nodeSet /\ node \notin Range(order)
      /\ \A e \in Range(edges) : e.from = node => e.to \in Range(order)
  BY <1>0, QueueIsReady
<1>4. edges \in Seq(Edge) /\ order \in Seq(nodeSet) /\ nodeSet \subseteq Nat
  BY <1>0, NodesOfEdges DEF TypeOK, Ordered
<1>5. /\ order' \in Seq(nodeSet)
      /\ Range(order') = Range(order) \cup {node}
      /\ Len(order') = Len(order) + 1
      /\ \A i \in 1..Len(order) : order'[i] = order[i]
      /\ order'[Len(order) + 1] = node
  BY <1>1, <1>3, <1>4, RangeOfAppend
<1>6. Len(order) \in Nat /\ DOMAIN order = 1..Len(order) /\ DOMAIN order' = 1..(Len(order) + 1)
  BY <1>4, <1>5
<1>7. nodeSet' = nodeSet /\ Remaining' = Remaining \ {node} /\ node \in Remaining
  BY <1>2, <1>3, <1>5 DEF nodeSet, Remaining
<1>8. ASSUME NEW n \in nodeSet
      PROVE  /\ degree'[n] = Cardinality(EdgesBetween(n, Remaining \ {node}))
             /\ degree'[n] \in Nat
             /\ degree[n] = 0 => degree'[n] = 0
  <2>1. degree'[n] = degree[n] - Cardinality(EdgesBetween(n, {node}))
    BY <1>0, <1>1, <1>8 DEF Counts
  <2>2. degree[n] = Cardinality(EdgesBetween(n, Remaining)) /\ degree[n] \in Nat
    BY <1>0, <1>8 DEF Counts
  <2>3. degree'[n] = Cardinality(EdgesBetween(n, Remaining \ {node}))
    BY <2>1, <2>2, <1>4, <1>7, EdgesBetweenLess
  <2>4. degree'[n] \in Nat /\ Cardinality(EdgesBetween(n, {node})) \in Nat
    BY <2>3, <1>4, EdgesBetweenFinite
  <2> QED
    BY <2>1, <2>2, <2>3, <2>4
<1>9. DOMAIN degree = nodeSet
  BY <1>0 DEF Counts
<1>10. degree' \in [nodeSet -> Nat]
  <2>1. DOMAIN degree' = nodeSet /\ degree' = [n \in nodeSet |-> degree'[n]]
    BY <1>1, <1>9
  <2> QED
    BY <2>1, <1>8
<1>11. Counts'
  <2>1. ASSUME NEW n \in nodeSet' PROVE degree'[n] = Cardinality(EdgesBetween(n, Remaining))'
    BY <1>2, <1>7, <1>8 DEF EdgesBetween
  <2> QED
    BY <2>1, <1>7, <1>10 DEF Counts
<1>12. Queue'
  <2>1. ASSUME NEW n \in queue' PROVE n \in Remaining' /\ degree'[n] = 0
    <3>1. CASE n \in queue \ {node}
      BY <3>1, <1>0, <1>7, <1>8 DEF Queue, Remaining
    <3>2. CASE n \in nodeSet /\ degree[n] > 0 /\ degree'[n] = 0
      <4>1. degree[n] # 0 /\ degree[node] = 0
        BY <3>2, <1>0, <1>1 DEF Queue, Counts
      <4>2. n \notin Range(order) /\ n # node
        BY <4>1, <1>0, OrderedAreDone
      <4> QED
        BY <3>2, <4>2, <1>7 DEF Remaining
    <3> QED
      BY <2>1, <3>1, <3>2, <1>1, <1>9
  <2>2. ASSUME NEW n \in Remaining', degree'[n] = 0 PROVE n \in queue'
    <3>1. n \in Remaining /\ n # node /\ n \in nodeSet /\ degree[n] \in Nat
      BY <2>2, <1>0, <1>7 DEF Remaining, Counts
    <3>2. CASE degree[n] = 0
      BY <3>1, <3>2, <1>0, <1>1 DEF Queue
    <3>3. CASE degree[n] > 0
      BY <3>1, <3>3, <2>2, <1>1, <1>9
    <3> QED
      BY <3>1, <3>2, <3>3
  <2> QED
    BY <2>1, <2>2 DEF Queue
<1>13. Ordered'
  <2>1. \A i, j \in DOMAIN order' : order'[i] = order'[j] => i = j
    <3>1. \A i \in 1..Len(order) : order'[i] \in Range(order)
      BY <1>5, <1>6 DEF Range
    <3>2. \A i, j \in 1..Len(order) : order'[i] = order'[j] => i = j
      BY <1>0, <1>5, <1>6 DEF Ordered
    <3> QED
      BY <3>1, <3>2, <1>3, <1>5, <1>6
  <2>2. ASSUME NEW S \in Closed PROVE node \notin S
    BY <2>2, <1>0, <1>3 DEF Closed, Ordered
  <2>3. Closed' = Closed
    BY <1>2, <1>7 DEF Closed
  <2> QED
    BY <2>1, <2>2, <2>3, <1>0, <1>5, <1>7 DEF Ordered
<1>14. DependenciesFirst'
  <2> SUFFICES ASSUME NEW i \in 1..(Len(order) + 1), NEW e \in Range(edges), e.from = order'[i]
               PROVE  \E j \in 1..(i - 1) : order'[j] = e.to
    BY <1>2, <1>6 DEF DependenciesFirst
  <2>1. CASE i \in 1..Len(order)
    <3>1. PICK j \in 1..(i - 1) : order[j] = e.to
      BY <2>1, <1>5, <1>6 DEF SortInv, DependenciesFirst
    <3> QED
      BY <3>1, <2>1, <1>5, <1>6
  <2>2. CASE i = Len(order) + 1
    <3>1. e.to \in Range(order)
      BY <2>2, <1>3, <1>5
    <3>2. PICK j \in 1..Len(order) : order[j] = e.to
      BY <3>1, <1>6 DEF Range
    <3> QED
      BY <3>2, <2>2, <1>5, <1>6
  <2> QED
    BY <2>1, <2>2, <1>6
<1>15. OrderIsLeast'
  <2>0. \A n, done : Allowed(n, done)' <=> Allowed(n, done)
    BY <1>2, <1>7 DEF Allowed
  <2> SUFFICES ASSUME NEW i \in 1..(Len(order) + 1)
               PROVE  First(order'[i], {n \in nodeSet : Allowed(n, {order'[j] : j \in 1..(i - 1)})})
    BY <2>0, <1>2, <1>6, <1>7 DEF OrderIsLeast, Allowed
  <2>1. i - 1 <= Len(order) /\ i - 1 \in Nat
    BY <1>6
  <2>2. {order'[j] : j \in 1..(i - 1)} = {order[j] : j \in 1..(i - 1)}
    BY <2>1, <1>5, <1>6
  <2>3. CASE i \in 1..Len(order)
    BY <2>2, <2>3, <1>5, <1>6 DEF SortInv, OrderIsLeast
  <2>4. CASE i = Len(order) + 1
    <3>1. {order[j] : j \in 1..(i - 1)} = Range(order)
      BY <2>4, <1>6 DEF Range
    <3>2. queue = {n \in nodeSet : Allowed(n, Range(order))}
      BY <1>0, QueueIsAllowed
    <3> QED
      BY <3>1, <3>2, <2>2, <2>4, <1>1, <1>5
  <2> QED
    BY <2>3, <2>4, <1>6
<1>16. TypeOK'
  <2>1. order' \in Seq(Nat)
    <3>1. order \in Seq(Nat) /\ node \in Nat
      BY <1>0, <1>3, <1>4 DEF TypeOK
    <3> QED
      BY <3>1, <1>1
  <2>2. queue' \subseteq DOMAIN degree' /\ DOMAIN degree' \subseteq nodeSet'
        /\ degree' \in [DOMAIN degree' -> Nat]
    BY <1>7, <1>10, <1>12 DEF Queue, Remaining
  <2> QED
    BY <2>1, <2>2, <1>0, <1>2 DEF TypeOK
<1>17. Phases'
  BY <1>2, <1>11, <1>12 DEF Phases
<1> QED
  BY <1>13, <1>14, <1>15, <1>16, <1>17 DEF SortInv

-----------------------------------------------------------------------------
(***************************************************************************)
(* The sort ends, and what it reports.                                     *)
(***************************************************************************)
LEMMA FinishSortStep ==
  ASSUME SortInv, FinishSort PROVE SortInv'
<1>1. /\ UNCHANGED <<disk, written, use, todo, metas, unparsed, loaded, edges, order, degree, queue>>
      /\ pc = "sort" /\ pc' = "done" /\ queue = {}
      /\ result' = IF Len(order) = Cardinality(nodeSet)
                   THEN [order |-> order, cycle |-> {}]
                   ELSE [order |-> <<>>, cycle |-> {n \in nodeSet : degree[n] > 0}]
  BY DEF FinishSort, author, sorting
<1>2. TypeOK /\ Phases /\ Ordered /\ DependenciesFirst /\ OrderIsLeast
  BY DEF SortInv
<1>3. use = "sort" /\ Counts /\ Queue
  BY <1>1, <1>2 DEF Phases
<1>4. nodeSet' = nodeSet /\ Remaining' = Remaining
  BY <1>1 DEF nodeSet, Remaining
<1>5. Counts'
  BY <1>1, <1>3, <1>4 DEF Counts, EdgesBetween
<1>6. Queue' /\ queue' = {}
  BY <1>1, <1>3, <1>4 DEF Queue
<1>7. Reported'
  BY <1>1, <1>4 DEF Reported
<1>8. Phases'
  BY <1>1, <1>3, <1>5, <1>6, <1>7 DEF Phases
<1>9. TypeOK'
  BY <1>1, <1>2, <1>4 DEF TypeOK
<1>10. Ordered'
  BY <1>1, <1>2, <1>4 DEF Ordered, Closed
<1>11. DependenciesFirst'
  BY <1>1, <1>2 DEF DependenciesFirst
<1>12. OrderIsLeast'
  BY <1>1, <1>2, <1>4 DEF OrderIsLeast, Allowed
<1> QED
  BY <1>8, <1>9, <1>10, <1>11, <1>12 DEF SortInv

\* What is left when the queue is empty is what lies on a cycle or behind one.
LEMMA LeftOverIsStuck ==
  ASSUME SortInv, Counts, Queue, queue = {}
  PROVE  /\ Stuck = Remaining
         /\ {n \in nodeSet : degree[n] > 0} = Remaining
<1>1. edges \in Seq(Edge) /\ Ordered
  BY DEF SortInv, TypeOK
<1>2. \A n \in Remaining : degree[n] # 0 /\ degree[n] \in Nat /\ n \in nodeSet
  BY DEF Queue, Counts, Remaining
<1>3. ASSUME NEW n \in Remaining
      PROVE  \E e \in Range(edges) : e.from = n /\ e.to \in Remaining
  <2>1. EdgesBetween(n, Remaining) # {}
    BY <1>1, <1>2, <1>3, EdgesBetweenFinite DEF Counts
  <2> QED
    BY <2>1, NoEdgesBetween
<1>4. Remaining \in SUBSET nodeSet
  BY DEF Remaining
<1>5. Remaining \in Closed
  BY <1>3, <1>4 DEF Closed
<1>6. Stuck = UNION Closed
  BY DEF Stuck, Closed
<1>7. \A S \in Closed : S \subseteq Remaining
  BY <1>1 DEF Ordered, Closed, Remaining
<1>8. ASSUME NEW n \in nodeSet, degree[n] > 0 PROVE n \in Remaining
  <2>1. degree[n] # 0
    BY <1>8 DEF Counts
  <2> QED
    BY <2>1, <1>8, OrderedAreDone DEF Remaining
<1> QED
  BY <1>2, <1>5, <1>6, <1>7, <1>8

LEMMA NodesFinite ==
  ASSUME edges \in Seq(Edge) PROVE IsFiniteSet(nodeSet)
<1>1. DOMAIN edges = 1..Len(edges) /\ Len(edges) \in Nat
  OBVIOUS
<1>2. IsFiniteSet(DOMAIN edges)
  BY <1>1, FS_Interval
<1> DEFINE From == {edges[i].from : i \in DOMAIN edges}
           To   == {edges[i].to : i \in DOMAIN edges}
<1>3. IsFiniteSet(From)
  <2> DEFINE f == [i \in DOMAIN edges |-> edges[i].from]
  <2>1. f \in Surjection(DOMAIN edges, From)
    BY DEF Surjection
  <2> QED
    BY <1>2, <2>1, FS_Surjection
<1>4. IsFiniteSet(To)
  <2> DEFINE f == [i \in DOMAIN edges |-> edges[i].to]
  <2>1. f \in Surjection(DOMAIN edges, To)
    BY DEF Surjection
  <2> QED
    BY <1>2, <2>1, FS_Surjection
<1>5. nodeSet = From \cup To
  BY DEF nodeSet, Range
<1> QED
  BY <1>3, <1>4, <1>5, FS_Union

LEMMA SortedIsReported == SortInv => CyclesAreReported
<1> SUFFICES ASSUME SortInv, pc = "done", use = "sort"
             PROVE  /\ result.cycle = Stuck
                    /\ Stuck = {} => /\ Range(result.order) = nodeSet
                                     /\ Len(result.order) = Cardinality(nodeSet)
  BY DEF CyclesAreReported
<1>1. Counts /\ Queue /\ queue = {} /\ Reported /\ Ordered /\ edges \in Seq(Edge)
  BY DEF SortInv, Phases, TypeOK
<1>2. Stuck = Remaining /\ {n \in nodeSet : degree[n] > 0} = Remaining
  BY <1>1, LeftOverIsStuck
<1>3. IsFiniteSet(nodeSet) /\ Range(order) \subseteq nodeSet
  BY <1>1, NodesFinite DEF Ordered, Range
<1>4. Cardinality(Range(order)) = Len(order)
  BY <1>1, LengthOfRange DEF Ordered
<1>5. CASE Len(order) = Cardinality(nodeSet)
  <2>1. Range(order) = nodeSet
    BY <1>3, <1>4, <1>5, FS_Subset
  <2>2. result = [order |-> order, cycle |-> {}]
    BY <1>1, <1>5 DEF Reported
  <2>3. Remaining = {}
    BY <2>1 DEF Remaining
  <2> QED
    BY <1>2, <1>5, <2>1, <2>2, <2>3
<1>6. CASE Len(order) # Cardinality(nodeSet)
  <2>1. Range(order) # nodeSet
    BY <1>4, <1>6
  <2>2. Remaining # {}
    BY <2>1, <1>3 DEF Remaining
  <2>3. result.cycle = {n \in nodeSet : degree[n] > 0}
    BY <1>1, <1>6 DEF Reported
  <2> QED
    BY <1>2, <2>2, <2>3
<1> QED
  BY <1>5, <1>6

-----------------------------------------------------------------------------
(***************************************************************************)
(* Every step keeps the invariant.                                         *)
(***************************************************************************)
LEMMA SortStep == SortInv /\ [Next]_vars => SortInv'
<1> SUFFICES ASSUME SortInv, [Next]_vars PROVE SortInv'
  OBVIOUS
<1>1. CASE \/ DiscoverNext \/ DiscoverDone \/ GiveUp \/ LoadNext \/ LoadDone \/ ReadNext
           \/ CheckCross \/ StartSummaries \/ Summarize \/ FinishSummaries \/ Write
  BY <1>1, OtherSteps
<1>2. CASE StartSort
  BY <1>2, StartSortStep
<1>3. CASE TakeNode
  BY <1>3, TakeNodeStep
<1>4. CASE FinishSort
  BY <1>4, FinishSortStep
<1>5. CASE UNCHANGED vars
  <2>1. nodeSet' = nodeSet /\ Remaining' = Remaining
    BY <1>5 DEF vars, nodeSet, Remaining
  <2>2. TypeOK'
    BY <1>5, <2>1 DEF vars, TypeOK, SortInv
  <2>3. Counts' = Counts /\ Queue' = Queue /\ Reported' = Reported
    BY <1>5, <2>1 DEF vars, Counts, Queue, Reported, EdgesBetween
  <2>4. Phases'
    BY <1>5, <2>3 DEF vars, Phases, SortInv
  <2>5. Ordered' /\ DependenciesFirst'
    BY <1>5, <2>1 DEF vars, Ordered, Closed, DependenciesFirst, SortInv
  <2>6. OrderIsLeast'
    BY <1>5, <2>1 DEF vars, OrderIsLeast, Allowed, SortInv
  <2> QED
    BY <2>2, <2>4, <2>5, <2>6 DEF SortInv
<1> QED
  BY <1>1, <1>2, <1>3, <1>4, <1>5 DEF Next

LEMMA SortInvariance == Spec => []SortInv
<1> QED
  BY SortInit, SortStep, PTL DEF Spec

(***************************************************************************)
(* The types of SpecGraph, whatever the files hold and the author writes.  *)
(***************************************************************************)
THEOREM GraphTypes == Spec => []TypeOK
<1>1. SortInv => TypeOK
  BY DEF SortInv
<1> QED
  BY <1>1, SortInvariance, PTL

(***************************************************************************)
(* TopologicalSort puts every spec after all it depends on, for every      *)
(* graph, repeated dependencies and unknown ids included.                  *)
(***************************************************************************)
THEOREM SortPutsDependenciesFirst == Spec => []DependenciesFirst
<1>1. SortInv => DependenciesFirst
  BY DEF SortInv
<1> QED
  BY <1>1, SortInvariance, PTL

(***************************************************************************)
(* TopologicalSort is complete: it reports a cycle exactly when there is   *)
(* one, names the specs on cycles or behind them, and otherwise orders all.*)
(***************************************************************************)
THEOREM SortReportsCycles == Spec => []CyclesAreReported
<1> QED
  BY SortInvariance, SortedIsReported, PTL

(***************************************************************************)
(* The order is the least of those that respect the dependencies, so that  *)
(* it depends on the graph alone.                                          *)
(***************************************************************************)
THEOREM SortIsLeast == Spec => []OrderIsLeast
<1>1. SortInv => OrderIsLeast
  BY DEF SortInv
<1> QED
  BY <1>1, SortInvariance, PTL

-----------------------------------------------------------------------------
(***************************************************************************)
(* spec validate --cross.  What was loaded is what the graph is built      *)
(* from, but for the directories written to; and of a spec that was not    *)
(* written to, the errors of the graph are the unknown ids in the files    *)
(* that have been read.                                                    *)
(***************************************************************************)
Agrees ==
  /\ metas = Loaded
  /\ \A d \in Loaded : loaded[d].sid = disk[d].sid
  /\ \A d \in Loaded \ written : loaded[d].deps = disk[d].deps /\ disk[d].deps # Nil
  /\ pc = "load" => errs = {}
  /\ pc = "read" => todo \subseteq metas
  /\ pc = "done" => todo = {}

ErrorsOf ==
  /\ \A e \in errs : \/ e[1] = "unreadable" /\ e[2] \in written
                     \/ \E sid, id : e = <<"unknown", sid, id>>
  /\ pc \in {"read", "done"} =>
       \A sid, id : Untouched(sid) =>
         (<<"unknown", sid, id>> \in errs <=>
            \E d \in metas \ todo : disk[d].sid = sid /\ id \in Range(disk[d].deps) \ knownSpecs)

CrossInv == (use = "cross" => Agrees /\ ErrorsOf) /\ GraphErrorsAreReported

LEMMA CrossInit == Init => CrossInv
<1> SUFFICES ASSUME Init PROVE CrossInv
  OBVIOUS
<1>1. DOMAIN loaded = {} /\ errs = {} /\ pc # "done" /\ metas = {}
  BY DEF Init
<1>2. use = "cross" => pc = "load"
  BY DEF Init
<1> QED
  BY <1>1, <1>2 DEF CrossInv, Agrees, ErrorsOf, GraphErrorsAreReported, Loaded

LEMMA LoadNextAgrees ==
  ASSUME Agrees, LoadNext PROVE Agrees' /\ ErrorsOf'
<1>1. PICK d \in todo :
        IF Loads(disk[d])
        THEN metas' = metas \cup {d} /\ loaded' = [e \in metas' |-> IF e = d THEN disk[d] ELSE loaded[e]]
        ELSE UNCHANGED <<metas, loaded>>
  BY DEF LoadNext
<1>2. pc = "load" /\ UNCHANGED <<disk, written, pc, errs>>
  BY DEF LoadNext, author
<1>3. errs' = {}
  BY <1>2 DEF Agrees
<1>4. Agrees'
  <2>1. CASE Loads(disk[d])
    BY <1>1, <1>2, <1>3, <2>1 DEF Agrees, Loaded, Loads
  <2>2. CASE ~Loads(disk[d])
    BY <1>1, <1>2, <1>3, <2>2 DEF Agrees, Loaded
  <2> QED
    BY <2>1, <2>2
<1>5. ErrorsOf'
  BY <1>2, <1>3 DEF ErrorsOf
<1> QED
  BY <1>4, <1>5

LEMMA ReadNextAgrees ==
  ASSUME Agrees, ErrorsOf, ReadNext PROVE Agrees' /\ ErrorsOf'
<1>1. PICK d \in todo :
        /\ todo' = todo \ {d}
        /\ IF disk[d].deps = Nil
           THEN errs' = errs \cup {<<"unreadable", d>>}
           ELSE errs' = errs \cup {<<"unknown", disk[d].sid, id>> : id \in Range(disk[d].deps) \ knownSpecs}
  BY DEF ReadNext
<1>2. pc = "read" /\ UNCHANGED <<disk, written, pc, metas, loaded>>
  BY DEF ReadNext, author
<1>3. d \in metas /\ metas = Loaded /\ (d \notin written => disk[d].deps # Nil)
  BY <1>2 DEF Agrees
<1>4. Agrees'
  BY <1>1, <1>2 DEF Agrees, Loaded
<1>5. knownSpecs' = knownSpecs /\ (\A sid : Untouched(sid)' = Untouched(sid))
  BY <1>2 DEF knownSpecs, Untouched
<1>6. ASSUME NEW e \in errs' PROVE \/ e[1] = "unreadable" /\ e[2] \in written'
                                  \/ \E sid, id : e = <<"unknown", sid, id>>
  <2>1. CASE e \in errs
    BY <1>2, <2>1 DEF ErrorsOf
  <2>2. CASE e \notin errs
    BY <1>1, <1>2, <1>3, <2>2
  <2> QED
    BY <2>1, <2>2
<1>7. ASSUME NEW sid, NEW id, Untouched(sid)
      PROVE  <<"unknown", sid, id>> \in errs' <=>
               \E m \in metas \ todo' : disk[m].sid = sid /\ id \in Range(disk[m].deps) \ knownSpecs
  <2>1. <<"unknown", sid, id>> \in errs <=>
          \E m \in metas \ todo : disk[m].sid = sid /\ id \in Range(disk[m].deps) \ knownSpecs
    BY <1>2, <1>7 DEF ErrorsOf
  <2>2. disk[d].sid = sid => disk[d].deps # Nil
    BY <1>3, <1>7 DEF Untouched
  <2>3. <<"unknown", sid, id>> \in errs' <=>
          \/ <<"unknown", sid, id>> \in errs
          \/ disk[d].sid = sid /\ id \in Range(disk[d].deps) \ knownSpecs
    <3>1. CASE disk[d].deps = Nil
      BY <1>1, <2>2, <3>1
    <3>2. CASE disk[d].deps # Nil
      BY <1>1, <3>2
    <3> QED
      BY <3>1, <3>2
  <2>4. metas \ todo' = (metas \ todo) \cup {d}
    BY <1>1, <1>3
  <2> QED
    BY <2>1, <2>3, <2>4
<1>8. ErrorsOf'
  BY <1>2, <1>5, <1>6, <1>7 DEF ErrorsOf
<1> QED
  BY <1>4, <1>8

\* A write disturbs what is known of the written spec only.
LEMMA WriteAgrees ==
  ASSUME TypeOK, Agrees, ErrorsOf, Write PROVE Agrees' /\ ErrorsOf'
<1>1. PICK w \in Dirs : /\ written' = written \cup {w}
                       /\ \A e \in Dirs : disk'[e].sid = disk[e].sid
                       /\ \A d \in Dirs \ {w} : disk'[d] = disk[d]
  BY WriteKeeps
<1>2. UNCHANGED <<pc, todo, metas, loaded, errs>> /\ written \subseteq Dirs /\ Loaded \subseteq Dirs
  BY DEF Write, TypeOK, Loaded
<1>3. Agrees'
  BY <1>1, <1>2 DEF Agrees, Loaded
<1>4. knownSpecs' = knownSpecs
  BY <1>1, <1>2 DEF knownSpecs, Agrees
<1>5. ASSUME NEW sid, Untouched(sid)'
      PROVE  Untouched(sid) /\ \A m \in metas : disk[m].sid = sid => disk'[m] = disk[m]
  BY <1>1, <1>2, <1>5 DEF Untouched, Agrees
<1>6. ASSUME NEW sid, NEW id, Untouched(sid)', pc \in {"read", "done"}
      PROVE  <<"unknown", sid, id>> \in errs' <=>
               \E m \in metas' \ todo' : disk'[m].sid = sid /\ id \in Range(disk'[m].deps) \ knownSpecs'
  <2>1. <<"unknown", sid, id>> \in errs <=>
          \E m \in metas \ todo : disk[m].sid = sid /\ id \in Range(disk[m].deps) \ knownSpecs
    BY <1>5, <1>6 DEF ErrorsOf
  <2>2. \A m \in metas : /\ disk'[m].sid = disk[m].sid
                         /\ disk[m].sid = sid => disk'[m] = disk[m]
    BY <1>1, <1>2, <1>5, <1>6 DEF Agrees
  <2> QED
    BY <1>2, <1>4, <2>1, <2>2
<1>7. \A e \in errs' : \/ e[1] = "unreadable" /\ e[2] \in written'
                      \/ \E sid, id : e = <<"unknown", sid, id>>
  BY <1>1, <1>2 DEF ErrorsOf
<1>8. ErrorsOf'
  BY <1>2, <1>6, <1>7 DEF ErrorsOf
<1> QED
  BY <1>3, <1>8

\* Only rule 3 makes errors of its kind.
LEMMA RuleThree ==
  ASSUME NEW e \in ValidateCrossSpec \cup validateCrossSpecs, e[1] = "cross_spec_3"
  PROVE  e \in UnknownDependencies /\ ~(Cardinality(Loaded) <= 1)
<1>1. \A x \in GlossaryConflicts : x[1] = "glossary_conflict"
  BY DEF GlossaryConflicts
<1>2. \A x \in SymbolConflicts : x[1] = "cross_spec_1"
  BY DEF SymbolConflicts
<1>3. \A x \in ContractConflicts : x[1] = "cross_spec_4"
  BY DEF ContractConflicts
<1>4. \A x \in MissingActors : x[1] = "cross_spec_5"
  BY DEF MissingActors
<1>5. \A x \in validateCrossSpecs : x[1] = "duplicate_id"
  BY DEF validateCrossSpecs
<1> QED
  BY <1>1, <1>2, <1>3, <1>4, <1>5 DEF ValidateCrossSpec

LEMMA CheckReports ==
  ASSUME TypeOK, Agrees, ErrorsOf, CheckCross, NEW sid, Untouched(sid)
  PROVE  Unknown(sid, result', "cross_spec_3") =
           IF Cardinality(Loaded) > 1 THEN Unknown(sid, errs, "unknown") ELSE {}
<1>1. result' = ValidateCrossSpec \cup validateCrossSpecs /\ todo = {} /\ pc = "read"
  BY DEF CheckCross
<1>2. Cardinality(Loaded) \in Nat
  <2>1. Loaded \subseteq Dirs /\ IsFiniteSet(Dirs)
    BY GraphAssumption DEF TypeOK, Loaded
  <2> QED
    BY <2>1, FS_Subset, FS_CardinalityType
<1>3. CASE ~(Cardinality(Loaded) > 1)
  <2>1. \A e \in result' : e[1] # "cross_spec_3"
    BY <1>1, <1>2, <1>3, RuleThree
  <2> QED
    BY <1>3, <2>1 DEF Unknown
<1>4. CASE Cardinality(Loaded) > 1
  <2>1. \A e \in result' : e[1] = "cross_spec_3" <=> e \in UnknownDependencies
    <3>1. \A e \in UnknownDependencies : e[1] = "cross_spec_3"
      BY DEF UnknownDependencies
    <3> QED
      BY <1>1, <3>1, RuleThree
  <2>2. UnknownDependencies \subseteq result'
    BY <1>1, <1>2, <1>4 DEF ValidateCrossSpec
  <2>3. knownSpecs = {loaded[m].sid : m \in Loaded}
    BY DEF knownSpecs, Agrees
  <2>4. ASSUME NEW id
        PROVE  <<"cross_spec_3", sid, id>> \in UnknownDependencies <=>
                 \E m \in metas : disk[m].sid = sid /\ id \in Range(disk[m].deps) \ knownSpecs
    <3>1. \A m \in Loaded : /\ loaded[m].sid = disk[m].sid
                            /\ disk[m].sid = sid => loaded[m].deps = disk[m].deps
      BY DEF Agrees, Untouched
    <3>2. <<"cross_spec_3", sid, id>> \in UnknownDependencies <=>
            \E m \in Loaded : loaded[m].sid = sid /\ id \in Range(loaded[m].deps) \ knownSpecs
      BY <2>3 DEF UnknownDependencies
    <3> QED
      BY <3>1, <3>2 DEF Agrees
  <2>5. ASSUME NEW id
        PROVE  <<"unknown", sid, id>> \in errs <=> <<"cross_spec_3", sid, id>> \in UnknownDependencies
    BY <1>1, <2>4 DEF ErrorsOf
  <2>6. ASSUME NEW id
        PROVE  id \in Unknown(sid, result', "cross_spec_3") <=>
                 <<"cross_spec_3", sid, id>> \in UnknownDependencies
    <3>1. \A e \in UnknownDependencies : e = <<"cross_spec_3", e[2], e[3]>>
      BY DEF UnknownDependencies
    <3>2. <<"cross_spec_3", sid, id>>[1] = "cross_spec_3" /\ <<"cross_spec_3", sid, id>>[2] = sid
          /\ <<"cross_spec_3", sid, id>>[3] = id
      OBVIOUS
    <3> QED
      BY <2>1, <2>2, <3>1, <3>2 DEF Unknown
  <2>7. ASSUME NEW id
        PROVE  id \in Unknown(sid, errs, "unknown") <=> <<"unknown", sid, id>> \in errs
    <3>1. \A e \in errs : e[1] = "unknown" => e = <<"unknown", e[2], e[3]>>
      BY DEF ErrorsOf
    <3>2. <<"unknown", sid, id>>[1] = "unknown" /\ <<"unknown", sid, id>>[2] = sid
          /\ <<"unknown", sid, id>>[3] = id
      OBVIOUS
    <3> QED
      BY <3>1, <3>2 DEF Unknown
  <2> QED
    BY <1>4, <2>5, <2>6, <2>7
<1> QED
  BY <1>3, <1>4

LEMMA CrossStep == SortInv /\ CrossInv /\ [Next]_vars => CrossInv'
<1> SUFFICES ASSUME SortInv, CrossInv, [Next]_vars PROVE CrossInv'
  OBVIOUS
<1> USE DEF author, sorting
<1>1. TypeOK /\ Phases
  BY DEF SortInv
<1>2. CASE LoadNext
  <2>1. UNCHANGED <<use, pc>> /\ pc = "load" /\ use = "cross"
    BY <1>1, <1>2 DEF LoadNext, Phases
  <2>2. Agrees' /\ ErrorsOf'
    BY <1>2, <2>1, LoadNextAgrees DEF CrossInv
  <2> QED
    BY <2>1, <2>2 DEF CrossInv, GraphErrorsAreReported
<1>3. CASE LoadDone
  <2>1. /\ UNCHANGED <<disk, written, use, metas, loaded, errs>> /\ use = "cross"
        /\ pc = "load" /\ todo' = metas
        /\ IF metas = {} THEN pc' = "done" /\ result' = {} ELSE pc' = "read" /\ UNCHANGED result
    BY <1>1, <1>3 DEF LoadDone, Phases
  <2>2. Agrees /\ errs = {} /\ errs' = {} /\ metas' = metas
    BY <2>1 DEF CrossInv, Agrees
  <2>3. Agrees'
    BY <2>1, <2>2 DEF Agrees, Loaded
  <2>4. ErrorsOf'
    BY <2>1, <2>2 DEF ErrorsOf
  <2>5. pc' = "done" => GraphErrorsAreReported'
    <3> SUFFICES ASSUME metas = {}, NEW sid
                 PROVE  Unknown(sid, result', "cross_spec_3") =
                          IF Cardinality(Loaded') > 1 THEN Unknown(sid, errs', "unknown") ELSE {}
      BY <2>1, <2>2 DEF GraphErrorsAreReported
    <3>1. result' = {} /\ errs' = {}
      BY <2>1, <2>2
    <3> QED
      BY <3>1 DEF Unknown
  <2> QED
    BY <2>1, <2>3, <2>4, <2>5 DEF CrossInv, GraphErrorsAreReported
<1>4. CASE ReadNext
  <2>1. UNCHANGED <<use, pc>> /\ pc = "read"
    BY <1>4 DEF ReadNext
  <2>2. use = "cross" => Agrees' /\ ErrorsOf'
    BY <1>4, <2>1, ReadNextAgrees DEF CrossInv
  <2> QED
    BY <2>1, <2>2 DEF CrossInv, GraphErrorsAreReported
<1>5. CASE CheckCross
  <2>1. /\ UNCHANGED <<disk, written, use, todo, metas, loaded, errs>>
        /\ use = "cross" /\ pc = "read" /\ pc' = "done" /\ todo = {}
    BY <1>5 DEF CheckCross
  <2>2. Agrees /\ ErrorsOf
    BY <2>1 DEF CrossInv
  <2>3. Agrees'
    BY <2>1, <2>2 DEF Agrees, Loaded
  <2>4. ErrorsOf'
    BY <2>1, <2>2 DEF ErrorsOf, Untouched, knownSpecs
  <2>5. GraphErrorsAreReported'
    <3>1. Loaded' = Loaded /\ specIDs' = specIDs /\ (\A sid : Untouched(sid)' = Untouched(sid))
      BY <2>1 DEF Loaded, specIDs, Untouched
    <3>2. ASSUME NEW sid, Untouched(sid)
          PROVE  Unknown(sid, result', "cross_spec_3") =
                   IF Cardinality(Loaded) > 1 THEN Unknown(sid, errs, "unknown") ELSE {}
      BY <1>1, <1>5, <2>2, <3>2, CheckReports
    <3>3. \A e \in errs : e[1] = "unreadable" => e[2] \in written
      BY <2>2 DEF ErrorsOf
    <3>4. \A sid : Unknown(sid, errs, "unknown")' = Unknown(sid, errs, "unknown")
                  /\ Unknown(sid, result, "cross_spec_3")' = Unknown(sid, result', "cross_spec_3")
      BY <2>1 DEF Unknown
    <3> QED
      BY <2>1, <3>1, <3>2, <3>3, <3>4 DEF GraphErrorsAreReported
  <2> QED
    BY <2>3, <2>4, <2>5 DEF CrossInv
<1>6. CASE \/ DiscoverNext \/ DiscoverDone \/ GiveUp \/ StartSort \/ TakeNode \/ FinishSort
           \/ StartSummaries \/ Summarize \/ FinishSummaries
  <2>1. use # "cross" /\ use' = use
    BY <1>1, <1>6 DEF DiscoverNext, DiscoverDone, GiveUp, StartSort, TakeNode, FinishSort,
                      StartSummaries, Summarize, FinishSummaries, Phases
  <2> QED
    BY <2>1 DEF CrossInv, GraphErrorsAreReported
<1>7. CASE Write
  <2>1. UNCHANGED <<use, pc>> /\ pc # "done"
    BY <1>7 DEF Write
  <2>2. use = "cross" => Agrees' /\ ErrorsOf'
    BY <1>1, <1>7, WriteAgrees DEF CrossInv
  <2> QED
    BY <2>1, <2>2 DEF CrossInv, GraphErrorsAreReported
<1>8. CASE UNCHANGED vars
  <2>1. /\ UNCHANGED <<disk, written, use, pc, todo, metas, loaded, errs, result>>
        /\ Loaded' = Loaded /\ knownSpecs' = knownSpecs /\ specIDs' = specIDs
        /\ \A sid : Untouched(sid)' = Untouched(sid)
    BY <1>8 DEF vars, Loaded, knownSpecs, specIDs, Untouched
  <2>2. Agrees' = Agrees
    BY <2>1 DEF Agrees
  <2>3. ErrorsOf' = ErrorsOf
    BY <2>1 DEF ErrorsOf
  <2>4. GraphErrorsAreReported' = GraphErrorsAreReported
    BY <2>1 DEF GraphErrorsAreReported, Unknown
  <2> QED
    BY <2>1, <2>2, <2>3, <2>4 DEF CrossInv
<1> QED
  BY <1>2, <1>3, <1>4, <1>5, <1>6, <1>7, <1>8 DEF Next

(***************************************************************************)
(* Of every spec that nobody writes to while spec validate --cross runs,   *)
(* rule 3 reports the unknown dependencies that the error thrown away by   *)
(* the command names, and no others, when two specs or more are loaded;    *)
(* with a single loaded spec it reports none of them.                      *)
(***************************************************************************)
THEOREM GraphErrorsReachTheUser == Spec => []GraphErrorsAreReported
<1>1. CrossInv => GraphErrorsAreReported
  BY DEF CrossInv
<1>2. Init => CrossInv
  BY CrossInit
<1> QED
  BY <1>1, <1>2, CrossStep, SortInvariance, PTL DEF Spec

-----------------------------------------------------------------------------
(***************************************************************************)
(* LoadDependentInterfaces.  Discovery sees every directory, the graph has *)
(* an edge for every dependency in a file that was read and not written to,*)
(* and the edges passed over have given their summaries.                   *)
(***************************************************************************)
Discovered ==
  /\ pc = "discover" => Dirs \subseteq todo \cup metas \cup unparsed
  /\ pc = "discover" => \A d \in Dirs \ (written \cup todo) : disk[d].prd \/ d \in unparsed
  /\ pc \in {"read", "summarize"} =>
       unparsed = {} /\ metas = Dirs /\ \A d \in Dirs \ written : disk[d].prd

EdgeTo(from, to) == \E e \in Range(edges) : e.from = from /\ e.to = to

EdgesFrom(d) == disk[d].deps # Nil => \A id \in Range(disk[d].deps) : EdgeTo(disk[d].sid, id)

Drawn ==
  /\ pc = "read" => \A d \in Dirs \ (written \cup todo) : EdgesFrom(d)
  /\ pc = "summarize" => \A d \in Dirs \ written : EdgesFrom(d)

Upstream(up, id) == disk[up].sid = id /\ Latest(up) /\ Loads(disk[up])

Summarized ==
  pc = "summarize" =>
    /\ result \in [of : Nat, summaries : Seq(Dirs)]
    /\ \A i \in Dependencies(result.of) \ todo : \A up \in Dirs \ written :
         Upstream(up, edges[i].to) => up \in Range(result.summaries)

SummaryInv == (use = "interfaces" => Discovered /\ Drawn /\ Summarized) /\ UpstreamsAreSummarized

LEMMA SummaryInit == Init => SummaryInv
<1> SUFFICES ASSUME Init PROVE SummaryInv
  OBVIOUS
<1>1. todo = Dirs /\ pc \in {"load", "discover"}
  BY DEF Init
<1> QED
  BY <1>1 DEF SummaryInv, Discovered, Drawn, Summarized, UpstreamsAreSummarized

LEMMA DiscoverNextKeeps ==
  ASSUME Discovered, DiscoverNext PROVE Discovered'
<1>1. PICK d \in todo :
        /\ todo' = todo \ {d}
        /\ IF disk[d].prd THEN metas' = metas \cup {d} /\ UNCHANGED unparsed
                          ELSE unparsed' = unparsed \cup {d} /\ UNCHANGED metas
  BY DEF DiscoverNext
<1>2. pc = "discover" /\ UNCHANGED <<disk, written, pc>>
  BY DEF DiscoverNext, author
<1> QED
  BY <1>1, <1>2 DEF Discovered

LEMMA RangeOfConcat ==
  ASSUME NEW S, NEW p \in Seq(S), NEW q \in Seq(S)
  PROVE  Range(p) \subseteq Range(p \o q) /\ Range(q) \subseteq Range(p \o q)
<1>1. /\ Len(p) \in Nat /\ Len(q) \in Nat /\ Len(p \o q) = Len(p) + Len(q)
      /\ DOMAIN p = 1..Len(p) /\ DOMAIN q = 1..Len(q) /\ DOMAIN (p \o q) = 1..(Len(p) + Len(q))
  OBVIOUS
<1>2. ASSUME NEW i \in DOMAIN p PROVE p[i] \in Range(p \o q)
  <2>1. i \in DOMAIN (p \o q) /\ (p \o q)[i] = p[i]
    BY <1>1
  <2> QED
    BY <2>1 DEF Range
<1>3. ASSUME NEW i \in DOMAIN q PROVE q[i] \in Range(p \o q)
  <2>1. Len(p) + i \in DOMAIN (p \o q) /\ (p \o q)[Len(p) + i] = q[i]
    BY <1>1
  <2> QED
    BY <2>1 DEF Range
<1> QED
  BY <1>2, <1>3 DEF Range

\* Edges that are drawn stay.
LEMMA ReadNextDraws ==
  ASSUME TypeOK, Drawn, ReadNext PROVE Drawn'
<1>1. PICK d \in todo :
        /\ todo' = todo \ {d}
        /\ IF disk[d].deps = Nil THEN UNCHANGED edges
                                 ELSE edges' = edges \o EdgesOf(disk[d])
  BY DEF ReadNext
<1>2. pc = "read" /\ UNCHANGED <<disk, written, pc>> /\ d \in Dirs /\ edges \in Seq(Edge)
  BY DEF ReadNext, author, TypeOK
<1>3. Range(edges) \subseteq Range(edges')
  <2>1. CASE disk[d].deps = Nil
    BY <1>1, <2>1
  <2>2. CASE disk[d].deps # Nil
    BY <1>1, <1>2, <2>2, EdgesOfType, RangeOfConcat
  <2> QED
    BY <2>1, <2>2
<1>4. ASSUME disk[d].deps # Nil, NEW id \in Range(disk[d].deps) PROVE EdgeTo(disk[d].sid, id)'
  <2>1. EdgesOf(disk[d]) \in Seq(Edge) /\ edges' = edges \o EdgesOf(disk[d])
    BY <1>1, <1>2, <1>4, EdgesOfType
  <2>2. [from |-> disk[d].sid, to |-> id] \in Range(EdgesOf(disk[d]))
    BY <1>4 DEF EdgesOf, Range
  <2>3. [from |-> disk[d].sid, to |-> id] \in Range(edges')
    BY <1>2, <2>1, <2>2, RangeOfConcat
  <2> QED
    BY <1>2, <2>3 DEF EdgeTo
<1>5. ASSUME NEW e \in Dirs \ (written \cup todo') PROVE EdgesFrom(e)'
  <2>1. CASE e = d
    BY <1>2, <1>4, <2>1 DEF EdgesFrom
  <2>2. CASE e # d
    <3>1. EdgesFrom(e)
      BY <1>1, <1>2, <1>5, <2>2 DEF Drawn
    <3> QED
      BY <1>2, <1>3, <3>1 DEF EdgesFrom, EdgeTo
  <2> QED
    BY <2>1, <2>2
<1> QED
  BY <1>2, <1>5 DEF Drawn

LEMMA SummarizeKeeps ==
  ASSUME TypeOK, Discovered, Summarized, Summarize PROVE Summarized'
<1>1. PICK i \in todo :
        /\ todo' = todo \ {i}
        /\ LET found == {d \in metaByID(edges[i].to) : Loads(disk[d])}
           IN  IF found = {} THEN UNCHANGED result
               ELSE \E d \in found : result' = [result EXCEPT !.summaries = Append(@, d)]
  BY DEF Summarize
<1>2. pc = "summarize" /\ UNCHANGED <<disk, written, pc, metas, edges>> /\ metas = Dirs
  BY DEF Summarize, author, Discovered
<1> DEFINE found == {d \in metaByID(edges[i].to) : Loads(disk[d])}
<1>3. result \in [of : Nat, summaries : Seq(Dirs)]
  BY <1>2 DEF Summarized
<1>4. found \subseteq Dirs
  BY <1>2 DEF metaByID
<1>5. /\ result' \in [of : Nat, summaries : Seq(Dirs)] /\ result'.of = result.of
      /\ Range(result.summaries) \subseteq Range(result'.summaries)
      /\ found # {} => \E d \in found : d \in Range(result'.summaries)
  <2>1. CASE found = {}
    BY <1>1, <1>3, <2>1
  <2>2. CASE found # {}
    <3>1. PICK d \in found : result' = [result EXCEPT !.summaries = Append(@, d)]
      BY <1>1, <2>2
    <3> HIDE DEF found
    <3>2. d \in Dirs /\ result.summaries \in Seq(Dirs)
      BY <1>3, <1>4
    <3>3. Append(result.summaries, d) \in Seq(Dirs)
          /\ Range(Append(result.summaries, d)) = Range(result.summaries) \cup {d}
      BY <3>2, RangeOfAppend
    <3>4. result' = [of |-> result.of, summaries |-> Append(result.summaries, d)]
      BY <1>3, <3>1
    <3> QED
      BY <1>3, <3>3, <3>4
  <2> QED
    BY <2>1, <2>2
<1>6. ASSUME NEW up \in Dirs \ written, Upstream(up, edges[i].to)
      PROVE  up \in Range(result'.summaries)
  <2>1. up \in found
    BY <1>2, <1>6 DEF Upstream, Latest, metaByID
  <2>2. \A d \in found : d = up
    <3> SUFFICES ASSUME NEW d \in found PROVE d = up
      OBVIOUS
    <3>1. d <= up /\ up <= d /\ d \in Nat /\ up \in Nat
      BY <1>2, <1>4, <1>6, GraphAssumption DEF Upstream, Latest, metaByID
    <3> QED
      BY <3>1
  <2> QED
    BY <1>5, <2>1, <2>2
<1>7. ASSUME NEW j \in Dependencies(result.of) \ todo', NEW up \in Dirs \ written,
             Upstream(up, edges[j].to)
      PROVE  up \in Range(result'.summaries)
  <2>1. CASE j = i
    BY <1>6, <1>7, <2>1
  <2>2. CASE j # i
    <3>1. j \in Dependencies(result.of) \ todo
      BY <1>1, <1>7, <2>2
    <3>2. up \in Range(result.summaries)
      BY <1>2, <1>7, <3>1 DEF Summarized
    <3> QED
      BY <1>5, <3>2
  <2> QED
    BY <2>1, <2>2
<1>8. Dependencies(result.of)' = Dependencies(result.of)
  BY <1>2, <1>5 DEF Dependencies
<1>9. \A up, id : Upstream(up, id)' = Upstream(up, id)
  BY <1>2 DEF Upstream, Latest
<1> QED
  BY <1>2, <1>5, <1>7, <1>8, <1>9 DEF Summarized

\* At the end the edges of the spec have all been followed.
LEMMA FinishSummarizes ==
  ASSUME Discovered, Drawn, Summarized, FinishSummaries PROVE UpstreamsAreSummarized'
<1>1. UNCHANGED <<disk, written, use, unparsed, result>> /\ pc = "summarize" /\ todo = {}
  BY DEF FinishSummaries, author
<1>2. ASSUME NEW d \in Dirs \ written, NEW up \in Dirs \ written,
             disk[d].sid = result.of, disk[d].deps # Nil,
             disk[up].sid \in Range(disk[d].deps), Latest(up), Loads(disk[up])
      PROVE  up \in Range(result.summaries)
  <2>1. EdgeTo(result.of, disk[up].sid)
    BY <1>1, <1>2 DEF Drawn, EdgesFrom
  <2>2. PICK i \in DOMAIN edges : edges[i].from = result.of /\ edges[i].to = disk[up].sid
    BY <2>1 DEF EdgeTo, Range
  <2>3. i \in Dependencies(result.of) \ todo
    BY <1>1, <2>2 DEF Dependencies
  <2>4. Upstream(up, edges[i].to)
    BY <1>2, <2>2 DEF Upstream
  <2> QED
    BY <1>1, <2>3, <2>4 DEF Summarized
<1>3. \A d \in Dirs \ written : disk[d].prd
  BY <1>1 DEF Discovered
<1>4. \A up : Latest(up)' = Latest(up)
  BY <1>1 DEF Latest
<1> QED
  BY <1>1, <1>2, <1>3, <1>4 DEF UpstreamsAreSummarized

LEMMA WriteSummaries ==
  ASSUME TypeOK, Discovered, Drawn, Summarized, Write
  PROVE  Discovered' /\ Drawn' /\ Summarized'
<1>1. PICK w \in Dirs : /\ written' = written \cup {w}
                       /\ \A e \in Dirs : disk'[e].sid = disk[e].sid
                       /\ \A d \in Dirs \ {w} : disk'[d] = disk[d]
  BY WriteKeeps
<1>2. UNCHANGED <<pc, todo, metas, unparsed, edges, result>>
  BY DEF Write
<1>3. Discovered'
  BY <1>1, <1>2 DEF Discovered
<1>4. \A d \in Dirs \ written' : EdgesFrom(d)' = EdgesFrom(d)
  BY <1>1, <1>2 DEF EdgesFrom, EdgeTo
<1>5. Drawn'
  BY <1>1, <1>2, <1>4 DEF Drawn
<1>6. \A up \in Dirs \ written' : \A id : Upstream(up, id)' = Upstream(up, id)
  BY <1>1 DEF Upstream, Latest
<1>7. Dependencies(result.of)' = Dependencies(result.of)
  BY <1>2 DEF Dependencies
<1>8. Summarized'
  BY <1>1, <1>2, <1>6, <1>7 DEF Summarized
<1> QED
  BY <1>3, <1>5, <1>8

LEMMA SummaryStep == SortInv /\ SummaryInv /\ [Next]_vars => SummaryInv'
<1> SUFFICES ASSUME SortInv, SummaryInv, [Next]_vars PROVE SummaryInv'
  OBVIOUS
<1> USE DEF author, sorting
<1>1. TypeOK /\ Phases
  BY DEF SortInv
<1>2. CASE DiscoverNext
  <2>1. pc' = "discover" /\ use' = use
    BY <1>2 DEF DiscoverNext
  <2>2. use = "interfaces" => Discovered'
    BY <1>2, DiscoverNextKeeps DEF SummaryInv
  <2> QED
    BY <2>1, <2>2 DEF SummaryInv, Drawn, Summarized, UpstreamsAreSummarized
<1>3. CASE DiscoverDone
  <2>1. /\ UNCHANGED <<disk, written, use, metas, unparsed, edges>>
        /\ pc = "discover" /\ pc' = "read" /\ todo = {} /\ todo' = metas
        /\ use = "interfaces" => unparsed = {}
    BY <1>3 DEF DiscoverDone
  <2>2. use = "interfaces" => Discovered' /\ metas = Dirs
    BY <1>1, <2>1 DEF SummaryInv, Discovered, TypeOK
  <2>3. use = "interfaces" => Drawn'
    BY <2>1, <2>2 DEF Drawn
  <2> QED
    BY <2>1, <2>2, <2>3 DEF SummaryInv, Summarized, UpstreamsAreSummarized
<1>4. CASE GiveUp
  <2>1. PICK id \in specIDs : result' = [of |-> id, summaries |-> <<>>]
    BY <1>4 DEF GiveUp
  <2>2. pc' = "done" /\ unparsed' = unparsed /\ unparsed # {} /\ result'.summaries = <<>>
    BY <1>4, <2>1 DEF GiveUp
  <2> QED
    BY <2>2 DEF SummaryInv, Discovered, Drawn, Summarized, UpstreamsAreSummarized
<1>5. CASE ReadNext
  <2>1. UNCHANGED <<disk, written, use, pc, metas, unparsed>> /\ pc = "read"
    BY <1>5 DEF ReadNext
  <2>2. use = "interfaces" => Discovered' /\ Drawn'
    BY <1>1, <1>5, <2>1, ReadNextDraws DEF SummaryInv, Discovered
  <2> QED
    BY <2>1, <2>2 DEF SummaryInv, Summarized, UpstreamsAreSummarized
<1>6. CASE StartSummaries
  <2>1. PICK id \in specIDs : result' = [of |-> id, summaries |-> <<>>] /\ todo' = Dependencies(id)
    BY <1>6 DEF StartSummaries
  <2>2. /\ UNCHANGED <<disk, written, use, metas, unparsed, edges>>
        /\ pc = "read" /\ pc' = "summarize" /\ todo = {} /\ use = "interfaces"
    BY <1>6 DEF StartSummaries
  <2>3. Discovered'
    BY <2>2 DEF SummaryInv, Discovered
  <2>4. Drawn'
    BY <2>2 DEF SummaryInv, Drawn, EdgesFrom, EdgeTo
  <2>5. id \in Nat
    BY <1>1 DEF specIDs, TypeOK, SpecFiles
  <2>6. result' \in [of : Nat, summaries : Seq(Dirs)] /\ todo' = Dependencies(result.of)'
    BY <2>1, <2>2, <2>5 DEF Dependencies
  <2> QED
    BY <2>2, <2>3, <2>4, <2>6 DEF SummaryInv, Summarized, UpstreamsAreSummarized
<1>7. CASE Summarize
  <2>1. UNCHANGED <<disk, written, use, pc, metas, unparsed, edges>> /\ pc = "summarize"
    BY <1>7 DEF Summarize
  <2>2. use = "interfaces"
    BY <1>1, <2>1 DEF Phases
  <2>3. Summarized'
    BY <1>1, <1>7, <2>2, SummarizeKeeps DEF SummaryInv
  <2>4. Discovered' /\ Drawn'
    BY <2>1, <2>2 DEF SummaryInv, Discovered, Drawn, EdgesFrom, EdgeTo
  <2> QED
    BY <2>1, <2>3, <2>4 DEF SummaryInv, UpstreamsAreSummarized
<1>8. CASE FinishSummaries
  <2>1. pc = "summarize" /\ pc' = "done"
    BY <1>8 DEF FinishSummaries
  <2>2. UpstreamsAreSummarized'
    BY <1>1, <1>8, <2>1, FinishSummarizes DEF SummaryInv, Phases
  <2> QED
    BY <2>1, <2>2 DEF SummaryInv, Discovered, Drawn, Summarized
<1>9. CASE LoadNext \/ LoadDone \/ CheckCross \/ StartSort \/ TakeNode \/ FinishSort
  <2>1. use # "interfaces" /\ use' = use
    BY <1>1, <1>9 DEF LoadNext, LoadDone, CheckCross, StartSort, TakeNode, FinishSort, Phases
  <2> QED
    BY <2>1 DEF SummaryInv, UpstreamsAreSummarized
<1>10. CASE Write
  <2>1. UNCHANGED <<use, pc>> /\ pc # "done"
    BY <1>10 DEF Write
  <2>2. use = "interfaces" => Discovered' /\ Drawn' /\ Summarized'
    BY <1>1, <1>10, WriteSummaries DEF SummaryInv
  <2> QED
    BY <2>1, <2>2 DEF SummaryInv, UpstreamsAreSummarized
<1>11. CASE UNCHANGED vars
  <2>1. UNCHANGED <<disk, written, use, pc, todo, metas, unparsed, edges, result>>
    BY <1>11 DEF vars
  <2>2. Discovered' = Discovered
    BY <2>1 DEF Discovered
  <2>3. Drawn' = Drawn
    BY <2>1 DEF Drawn, EdgesFrom, EdgeTo
  <2>4. Summarized' = Summarized
    BY <2>1 DEF Summarized, Dependencies, Upstream, Latest
  <2>5. UpstreamsAreSummarized' = UpstreamsAreSummarized
    BY <2>1 DEF UpstreamsAreSummarized, Latest
  <2> QED
    BY <2>1, <2>2, <2>3, <2>4, <2>5 DEF SummaryInv
<1> QED
  BY <1>2, <1>3, <1>4, <1>5, <1>6, <1>7, <1>8, <1>9, <1>10, <1>11 DEF Next

(***************************************************************************)
(* LoadDependentInterfaces skips what is broken, unknown or being written  *)
(* and nothing else, for all directories and files; but a prd.md that      *)
(* cannot be parsed, of any spec, leaves the caller with nothing.          *)
(***************************************************************************)
THEOREM InterfacesAreComplete == Spec => []UpstreamsAreSummarized
<1>1. SummaryInv => UpstreamsAreSummarized
  BY DEF SummaryInv
<1>2. Init => SummaryInv
  BY SummaryInit
<1> QED
  BY <1>1, <1>2, SummaryStep, SortInvariance, PTL DEF Spec
=============================================================================
