-------------------------------- MODULE Waves ---------------------------------
(* WaveGraph (internal/adaptive/wave.go): a graph of operations built node by   *)
(* node and edge by edge, the waves it is dispatched in, and its critical path. *)
(* Identifiers are integers, so that sorting them is sorting.                   *)
EXTENDS Integers, Sequences, FiniteSets, SequencesExt

CONSTANTS NodeIDs,    \* identifiers of nodes
          NodeForms,  \* [cost, group (0: none)]
          MaxEdges    \* bound on the edges

VARIABLE wave   \* WaveGraph: [nodes (id -> form), edges]; every use of the insertion order
                \* of the nodes sorts it first

NoNode == 0   \* no node: identifiers are positive

WaveInit == wave = [nodes |-> <<>>, edges |-> <<>>]

AddNode(id, form) ==
    wave' = [wave EXCEPT !.nodes = [i \in DOMAIN @ \cup {id} |-> IF i = id THEN form ELSE @[i]]]

AddEdge(from, to) ==
    /\ Len(wave.edges) < MaxEdges
    /\ from \in DOMAIN wave.nodes /\ to \in DOMAIN wave.nodes
    /\ wave' = [wave EXCEPT !.edges = Append(@, <<from, to>>)]

WaveNext ==
    \/ \E id \in NodeIDs, form \in NodeForms : AddNode(id, form)
    \/ \E from, to \in NodeIDs : AddEdge(from, to)

-------------------------------------------------------------------------------
(* Kahn's algorithm: as many steps as there are nodes; a step takes the first   *)
(* of the ready nodes and releases its successors.                              *)
Least(S) == CHOOSE x \in S : \A y \in S : x <= y
Ids == DOMAIN wave.nodes
Indegree(to) == Len(SelectSeq(wave.edges, LAMBDA e : e[2] = to))
Multiplicity(from, to) == Len(SelectSeq(wave.edges, LAMBDA e : e = <<from, to>>))

KahnStart ==
    [ready |-> {i \in Ids : Indegree(i) = 0}, done |-> 0,
     indeg |-> [i \in Ids |-> Indegree(i)], level |-> [i \in Ids |-> 0]]

KahnStep(s, n) ==
    IF s.ready = {} THEN s
    ELSE LET id == Least(s.ready)
             indeg == [i \in Ids |-> s.indeg[i] - Multiplicity(id, i)]
             succ == {i \in Ids : Multiplicity(id, i) > 0}
         IN  [ready |-> (s.ready \ {id}) \cup {i \in succ : indeg[i] = 0}, done |-> s.done + 1,
              indeg |-> indeg,
              level |-> [i \in Ids |-> IF i \in succ /\ s.level[id] + 1 > s.level[i]
                                       THEN s.level[id] + 1 ELSE s.level[i]]]

Kahn == FoldLeft(KahnStep, KahnStart, SetToSeq(Ids))

IsDAG == Kahn.done = Cardinality(Ids)
topoLevels == Kahn.level

(* The waves: the nodes of each level that has any, with their fusion groups.   *)
WavesOf ==
    LET level == topoLevels
        at(l) == {i \in Ids : level[i] = l}
        groups(l) == {{i \in at(l) : wave.nodes[i].group = g} :
                        g \in {wave.nodes[i].group : i \in at(l)} \ {0}}
    IN  [l \in {level[i] : i \in Ids} |-> [nodes |-> at(l), groups |-> groups(l)]]

-------------------------------------------------------------------------------
(* CriticalPath: nodes by level and identifier; a node passes its distance on   *)
(* to a successor that had less.                                                *)
ByLevel ==
    LET level == topoLevels IN
    SetToSortSeq(Ids, LAMBDA a, b : level[a] < level[b] \/ (level[a] = level[b] /\ a < b))

(* Mutant: the cost of the node itself is not passed on.                        *)
RelaxCountsItself(s, id) ==
    LET dist == s.incoming[id] + wave.nodes[id].cost
        gains(i) == Multiplicity(id, i) > 0 /\ s.incoming[id] >= s.incoming[i]
    IN  [incoming |-> [i \in Ids |-> IF gains(i) THEN s.incoming[id] ELSE s.incoming[i]],
         pred |-> [i \in Ids |-> IF gains(i) THEN id ELSE s.pred[i]],
         best |-> IF s.best = NoNode \/ dist > s.far THEN id ELSE s.best,
         far |-> IF s.best = NoNode \/ dist > s.far THEN dist ELSE s.far]

Relax(s, id) ==
    LET dist == s.incoming[id] + wave.nodes[id].cost
        gains(i) == Multiplicity(id, i) > 0 /\ dist > s.incoming[i]
        further == s.best = NoNode \/ dist > s.far
    IN  [incoming |-> [i \in Ids |-> IF gains(i) THEN dist ELSE s.incoming[i]],
         pred |-> [i \in Ids |-> IF gains(i) THEN id ELSE s.pred[i]],
         best |-> IF further THEN id ELSE s.best,
         far |-> IF further THEN dist ELSE s.far]

CriticalPath ==
    LET s == FoldLeft(Relax, [incoming |-> [i \in Ids |-> 0], pred |-> [i \in Ids |-> NoNode],
                              best |-> NoNode, far |-> 0], ByLevel)
        back(path, i) == IF s.pred[path[1]] = NoNode THEN path ELSE <<s.pred[path[1]]>> \o path
    IN  IF s.best = NoNode THEN <<>> ELSE FoldLeft(back, <<s.best>>, SetToSeq(Ids \ {s.best}))

-------------------------------------------------------------------------------
(* Properties.                                                                  *)

HasEdge(a, b) == Multiplicity(a, b) > 0
Acyclic == \A S \in (SUBSET Ids) \ {{}} : \E a \in S : \A b \in S : ~HasEdge(a, b)

(* The graph is refused exactly when it has a cycle; otherwise every node is in *)
(* one wave, after all it depends on and directly after one of them, and no     *)
(* fusion group joins dependent nodes (topoLevels, Waves).                      *)
WavesRespectEdges ==
    LET level == topoLevels  waves == WavesOf IN
    /\ IsDAG <=> Acyclic
    /\ IsDAG =>
        /\ \A i \in Ids : \E l \in DOMAIN waves : i \in waves[l].nodes
        /\ \A a, b \in Ids : HasEdge(a, b) => level[a] < level[b]
        /\ \A b \in Ids : level[b] > 0 => \E a \in Ids : HasEdge(a, b) /\ level[a] = level[b] - 1
        /\ \A l \in DOMAIN waves : \A g \in waves[l].groups : \A a, b \in g : ~HasEdge(a, b)

PathCost(p) == FoldLeft(LAMBDA n, i : n + wave.nodes[i].cost, 0, p)
Paths == {p \in UNION {[1..n -> Ids] : n \in 1..Cardinality(Ids)} :
            \A k \in 1..Len(p) - 1 : HasEdge(p[k], p[k + 1])}

(* The critical path of a graph without cycles is a path of it, and none costs  *)
(* more (CriticalPath).                                                         *)
CriticalPathCostliest ==
    (IsDAG /\ Ids # {}) =>
        LET path == CriticalPath IN
        path \in Paths /\ \A p \in Paths : PathCost(p) <= PathCost(path)
===============================================================================
