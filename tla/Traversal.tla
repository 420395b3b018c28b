------------------------------ MODULE Traversal -------------------------------
(* Traverse (internal/adaptive/recursive.go): a breadth-first traversal that    *)
(* loads every frontier with one batched call.  The loader and the context      *)
(* belong to the caller: a key is found, is terminal, is missing from the       *)
(* answer or fails, a call may fail as a whole, and the context may end between *)
(* two levels.                                                                  *)
EXTENDS Integers, Sequences, SequencesExt

CONSTANTS NodeKeys,   \* keys of nodes
          Roots,      \* roots: sets of sequences of keys
          ChildGraphs,\* what Children may be: functions from keys to sequences of keys
          Contracts   \* RecursiveContracts: [cycle, errors, depth, nodes, edges, frontier, proof]

VARIABLES contract,  \* the contract, limits with their defaults
          kids,      \* Children
          trav       \* the traversal: [frontier, visited, depth, order, edges, markers, out]

travVars == <<contract, kids, trav>>

dedupKeys(ks) == FoldLeft(LAMBDA out, k : IF Contains(out, k) THEN out ELSE Append(out, k), <<>>, ks)

LimitDefaults(c) ==
    [c EXCEPT !.depth = IF @ <= 0 THEN 32 ELSE @, !.nodes = IF @ <= 0 THEN 100000 ELSE @,
              !.edges = IF @ <= 0 THEN 1000000 ELSE @, !.frontier = IF @ <= 0 THEN 65536 ELSE @]

TravInit ==
    /\ contract \in {LimitDefaults(c) : c \in Contracts}
    /\ kids \in ChildGraphs
    /\ \E ks \in Roots :
        trav = [frontier |-> IF contract.proof THEN dedupKeys(ks) ELSE <<>>,
                visited |-> IF contract.proof THEN ToSet(ks) ELSE {},
                depth |-> 0, order |-> <<>>, edges |-> 0, markers |-> <<>>,
                out |-> IF contract.proof THEN "running" ELSE "stale proof"]

-------------------------------------------------------------------------------
(* One child: the edge limit, then a node seen before, then one that the next   *)
(* frontier already has.                                                        *)
SeenAgain(a, child) ==
    CASE contract.cycle = "error" -> [a EXCEPT !.out = "cycle"]
      [] contract.cycle = "return-cycle-marker" -> [a EXCEPT !.markers = Append(@, child)]
      [] OTHER -> a

(* Mutant: a child may be in the next frontier twice.                           *)
ChildKeepsTwins(a, child) ==
    IF a.out # "running" THEN a
    ELSE LET b == [a EXCEPT !.edges = @ + 1] IN
         IF b.edges > contract.edges THEN [b EXCEPT !.out = "limit"]
         ELSE IF child \in trav.visited THEN SeenAgain(b, child)
         ELSE [b EXCEPT !.next = Append(@, child)]

Child(a, child) ==
    IF a.out # "running" THEN a
    ELSE LET b == [a EXCEPT !.edges = @ + 1] IN
         IF b.edges > contract.edges THEN [b EXCEPT !.out = "limit"]
         ELSE IF child \in trav.visited THEN SeenAgain(b, child)
         ELSE IF Contains(b.next, child) THEN b
         ELSE [b EXCEPT !.next = Append(@, child)]

(* One node of the frontier: recorded, then the node limit, its error, and its  *)
(* children when it was found and is not terminal.                              *)
Node(a, key, answer) ==
    IF a.out # "running" THEN a
    ELSE LET b == [a EXCEPT !.order = Append(@, [key |-> key, depth |-> trav.depth,
                                                 is |-> answer[key]])] IN
         IF Len(b.order) > contract.nodes THEN [b EXCEPT !.out = "limit"]
         ELSE IF answer[key] = "error" /\ contract.errors = "fail-fast"
              THEN [b EXCEPT !.out = "node error"]
         ELSE IF answer[key] # "found" THEN b
         ELSE FoldLeft(Child, b, kids[key])

OverLimit == trav.depth > contract.depth \/ Len(trav.frontier) > contract.frontier

LevelStop ==
    /\ trav.out = "running"
    /\ \/ trav' = [trav EXCEPT !.out = "canceled"]
       \/ OverLimit /\ trav' = [trav EXCEPT !.out = "limit"]
       \/ ~OverLimit /\ trav' = [trav EXCEPT !.out = "load error"]
    /\ UNCHANGED <<contract, kids>>

LoadLevel ==
    /\ trav.out = "running" /\ ~OverLimit
    /\ \E answer \in [ToSet(trav.frontier) -> {"found", "terminal", "missing", "error"}] :
        LET start == [next |-> <<>>, order |-> trav.order, edges |-> trav.edges,
                      markers |-> trav.markers, out |-> "running"]
            a == FoldLeft(LAMBDA x, key : Node(x, key, answer), start, trav.frontier)
        IN  trav' = [frontier |-> IF a.out = "running" THEN a.next ELSE <<>>,
                     visited |-> trav.visited \cup ToSet(a.next), depth |-> trav.depth + 1,
                     order |-> a.order, edges |-> a.edges, markers |-> a.markers,
                     out |-> IF a.out = "running" /\ a.next = <<>> THEN "complete" ELSE a.out]
    /\ UNCHANGED <<contract, kids>>

TravNext == LevelStop \/ LoadLevel

-------------------------------------------------------------------------------
(* Properties.                                                                  *)

Resolved == {trav.order[i].key : i \in 1..Len(trav.order)}
IsFound(k) == \E i \in 1..Len(trav.order) : trav.order[i].key = k /\ trav.order[i].is = "found"
Edge(a, b) == IsFound(a) /\ Contains(kids[a], b)
RootKeys == {trav.order[i].key : i \in {j \in 1..Len(trav.order) : trav.order[j].depth = 0}}

(* A complete traversal has resolved every node once, in breadth-first order,   *)
(* at its distance from the roots: every node below a root is a child of one a  *)
(* level above and of none higher up, and every child was resolved (Traverse).  *)
BreadthFirst ==
    /\ \A i, j \in 1..Len(trav.order) : i < j =>
        trav.order[i].depth <= trav.order[j].depth /\ trav.order[i].key # trav.order[j].key
    /\ trav.out = "complete" =>
        /\ \A a \in Resolved, b \in NodeKeys : Edge(a, b) => b \in Resolved
        /\ \A i \in 1..Len(trav.order) : trav.order[i].depth > 0 =>
            LET above == {j \in 1..Len(trav.order) : Edge(trav.order[j].key, trav.order[i].key)} IN
            /\ \E j \in above : trav.order[j].depth = trav.order[i].depth - 1
            /\ \A j \in above : trav.order[j].depth >= trav.order[i].depth - 1

(* Under CycleError a traversal that completes has met no cycle: no set of      *)
(* resolved nodes leads back into itself from each of its members (Traverse).   *)
CompleteIsAcyclic ==
    (trav.out = "complete" /\ contract.cycle = "error") =>
        \A S \in (SUBSET Resolved) \ {{}} : \E a \in S : \A b \in S : ~Edge(a, b)
===============================================================================
