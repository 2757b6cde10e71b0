---------------------------------- MODULE Dag ----------------------------------
(***************************************************************************)
(* The algorithms of pkg/core/dag/dag.go: cycle detection and the levels   *)
(* of the topological order.  N is the set of nodes and D[t] the set of    *)
(* nodes that t depends on.  Loops are recursive functions over a bound on *)
(* the number of their iterations.  The go-dag library holds the graph.    *)
(***************************************************************************)
EXTENDS Naturals, Sequences, FiniteSets

\* The nodes that depend on t.
ChildrenIn(N, D, t) == {c \in N : t \in D[c]}

-----------------------------------------------------------------------------
\* Mutant: a node that is left stays grey.
DfsStepKeepsGrey(N, D, s) ==
  LET White(S) == {t \in S : s.color[t] = "white"}
      enter(S) == LET t == CHOOSE t \in S : TRUE IN
                  [s EXCEPT !.color[t] = "grey", !.stack = <<t>> \o @]
      kids == ChildrenIn(N, D, Head(s.stack)) IN
  IF s.stack = <<>> THEN IF White(N) = {} THEN s ELSE enter(White(N))
  ELSE IF \E c \in kids : s.color[c] = "grey" THEN [s EXCEPT !.cyclic = TRUE]
  ELSE IF White(kids) # {} THEN enter(White(kids))
  ELSE [s EXCEPT !.stack = Tail(@)]

\* One step of the depth-first search: visit a white child of the node on top
\* of the stack, find a grey one, or leave the node; with an empty stack,
\* start from a white node.
DfsStep(N, D, s) ==
  LET White(S) == {t \in S : s.color[t] = "white"}
      enter(S) == LET t == CHOOSE t \in S : TRUE IN
                  [s EXCEPT !.color[t] = "grey", !.stack = <<t>> \o @]
      kids == ChildrenIn(N, D, Head(s.stack)) IN
  IF s.stack = <<>> THEN IF White(N) = {} THEN s ELSE enter(White(N))
  ELSE IF \E c \in kids : s.color[c] = "grey" THEN [s EXCEPT !.cyclic = TRUE]
  ELSE IF White(kids) # {} THEN enter(White(kids))
  ELSE [s EXCEPT !.color[Head(s.stack)] = "black", !.stack = Tail(@)]

\* Every node is entered once and left once.
detectCycleDFS(N, D) ==
  LET dfs[i \in 0 .. 2 * Cardinality(N)] ==
        IF i = 0
        THEN [color |-> [t \in N |-> "white"], stack |-> <<>>, cyclic |-> FALSE]
        ELSE DfsStep(N, D, dfs[i - 1])
  IN  dfs[2 * Cardinality(N)].cyclic

\* Reference: some nodes all depend on one another.
Cyclic(N, D) == \E S \in (SUBSET N) \ {{}} : \A t \in S : D[t] \cap S # {}

-----------------------------------------------------------------------------
\* Kahn's algorithm, a level at a time: the nodes of a level lower the degree
\* of their children, and those that reach zero are the next level.
Kahn(N, D) ==
  LET step[i \in 0 .. Cardinality(N)] ==
        IF i = 0
        THEN [level |-> {t \in N : D[t] = {}},
              inDegree |-> [t \in N |-> Cardinality(D[t])]]
        ELSE LET p == step[i - 1]
                 d == [t \in N |-> p.inDegree[t] - Cardinality(D[t] \cap p.level)]
             IN  [level |-> {t \in N : p.inDegree[t] > 0 /\ d[t] = 0},
                  inDegree |-> d]
  IN  step

\* TopologicalSort: the levels, as a sequence of sets.
TopologicalSort(N, D) ==
  LET kahn == Kahn(N, D)
      Full == {i \in DOMAIN kahn : kahn[i].level # {}}
  IN  [i \in 1 .. Cardinality(Full) |-> kahn[i - 1].level]

\* Reference: a level holds the nodes whose longest chain has its length.
LongestChain(N, D, t) ==
  LET depth[i \in 0 .. Cardinality(N)] ==
        IF i = 0 THEN N ELSE {u \in N : D[u] \cap depth[i - 1] # {}}
  IN  Cardinality({i \in 1 .. Cardinality(N) : t \in depth[i]})

\* GetReadyTasks: the roots.  UpdateInDegree does nothing, so they stay the
\* same whatever has completed.
GetReadyTasks(N, D) == {t \in N : D[t] = {}}
=============================================================================
