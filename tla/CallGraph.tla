----------------------------- MODULE CallGraph -----------------------------
(***************************************************************************)
(* The depth-first search behind RecursiveSetQuery and                     *)
(* LeftRecursiveSetQuery (getIsRecursive in go/query_pipeline.go): it      *)
(* visits the rules of a grammar and, at each call that closes a cycle,    *)
(* marks the rules on the current path from the callee on.  The compiler   *)
(* inlines no marked rule, and calls the rules marked in the graph of left *)
(* calls with callLR: both end only because no cycle is free of marks.     *)
(*                                                                         *)
(* A rule is the rank of its name in the order of names, which is the order*)
(* the search tries them in.  One step is one turn of a loop of the search.*)
(***************************************************************************)
EXTENDS Integers, Sequences

CONSTANTS
    N,          \* how many names there are: rules, and names without a rule
    Graphs      \* the call graphs that are searched
Vertex == 1..N
ASSUME NAssumption == N \in Nat
ASSUME GraphsAssumption == Graphs \subseteq [Vertex -> SUBSET Vertex]

VARIABLES
    edges,      \* g: the names each rule refers to
    visited,
    path,       \* stack: the calls of dfs in progress
    left,       \* for each of them, the edges its loop has not tried yet
    recurse     \* the marked rules
cvars == <<edges, visited, path, left, recurse>>

OnStackBelow(w) == \E i \in 1..Len(path) - 1 : path[i] = w   \* mutation
OnStack(w) == \E i \in 1..Len(path) : path[i] = w
Depth == Len(path)

\* The least element of a set of names: sort.Strings and a loop.
Least(s, w) == w \in s /\ \A x \in s : w <= x

Init ==
    /\ edges \in Graphs
    /\ visited = {} /\ path = <<>> /\ left = <<>> /\ recurse = {}

\* A call of dfs.
Enter(v) ==
    /\ visited' = visited \cup {v}
    /\ path' = Append(path, v)

\* The loop over the vertices.  It skips the names without a rule, which have no
\* edges: to start from one of them too marks nothing.
Start(v) ==
    /\ path = <<>>
    /\ Least(Vertex \ visited, v)
    /\ Enter(v)
    /\ left' = <<edges[v]>>
    /\ UNCHANGED <<edges, recurse>>

Others(w) == [left EXCEPT ![Depth] = @ \ {w}]

Descend(w) ==
    /\ path # <<>>
    /\ Least(left[Depth], w)
    /\ w \notin visited
    /\ Enter(w)
    /\ left' = Append(Others(w), edges[w])
    /\ UNCHANGED <<edges, recurse>>

\* The rules on the path from w on.  Mutation: all the path.
WholePath(w) == {path[i] : i \in 1..Depth}
CyclePath(w) == {path[i] : i \in {k \in 1..Depth : \E j \in 1..k : path[j] = w}}

\* A call of a rule that has been visited closes a cycle if dfs is in that rule.
Back(w) ==
    /\ path # <<>>
    /\ Least(left[Depth], w)
    /\ w \in visited
    /\ left' = Others(w)
    /\ recurse' = IF OnStack(w) THEN recurse \cup CyclePath(w) ELSE recurse
    /\ UNCHANGED <<edges, visited, path>>

Leave ==
    /\ path # <<>>
    /\ left[Depth] = {}
    /\ path' = SubSeq(path, 1, Depth - 1)
    /\ left' = SubSeq(left, 1, Depth - 1)
    /\ UNCHANGED <<edges, visited, recurse>>

Next ==
    \/ \E v \in Vertex : Start(v) \/ Descend(v) \/ Back(v)
    \/ Leave
Spec == Init /\ [][Next]_cvars

-----------------------------------------------------------------------------
TypeOK ==
    /\ edges \in [Vertex -> SUBSET Vertex]
    /\ visited \subseteq Vertex /\ recurse \subseteq Vertex
    /\ path \in Seq(Vertex)
    /\ left \in Seq(SUBSET Vertex) /\ Len(left) = Len(path)

Finished == {v \in visited : ~OnStack(v)}
Searched == path = <<>> /\ visited = Vertex

\* A set of rules that nothing it calls leaves, and the calls from v to w.
Closed(s) == \A u \in s : edges[u] \subseteq s
Reaches(v, w) == \A s \in SUBSET Vertex : edges[v] \subseteq s /\ Closed(s) => w \in s

\* Only rules that call themselves, directly or through others, are marked: a
\* rule that is not recursive keeps its plain calls and may be inlined.
MarkedIsRecursive == \A v \in recurse : Reaches(v, v)

\* No cycle is free of marks: among any rules that are not marked there is one
\* that calls none of them.  Inlining such rules ends, and so does a match in
\* which only the marked rules guard against left recursion.
UnmarkedIsWellFounded ==
    Searched => \A s \in SUBSET (Vertex \ recurse) :
                    s # {} => \E v \in s : edges[v] \cap s = {}
=============================================================================
