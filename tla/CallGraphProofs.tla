-------------------------- MODULE CallGraphProofs --------------------------
(***************************************************************************)
(* The marks of the search are sound, and no cycle is free of them, in     *)
(* every call graph of any size.                                           *)
(***************************************************************************)
EXTENDS CallGraph, TLAPS

(***************************************************************************)
(* The inductive invariant.  A rule on the path calls the next one, which  *)
(* is stated through Reaches, so that a step needs no induction along the  *)
(* path.  A rule that is finished without a mark calls finished rules only:*)
(* a call of a rule on the path would have marked it.  Hence the set       *)
(* Finished \ recurse is well founded as it grows.                         *)
(***************************************************************************)
PathOK ==
    /\ \A i \in 1..Len(path) : path[i] \in visited
    /\ \A i, j \in 1..Len(path) : path[i] = path[j] => i = j
    /\ \A i, j \in 1..Len(path) : i < j => Reaches(path[i], path[j])
LeftOK == \A i \in 1..Len(path) : left[i] \subseteq edges[path[i]]
\* The calls that have been tried lead to visited rules, and a rule that has
\* called a rule on the path is marked.
TriedOK ==
    /\ \A i \in 1..Len(path) : edges[path[i]] \ left[i] \subseteq visited
    /\ \A i \in 1..Len(path), j \in 1..Len(path) :
          j <= i /\ path[j] \in edges[path[i]] \ left[i] => path[i] \in recurse
FinishedOK ==
    \A v \in Finished \ recurse : edges[v] \subseteq Finished
FoundedOK ==
    \A s \in SUBSET (Finished \ recurse) : s # {} => \E v \in s : edges[v] \cap s = {}
IInv ==
    /\ TypeOK /\ PathOK /\ LeftOK /\ TriedOK /\ FinishedOK /\ FoundedOK /\ MarkedIsRecursive

LEMMA ReachesStep ==
    ASSUME NEW v, NEW w \in edges[v]
    PROVE  Reaches(v, w)
BY DEF Reaches
LEMMA ReachesTrans ==
    ASSUME TypeOK, NEW u, NEW v \in Vertex, NEW w, Reaches(u, v), Reaches(v, w)
    PROVE  Reaches(u, w)
BY DEF Reaches, Closed, TypeOK
LEMMA ReachesKept ==
    ASSUME UNCHANGED edges, NEW v, NEW w
    PROVE  Reaches(v, w)' <=> Reaches(v, w)
BY DEF Reaches, Closed

\* What the fields of the invariant are before a step.
LEMMA Types ==
    ASSUME IInv
    PROVE  /\ path \in Seq(Vertex) /\ left \in Seq(SUBSET Vertex) /\ Len(left) = Len(path)
           /\ Len(path) \in Nat /\ visited \subseteq Vertex /\ recurse \subseteq Vertex
           /\ edges \in [Vertex -> SUBSET Vertex]
           /\ \A i \in 1..Len(path) : path[i] \in Vertex /\ left[i] \subseteq Vertex
BY DEF IInv, TypeOK

LEMMA InitOK == Init => IInv
<1> SUFFICES ASSUME Init PROVE IInv
  OBVIOUS
<1>1. TypeOK
  BY GraphsAssumption DEF Init, TypeOK
<1>2. Finished = {} /\ Len(path) = 0 /\ recurse = {}
  BY DEF Init, Finished
<1> QED
  BY <1>1, <1>2
  DEF IInv, PathOK, LeftOK, TriedOK, FinishedOK, FoundedOK, MarkedIsRecursive

-----------------------------------------------------------------------------
\* A call of dfs, made by the loop over the vertices or by the call below it.
LEMMA EnterOK ==
    ASSUME IInv, NEW w \in Vertex, w \notin visited, Enter(w), UNCHANGED <<edges, recurse>>,
           left' \in Seq(SUBSET Vertex), Len(left') = Len(path) + 1,
           left'[Len(path) + 1] = edges[w],
           \A i \in 1..Len(path) : left'[i] \subseteq left[i] /\ left[i] \ {w} \subseteq left'[i],
           Len(path) > 0 => w \in edges[path[Len(path)]]
    PROVE  IInv'
<1> DEFINE d == Len(path)
<1>1. /\ path \in Seq(Vertex) /\ d \in Nat /\ visited \subseteq Vertex
      /\ \A i \in 1..d : path[i] \in Vertex
  BY Types
<1>2. /\ path' \in Seq(Vertex) /\ Len(path') = d + 1 /\ path'[d + 1] = w
      /\ \A i \in 1..d : path'[i] = path[i]
  BY <1>1 DEF Enter
<1>3. visited' = visited \cup {w} /\ edges' = edges /\ recurse' = recurse
  BY DEF Enter
<1>4. TypeOK'
  BY <1>1, <1>2, <1>3, Types DEF TypeOK
<1>5. Finished' = Finished
  BY <1>1, <1>2, <1>3 DEF Finished, OnStack, IInv, PathOK
<1>6. FinishedOK' /\ FoundedOK'
  BY <1>3, <1>5 DEF IInv, FinishedOK, FoundedOK
<1>7. MarkedIsRecursive'
  BY <1>3, ReachesKept DEF IInv, MarkedIsRecursive
<1>8. LeftOK'
  <2>1. ASSUME NEW i \in 1..d + 1 PROVE left'[i] \subseteq edges'[path'[i]]
    <3>1. CASE i = d + 1
      BY <1>2, <1>3, <3>1
    <3>2. CASE i # d + 1
      <4>1. i \in 1..d
        BY <1>1, <3>2
      <4> QED BY <1>2, <1>3, <4>1 DEF IInv, LeftOK
    <3> QED BY <3>1, <3>2
  <2> QED BY <1>2, <2>1 DEF LeftOK
<1>9. TriedOK'
  <2>1. ASSUME NEW i \in 1..d + 1
        PROVE  /\ edges[path'[i]] \ left'[i] \subseteq visited'
               /\ \A j \in 1..d + 1 : j <= i /\ path'[j] \in edges[path'[i]] \ left'[i]
                                          => path'[i] \in recurse
    <3>1. CASE i = d + 1
      BY <1>2, <3>1
    <3>2. CASE i # d + 1
      <4>1. i \in 1..d /\ path'[i] = path[i]
        BY <1>1, <1>2, <3>2
      <4>2. edges[path[i]] \ left'[i] \subseteq (edges[path[i]] \ left[i]) \cup {w}
        BY <4>1
      <4>3. edges[path[i]] \ left'[i] \subseteq visited'
        BY <1>3, <4>1, <4>2 DEF IInv, TriedOK
      <4>4. ASSUME NEW j \in 1..d + 1, j <= i, path'[j] \in edges[path'[i]] \ left'[i]
            PROVE  path'[i] \in recurse
        <5>1. j \in 1..d /\ path'[j] = path[j]
          BY <1>1, <1>2, <4>1, <4>4
        <5>2. path[j] # w
          BY <5>1 DEF IInv, PathOK
        <5>3. path[j] \in edges[path[i]] \ left[i]
          BY <4>1, <4>2, <4>4, <5>1, <5>2
        <5> QED BY <4>1, <4>4, <5>1, <5>3 DEF IInv, TriedOK
      <4> QED BY <4>1, <4>3, <4>4
    <3> QED BY <3>1, <3>2
  <2> QED BY <1>2, <1>3, <2>1 DEF TriedOK
<1>10. PathOK'
  <2>1. ASSUME NEW i \in 1..d PROVE Reaches(path[i], w)
    <3>1. d > 0 /\ path[d] \in Vertex /\ path[i] \in Vertex /\ Reaches(path[d], w)
      BY <1>1, ReachesStep
    <3>2. CASE i = d
      BY <3>1, <3>2
    <3>3. CASE i # d
      <4>1. Reaches(path[i], path[d])
        BY <1>1, <3>3 DEF IInv, PathOK
      <4> QED BY <3>1, <4>1, ReachesTrans DEF IInv
    <3> QED BY <3>2, <3>3
  <2>2. ASSUME NEW i \in 1..d + 1 PROVE path'[i] \in visited'
    <3>1. CASE i = d + 1
      BY <1>2, <1>3, <3>1
    <3>2. CASE i # d + 1
      <4>1. i \in 1..d
        BY <1>1, <3>2
      <4> QED BY <1>2, <1>3, <4>1 DEF IInv, PathOK
    <3> QED BY <3>1, <3>2
  <2>3. ASSUME NEW i \in 1..d + 1, NEW j \in 1..d + 1, i < j
        PROVE  path'[i] # path'[j] /\ Reaches(path'[i], path'[j])
    <3>1. i \in 1..d /\ path'[i] = path[i] /\ path[i] \in visited
      BY <1>1, <1>2, <2>3 DEF IInv, PathOK
    <3>2. CASE j = d + 1
      BY <1>2, <2>1, <3>1, <3>2
    <3>3. CASE j # d + 1
      <4>1. j \in 1..d /\ path'[j] = path[j]
        BY <1>1, <1>2, <3>3
      <4> QED BY <1>1, <2>3, <3>1, <4>1 DEF IInv, PathOK
    <3> QED BY <3>2, <3>3
  <2>4. \A i, j \in 1..d + 1 : path'[i] = path'[j] => i = j
    BY <1>1, <2>3
  <2>5. ASSUME NEW i \in 1..d + 1, NEW j \in 1..d + 1, i < j
        PROVE  Reaches(path[i], path[j])'
    <3>1. Reaches(path'[i], path'[j])
      BY <2>3, <2>5
    <3> QED BY <1>3, <3>1 DEF Reaches, Closed
  <2> QED BY <1>2, <2>2, <2>4, <2>5 DEF PathOK
<1> QED BY <1>4, <1>6, <1>7, <1>8, <1>9, <1>10 DEF IInv

LEMMA StartOK ==
    ASSUME IInv, NEW v \in Vertex, Start(v)
    PROVE  IInv'
<1>1. Len(path) = 0 /\ v \notin visited
  BY DEF Start, Least
<1>2. left' = <<edges[v]>> /\ edges[v] \in SUBSET Vertex
  BY Types DEF Start
<1> QED BY <1>1, <1>2, EnterOK DEF Start

LEMMA OthersOK ==
    ASSUME IInv, NEW w \in Vertex, path # <<>>
    PROVE  /\ Others(w) \in Seq(SUBSET Vertex) /\ Len(Others(w)) = Len(path)
           /\ \A i \in 1..Len(path) :
                 Others(w)[i] = IF i = Len(path) THEN left[i] \ {w} ELSE left[i]
<1>1. /\ left \in Seq(SUBSET Vertex) /\ Len(left) = Len(path) /\ Len(path) \in Nat
      /\ \A i \in 1..Len(path) : left[i] \subseteq Vertex
  BY Types
<1> DEFINE x == left[Len(path)] \ {w}
<1>2. x \in SUBSET Vertex
  BY <1>1
<1>3. Others(w) = [left EXCEPT ![Len(path)] = x]
  BY DEF Others, Depth
<1>4. \A i \in 1..Len(path) : Others(w)[i] = IF i = Len(path) THEN x ELSE left[i]
  <2> HIDE DEF x
  <2> QED BY <1>1, <1>3
<1>5. Others(w) \in Seq(SUBSET Vertex) /\ Len(Others(w)) = Len(path)
  <2> HIDE DEF x
  <2> QED BY <1>1, <1>2, <1>3
<1> QED BY <1>4, <1>5

LEMMA DescendOK ==
    ASSUME IInv, NEW w \in Vertex, Descend(w)
    PROVE  IInv'
<1> DEFINE d == Len(path)
           rest == Others(w)
<1>1. /\ d \in Nat \ {0} /\ d \in 1..d /\ w \in left[d] /\ w \notin visited
      /\ Enter(w) /\ UNCHANGED <<edges, recurse>>
  BY Types DEF Descend, Least, Depth
<1>2. w \in edges[path[d]] /\ edges[w] \in SUBSET Vertex
  BY <1>1, Types DEF IInv, LeftOK
<1>3. /\ rest \in Seq(SUBSET Vertex) /\ Len(rest) = d
      /\ \A i \in 1..d : rest[i] = IF i = d THEN left[i] \ {w} ELSE left[i]
  BY OthersOK DEF Descend
<1>4. left' = Append(rest, edges[w])
  BY DEF Descend
<1> HIDE DEF rest
<1>5. /\ left' \in Seq(SUBSET Vertex) /\ Len(left') = d + 1 /\ left'[d + 1] = edges[w]
      /\ \A i \in 1..d : left'[i] = rest[i]
  BY <1>1, <1>2, <1>3, <1>4
<1>6. \A i \in 1..d : left'[i] \subseteq left[i] /\ left[i] \ {w} \subseteq left'[i]
  BY <1>3, <1>5
<1> QED BY <1>1, <1>2, <1>5, <1>6, EnterOK

-----------------------------------------------------------------------------
LEMMA BackOK ==
    ASSUME IInv, NEW w \in Vertex, Back(w)
    PROVE  IInv'
<1> DEFINE d == Len(path)
<1>1. /\ d \in Nat \ {0} /\ d \in 1..d /\ w \in left[d] /\ w \in visited
      /\ left' = Others(w) /\ UNCHANGED <<edges, visited, path>>
      /\ \A i \in 1..d : path[i] \in Vertex
  BY Types DEF Back, Least, Depth
<1>2. /\ left' \in Seq(SUBSET Vertex) /\ Len(left') = d
      /\ \A i \in 1..d : left'[i] = IF i = d THEN left[i] \ {w} ELSE left[i]
  BY <1>1, OthersOK DEF Back
<1>3. w \in edges[path[d]]
  BY <1>1 DEF IInv, LeftOK
<1>4. recurse \subseteq recurse' /\ recurse' \subseteq recurse \cup CyclePath(w)
  BY DEF Back
<1>5. CyclePath(w) \subseteq Vertex
  BY <1>1 DEF CyclePath, Depth
<1>6. TypeOK'
  BY <1>1, <1>2, <1>4, <1>5, Types DEF TypeOK
<1>7. LeftOK'
  BY <1>1, <1>2 DEF IInv, LeftOK
<1>8. Finished' = Finished
  BY <1>1 DEF Finished, OnStack
<1>9. FinishedOK' /\ FoundedOK'
  BY <1>1, <1>4, <1>8 DEF IInv, FinishedOK, FoundedOK
<1>10. PathOK'
  BY <1>1, ReachesKept DEF IInv, PathOK, Reaches, Closed
<1>11. TriedOK'
  <2>1. ASSUME NEW i \in 1..d
        PROVE  /\ edges[path[i]] \ left'[i] \subseteq visited
               /\ \A j \in 1..d : j <= i /\ path[j] \in edges[path[i]] \ left'[i]
                                      => path[i] \in recurse'
    <3>1. CASE i = d
      <4>1. edges[path[i]] \ left'[i] \subseteq (edges[path[i]] \ left[i]) \cup {w}
        BY <1>2, <3>1
      <4>2. ASSUME NEW j \in 1..d, path[j] = w PROVE path[d] \in recurse'
        BY <1>1, <4>2 DEF Back, OnStack, CyclePath, Depth
      <4> QED BY <1>1, <1>4, <3>1, <4>1, <4>2 DEF IInv, TriedOK
    <3>2. CASE i # d
      BY <1>2, <1>4, <3>2 DEF IInv, TriedOK
    <3> QED BY <3>1, <3>2
  <2> QED BY <1>1, <2>1 DEF TriedOK
<1>12. MarkedIsRecursive'
  <2>1. ASSUME NEW v \in CyclePath(w) PROVE Reaches(v, v)
    <3>1. PICK i \in 1..d, j \in 1..d : j <= i /\ path[j] = w /\ path[i] = v
      BY <1>1 DEF CyclePath, Depth
    <3>2. v \in Vertex /\ w \in Vertex /\ path[d] \in Vertex
      BY <1>1, <3>1
    <3>3. Reaches(path[d], w)
      BY <1>3, ReachesStep
    <3>4. Reaches(v, w)
      <4>1. CASE i = d
        BY <3>1, <3>3, <4>1
      <4>2. CASE i # d
        <5>1. Reaches(v, path[d])
          BY <1>1, <3>1, <4>2 DEF IInv, PathOK
        <5> QED BY <3>2, <3>3, <5>1, ReachesTrans DEF IInv
      <4> QED BY <4>1, <4>2
    <3>5. CASE i = j
      BY <3>1, <3>4, <3>5
    <3>6. CASE i # j
      <4>1. Reaches(w, v)
        BY <3>1, <3>6 DEF IInv, PathOK
      <4> QED BY <3>2, <3>4, <4>1, ReachesTrans DEF IInv
    <3> QED BY <3>5, <3>6
  <2>2. \A v \in recurse' : Reaches(v, v)
    BY <1>4, <2>1 DEF IInv, MarkedIsRecursive
  <2> QED BY <1>1, <2>2 DEF MarkedIsRecursive, Reaches, Closed
<1> QED BY <1>6, <1>7, <1>9, <1>10, <1>11, <1>12 DEF IInv

LEMMA LeaveOK ==
    ASSUME IInv, Leave
    PROVE  IInv'
<1> DEFINE d == Len(path)
           v == path[d]
<1>1. /\ d \in Nat \ {0} /\ d \in 1..d /\ left[d] = {} /\ v \in Vertex
      /\ path \in Seq(Vertex) /\ left \in Seq(SUBSET Vertex) /\ Len(left) = d
      /\ UNCHANGED <<edges, visited, recurse>>
  BY Types DEF Leave, Depth
<1>2. /\ path' \in Seq(Vertex) /\ Len(path') = d - 1
      /\ left' \in Seq(SUBSET Vertex) /\ Len(left') = d - 1
      /\ \A i \in 1..d - 1 : path'[i] = path[i] /\ left'[i] = left[i]
  BY <1>1 DEF Leave, Depth
<1>3. 1..d - 1 \subseteq 1..d
  BY <1>1
<1>4. TypeOK'
  BY <1>1, <1>2 DEF IInv, TypeOK
<1>5. LeftOK' /\ TriedOK'
  BY <1>1, <1>2, <1>3 DEF IInv, LeftOK, TriedOK
<1>6. PathOK'
  BY <1>1, <1>2, <1>3 DEF IInv, PathOK, Reaches, Closed
<1>7. MarkedIsRecursive'
  BY <1>1 DEF IInv, MarkedIsRecursive, Reaches, Closed
<1>8. Finished' = Finished \cup {v} /\ v \notin Finished
  <2>1. v \in visited /\ \A i \in 1..d - 1 : path[i] # v
    BY <1>1, <1>3 DEF IInv, PathOK
  <2>2. \A u : (\E i \in 1..d : path[i] = u) <=> u = v \/ \E i \in 1..d - 1 : path[i] = u
    BY <1>1, <1>3
  <2>3. \A u : OnStack(u) <=> u = v \/ \E i \in 1..d - 1 : path[i] = u
    BY <2>2 DEF OnStack
  <2>4. \A u : (\E i \in 1..Len(path') : path'[i] = u) <=> \E i \in 1..d - 1 : path[i] = u
    BY <1>2
  <2>5. \A u : OnStack(u)' <=> \E i \in 1..d - 1 : path[i] = u
    BY <2>4 DEF OnStack
  <2> HIDE DEF d, v
  <2> QED BY <1>1, <2>1, <2>3, <2>5 DEF Finished
<1>9. v \notin recurse => edges[v] \subseteq Finished
  <2>1. edges[v] \subseteq visited
    BY <1>1 DEF IInv, TriedOK
  <2>2. ASSUME v \notin recurse, NEW j \in 1..d PROVE path[j] \notin edges[v]
    BY <1>1, <2>2 DEF IInv, TriedOK
  <2> QED BY <2>1, <2>2 DEF Finished, OnStack
<1> HIDE DEF v
<1>10. FinishedOK'
  BY <1>1, <1>8, <1>9 DEF IInv, FinishedOK
<1>11. FoundedOK'
  <2>1. ASSUME NEW s \in SUBSET ((Finished \cup {v}) \ recurse), s # {}
        PROVE  \E u \in s : edges[u] \cap s = {}
    <3>1. CASE v \notin s
      BY <2>1, <3>1 DEF IInv, FoundedOK
    <3>2. CASE s = {v}
      BY <1>8, <1>9, <2>1, <3>2
    <3>3. CASE v \in s /\ s # {v}
      <4>1. s \ {v} \in SUBSET (Finished \ recurse) /\ s \ {v} # {}
        BY <2>1, <3>3
      <4>2. PICK u \in s \ {v} : edges[u] \cap (s \ {v}) = {}
        BY <4>1 DEF IInv, FoundedOK
      <4>3. v \notin edges[u]
        BY <1>8, <4>1, <4>2 DEF IInv, FinishedOK
      <4> QED BY <4>2, <4>3
    <3> QED BY <3>1, <3>2, <3>3
  <2> QED BY <1>1, <1>8, <2>1 DEF FoundedOK
<1> QED BY <1>4, <1>5, <1>6, <1>7, <1>10, <1>11 DEF IInv

LEMMA NextOK == IInv /\ [Next]_cvars => IInv'
<1> SUFFICES ASSUME IInv, [Next]_cvars PROVE IInv'
  OBVIOUS
<1>1. CASE Next
  BY <1>1, StartOK, DescendOK, BackOK, LeaveOK DEF Next
<1>2. CASE UNCHANGED cvars
  BY <1>2 DEF cvars, IInv, TypeOK, PathOK, LeftOK, TriedOK, FinishedOK, FoundedOK,
     MarkedIsRecursive, Finished, OnStack, Reaches, Closed
<1> QED BY <1>1, <1>2

-----------------------------------------------------------------------------
LEMMA Invariant == Spec => []IInv
<1> QED BY InitOK, NextOK, PTL DEF Spec

\* getIsRecursive marks recursive rules only, in every call graph.
THEOREM MarksAreSound == Spec => []MarkedIsRecursive
<1>1. IInv => MarkedIsRecursive
  BY DEF IInv
<1> QED BY <1>1, Invariant, PTL

\* When getIsRecursive returns, every cycle of calls has a marked rule: inlining
\* the others ends, and left recursion without callLR ends.
THEOREM EveryCycleIsBroken == Spec => []UnmarkedIsWellFounded
<1>1. IInv => UnmarkedIsWellFounded
  <2> SUFFICES ASSUME IInv, Searched PROVE Finished = Vertex
    BY DEF IInv, FoundedOK, UnmarkedIsWellFounded
  <2> QED BY DEF Searched, Finished, OnStack
<1> QED BY <1>1, Invariant, PTL
=============================================================================
