--------------------------- MODULE QueryDBProofs ---------------------------
(***************************************************************************)
(* The query database for any number of files, any contents and any        *)
(* queries of its owner: what is cached is what would be computed now, and *)
(* a rule is captured once.  The first part is about Reached: the nodes it *)
(* gives are the least set that holds the first ones and is closed.        *)
(***************************************************************************)
EXTENDS QueryDB, WellFoundedInduction, FiniteSetTheorems, TLAPS

LEMMA Least ==
    ASSUME NEW T, T \subseteq Nat, T # {}
    PROVE  \E n \in T : \A m \in T : n <= m
<1>1. PICK n \in T : \A m \in T : <<m, n>> \notin OpToRel(<, Nat)
  BY WFMin, NatLessThanWellFounded
<1>2. \A m \in T : ~(m < n)
  BY <1>1 DEF OpToRel
<1> QED
  BY <1>2

LEMMA FromZero ==
    ASSUME NEW S, 0 \in S, \A n \in Nat : n \in S => n + 1 \in S
    PROVE  \A n \in Nat : n \in S
<1>1. SUFFICES ASSUME Nat \ S # {}
               PROVE  FALSE
  OBVIOUS
<1>2. PICK n \in Nat \ S : \A m \in Nat \ S : n <= m
  BY <1>1, Least
<1>3. n - 1 \in Nat /\ n - 1 \in S /\ n - 1 + 1 = n
  BY <1>2
<1> QED
  BY <1>2, <1>3

Iterate(g, x, n, h) == h[0] = x /\ \A i \in 1..n : h[i] = g[h[i - 1]]

LEMMA Iterates ==
    ASSUME NEW U, NEW x \in U, NEW g \in [U -> U]
    PROVE  \E f \in [Nat -> U] : f[0] = x /\ \A n \in Nat : f[n + 1] = g[f[n]]
<1> DEFINE S == {n \in Nat : \E h \in [0..n -> U] : Iterate(g, x, n, h)}
<1>1. 0 \in S
  <2>1. [i \in 0..0 |-> x] \in [0..0 -> U] /\ Iterate(g, x, 0, [i \in 0..0 |-> x])
    BY DEF Iterate
  <2> QED
    BY <2>1
<1>2. ASSUME NEW n \in Nat, n \in S
      PROVE  n + 1 \in S
  <2>1. PICK h \in [0..n -> U] : Iterate(g, x, n, h)
    BY <1>2
  <2> DEFINE k == [i \in 0..n + 1 |-> IF i = n + 1 THEN g[h[n]] ELSE h[i]]
  <2>2. h[n] \in U /\ g[h[n]] \in U /\ \A i \in 0..n + 1 : i # n + 1 => i \in 0..n
    BY <2>1
  <2>3. k \in [0..n + 1 -> U]
    BY <2>1, <2>2
  <2>4. k[0] = x /\ \A i \in 0..n : k[i] = h[i]
    BY <2>1 DEF Iterate
  <2>5. ASSUME NEW i \in 1..n + 1
        PROVE  k[i] = g[k[i - 1]]
    <3>1. i - 1 \in 0..n /\ k[i - 1] = h[i - 1]
      BY <2>4
    <3>2. CASE i = n + 1
      BY <3>1, <3>2
    <3>3. CASE i \in 1..n
      BY <2>1, <3>1, <3>3, <2>4 DEF Iterate
    <3> QED
      BY <3>2, <3>3
  <2> HIDE DEF k
  <2> QED
    BY <2>3, <2>4, <2>5 DEF Iterate
<1>3. \A n \in Nat : n \in S
  <2> HIDE DEF S
  <2> QED
    BY <1>1, <1>2, FromZero
<1> DEFINE H(n) == CHOOSE h \in [0..n -> U] : Iterate(g, x, n, h)
           f == [n \in Nat |-> H(n)[n]]
<1>4. \A n \in Nat : H(n) \in [0..n -> U] /\ Iterate(g, x, n, H(n))
  BY <1>3
<1> HIDE DEF H
<1>5. ASSUME NEW n \in Nat
      PROVE  H(n + 1)[n] = H(n)[n]
  <2> DEFINE T == {i \in Nat : i <= n => H(n + 1)[i] = H(n)[i]}
  <2>1. 0 \in T
    BY <1>4 DEF Iterate
  <2>2. ASSUME NEW i \in Nat, i \in T
        PROVE  i + 1 \in T
    <3>1. CASE i + 1 <= n
      <4>1. i + 1 \in 1..n /\ i + 1 \in 1..n + 1 /\ i + 1 - 1 = i /\ n + 1 \in Nat
        BY <3>1
      <4>2. H(n)[i + 1] = g[H(n)[i]] /\ H(n + 1)[i + 1] = g[H(n + 1)[i]]
        BY <4>1, <1>4 DEF Iterate
      <4> QED
        BY <2>2, <3>1, <4>2
    <3> QED
      BY <3>1
  <2>3. n \in T
    <3> HIDE DEF T
    <3> QED
      BY <2>1, <2>2, FromZero
  <2> QED
    BY <2>3
<1>6. ASSUME NEW n \in Nat
      PROVE  f[n + 1] = g[f[n]]
  <2>1. n + 1 \in 1..n + 1 /\ n + 1 - 1 = n /\ n + 1 \in Nat
    OBVIOUS
  <2>2. H(n + 1)[n + 1] = g[H(n + 1)[n]]
    BY <1>4, <2>1 DEF Iterate
  <2> QED
    BY <1>5, <2>1, <2>2
<1>7. f \in [Nat -> U] /\ f[0] = x
  <2>1. \A n \in Nat : n \in 0..n
    OBVIOUS
  <2> QED
    BY <1>4, <2>1 DEF Iterate
<1> HIDE DEF f
<1> QED
  BY <1>6, <1>7

Grows(R, nodes, edges) ==
    R = [n \in Nat |-> IF n = 0 THEN nodes ELSE Along(edges, R[n - 1])]

LEMMA ReachedBy ==
    ASSUME NEW nodes, NEW edges
    PROVE  \E R : Grows(R, nodes, edges) /\ Reached(nodes, edges) = R[Cardinality(edges)]
<1> DEFINE Ends == {e[2] : e \in edges}
           U == SUBSET (nodes \cup Ends)
           g == [r \in U |-> Along(edges, r)]
<1>1. nodes \in U /\ g \in [U -> U]
  BY DEF Along
<1>2. PICK f \in [Nat -> U] : f[0] = nodes /\ \A n \in Nat : f[n + 1] = g[f[n]]
  <2> HIDE DEF g, U
  <2> QED
    BY <1>1, Iterates
<1>3. ASSUME NEW n \in Nat
      PROVE  f[n] = IF n = 0 THEN nodes ELSE Along(edges, f[n - 1])
  <2>1. CASE n # 0
    <3>1. n - 1 \in Nat /\ n - 1 + 1 = n /\ f[n - 1] \in U
      BY <2>1, <1>2
    <3>2. f[n - 1 + 1] = g[f[n - 1]]
      BY <1>2, <3>1
    <3> QED
      BY <2>1, <3>1, <3>2
  <2> QED
    BY <1>2, <2>1
<1>4. Grows(f, nodes, edges)
  <2> HIDE DEF U
  <2> QED
    BY <1>2, <1>3 DEF Grows
<1> DEFINE R[n \in Nat] == IF n = 0 THEN nodes ELSE Along(edges, R[n - 1])
<1>5. Reached(nodes, edges) = R[Cardinality(edges)]
  BY DEF Reached
<1>6. Grows(R, nodes, edges)
  BY <1>4 DEF Grows
<1> HIDE DEF R
<1> QED
  BY <1>5, <1>6

LEMMA GrowsBy ==
    ASSUME NEW R, NEW nodes, NEW edges, Grows(R, nodes, edges)
    PROVE  R[0] = nodes /\ \A n \in Nat : R[n + 1] = Along(edges, R[n])
<1>1. R = [n \in Nat |-> IF n = 0 THEN nodes ELSE Along(edges, R[n - 1])]
  BY DEF Grows
<1>2. R[0] = nodes
  BY <1>1
<1>3. ASSUME NEW n \in Nat
      PROVE  R[n + 1] = Along(edges, R[n])
  <2>1. n + 1 \in Nat /\ n + 1 # 0 /\ n + 1 - 1 = n
    OBVIOUS
  <2> QED
    BY <1>1, <2>1
<1> QED
  BY <1>2, <1>3

LEMMA ReachedLeast ==
    ASSUME NEW nodes, NEW edges, IsFiniteSet(edges),
           NEW X, nodes \subseteq X, \A e \in edges : e[1] \in X => e[2] \in X
    PROVE  Reached(nodes, edges) \subseteq X
<1>1. PICK R : Grows(R, nodes, edges) /\ Reached(nodes, edges) = R[Cardinality(edges)]
  BY ReachedBy
<1> DEFINE S == {n \in Nat : R[n] \subseteq X}
<1>2. R[0] = nodes /\ \A n \in Nat : R[n + 1] = Along(edges, R[n])
  BY <1>1, GrowsBy
<1>3. 0 \in S /\ \A n \in Nat : n \in S => n + 1 \in S
  BY <1>2 DEF Along
<1>4. \A n \in Nat : n \in S
  <2> HIDE DEF S
  <2> QED
    BY <1>3, FromZero
<1>5. Cardinality(edges) \in Nat
  BY FS_CardinalityType
<1> QED
  BY <1>1, <1>4, <1>5

LEMMA ReachedClosed ==
    ASSUME NEW nodes, NEW edges, IsFiniteSet(edges)
    PROVE  /\ nodes \subseteq Reached(nodes, edges)
           /\ \A e \in edges : e[1] \in Reached(nodes, edges) => e[2] \in Reached(nodes, edges)
<1>1. PICK R : Grows(R, nodes, edges) /\ Reached(nodes, edges) = R[Cardinality(edges)]
  BY ReachedBy
<1>2. R[0] = nodes /\ \A n \in Nat : R[n + 1] = Along(edges, R[n])
  BY <1>1, GrowsBy
<1>3. Cardinality(edges) \in Nat
  BY FS_CardinalityType
<1> DEFINE Used(n) == {e \in edges : e[1] \in R[n]}
           S == {n \in Nat : nodes \subseteq R[n] /\ (R[n + 1] = R[n] \/ Cardinality(Used(n)) >= n + 1)}
<1>4. \A n \in Nat : Used(n) \subseteq edges /\ IsFiniteSet(Used(n)) /\ Cardinality(Used(n)) \in Nat
                     /\ Cardinality(Used(n)) <= Cardinality(edges)
  <2>1. \A n \in Nat : Used(n) \in SUBSET edges
    OBVIOUS
  <2> HIDE DEF Used
  <2> QED
    BY <2>1, FS_Subset, FS_CardinalityType
<1>5. \A n \in Nat : R[n + 1] = R[n] \cup {e[2] : e \in Used(n)}
  BY <1>2 DEF Along
<1>6. \A n \in Nat : Used(n) \subseteq Used(n + 1)
  BY <1>5
<1>7. 0 \in S
  <2>1. CASE Used(0) = {}
    <3>1. R[0 + 1] = R[0]
      BY <1>5, <2>1
    <3> QED
      BY <1>2, <3>1
  <2>2. CASE Used(0) # {}
    <3>1. Cardinality(Used(0)) # 0
      BY <1>4, <2>2, FS_EmptySet
    <3>2. Cardinality(Used(0)) >= 0 + 1
      <4> HIDE DEF Used
      <4> QED
        BY <1>4, <3>1
    <3> QED
      BY <1>2, <3>2
  <2> QED
    BY <2>1, <2>2
<1>8. ASSUME NEW n \in Nat, n \in S
      PROVE  n + 1 \in S
  <2>1. n + 1 \in Nat /\ n + 1 + 1 \in Nat
    OBVIOUS
  <2>2. nodes \subseteq R[n + 1]
    BY <1>2, <1>8 DEF Along
  <2>3. CASE Used(n + 1) = Used(n)
    <3>1. R[n + 1 + 1] = R[n + 1]
      BY <1>5, <2>1, <2>3
    <3> QED
      BY <2>1, <2>2, <3>1
  <2>4. CASE Used(n + 1) # Used(n)
    <3>1. R[n + 1] # R[n]
      BY <2>4
    <3>2. Cardinality(Used(n)) >= n + 1
      BY <3>1, <1>8
    <3>3. Cardinality(Used(n + 1)) > Cardinality(Used(n))
      <4> HIDE DEF Used
      <4>1. Used(n) \in SUBSET Used(n + 1) /\ IsFiniteSet(Used(n + 1))
        BY <1>4, <1>6, <2>1
      <4>2. Cardinality(Used(n)) <= Cardinality(Used(n + 1)) /\ Cardinality(Used(n)) # Cardinality(Used(n + 1))
        BY <4>1, <2>4, FS_Subset
      <4> QED
        BY <1>4, <2>1, <4>2
    <3>4. Cardinality(Used(n + 1)) >= n + 1 + 1
      <4> HIDE DEF Used
      <4> QED
        BY <1>4, <2>1, <3>2, <3>3
    <3> QED
      BY <2>1, <2>2, <3>4
  <2> QED
    BY <2>3, <2>4
<1>9. Cardinality(edges) \in S
  <2> HIDE DEF S
  <2> QED
    BY <1>3, <1>7, <1>8, FromZero
<1> DEFINE N == Cardinality(edges)
<1>10. R[N + 1] = R[N]
  <2>1. N \in Nat /\ Cardinality(Used(N)) <= N /\ Cardinality(Used(N)) \in Nat
    BY <1>3, <1>4
  <2>2. ~(Cardinality(Used(N)) >= N + 1)
    <3> HIDE DEF N, Used
    <3> QED
      BY <2>1
  <2> QED
    BY <1>9, <2>2
<1>11. \A e \in edges : e[1] \in R[N] => e[2] \in R[N]
  <2>1. R[N + 1] = R[N] \cup {e[2] : e \in Used(N)}
    BY <1>3, <1>5
  <2> QED
    BY <1>10, <2>1
<1> QED
  BY <1>1, <1>9, <1>11

-----------------------------------------------------------------------------
(***************************************************************************)
(* The invariant.                                                          *)
(***************************************************************************)
\* Who may ask for what, and how far down the chain a query is.
Depth == [name \in Name |->
            CASE name = "ParsedGrammar" -> 0 [] name = "ResolvedImports" -> 1
              [] name = "WithCharsets" -> 2 [] name = "WithWhitespace" -> 3
              [] name = "WithCaptures" -> 4 [] name = "TransformedGrammar" -> 5]
AskedBy(id, c) ==
    /\ id \in Id /\ c \in Id
    /\ CASE c[1] = "ParsedGrammar" -> FALSE
         [] c[1] = "ResolvedImports" -> id[1] = "ParsedGrammar"
         [] OTHER -> id = Query(Source(c[1]), c[2])

\* `id` was asked for by `c`, and is cached.
Has(c, id) == id \in DOMAIN cache /\ <<id, c>> \in rdeps

\* The files and versions of a set of definitions.
Shown(defs) == {<<heap[d].file, heap[d].text>> : d \in defs}
FilesIn(defs) == {heap[d].file : d \in defs}
Now(files) == {<<f, LoadedText(f)>> : f \in files}

\* What resolveImportsRecursive has of `path`: all that it has is what the files
\* contain now, and what they import is there, cannot be loaded, or is to come.
Met(c, g) ==
    \/ Parsed(g) \in ToSet(c.todo)
    \/ Has(c.id, Parsed(g)) /\ (g \in FilesIn(c.acc.defs) \/ ~Loads(g))
Reach(path) == Reached({path}, Imported)
ResolvingOK(c) ==
    LET path == c.id[2]
        files == FilesIn(c.acc.defs)
    IN /\ \A i \in DOMAIN c.todo : \E g \in Reach(path) \cup {Builtins} : c.todo[i] = Parsed(g)
       /\ c.acc.defs \subseteq DOMAIN heap
       /\ \A d \in c.acc.defs : heap[d].body = d
       /\ IF c.acc.ok
          THEN /\ Shown(c.acc.defs) = Now(files)
               /\ files \subseteq {g \in Reach(path) \cup {Builtins} : Loads(g)}
               /\ Parsed(path) \in ToSet(c.todo) \/ path \in files
               /\ Met(c, path) /\ Met(c, Builtins)
               /\ \A f \in files : \A g \in ToSet(ImportsOf(f)) : Met(c, g)
          ELSE c.acc = Failure /\ c.todo = <<>> /\ ~Loads(path) /\ Has(c.id, Parsed(path))

CallOK(c) ==
    /\ c \in Call /\ c.id \notin DOMAIN cache
    /\ CASE c.id[1] = "ParsedGrammar" -> c.todo = <<>>
         [] c.id[1] = "ResolvedImports" -> ResolvingOK(c)
         [] OTHER ->
              LET source == Query(Source(c.id[1]), c.id[2])
              IN \/ c.todo = <<source>>
                 \/ c.todo = <<>> /\ Has(c.id, source) /\ c.acc = cache[source]

\* Each computation but the last waits for the one after it.
CallsOK ==
    /\ \A i \in DOMAIN calls : CallOK(calls[i])
    /\ \A i \in DOMAIN calls : i + 1 \in DOMAIN calls =>
          /\ calls[i].todo # <<>> /\ Head(calls[i].todo) = calls[i + 1].id
          /\ <<calls[i + 1].id, calls[i].id>> \in rdeps
    /\ \A i, j \in DOMAIN calls : i < j => Depth[calls[j].id[1]] < Depth[calls[i].id[1]]

Spaces == {"WithWhitespace", "WithCaptures", "TransformedGrammar"}
\* A cached value is what it would be now, and what it was computed from is
\* cached, and leads to it in rdeps.
Fresh(id, v) ==
    /\ v.ok = Loads(id[2])
    /\ Shown(v.defs) = SourcesNow(id)
    /\ id[1] = "ParsedGrammar" /\ v.ok => v.imports = ImportsOf(id[2])
    /\ id[1] \notin Spaces => \A d \in v.defs : heap[d].body = d
Rests(id) ==
    CASE id[1] = "ParsedGrammar" -> TRUE
      [] id[1] = "ResolvedImports" -> \A g \in Reach(id[2]) : Has(id, Parsed(g))
      [] OTHER -> Has(id, Query(Source(id[1]), id[2]))
CacheOK == \A id \in DOMAIN cache : Fresh(id, cache[id]) /\ Rests(id)

RdepsOK == IsFiniteSet(rdeps) /\ \A e \in rdeps : AskedBy(e[1], e[2])

\* The definitions of the user's files: what is parsed stays as it is, and each
\* grammar that went through the whitespace pass has copies of its own.
OfUser(d) == heap[d].file \in File
UserDefs(id) == {d \in cache[id].defs : OfUser(d)}
Whitespaced(path) == Query("WithWhitespace", path)
Captured(path) == Query("WithCaptures", path)
OriginalsOK ==
    /\ \A d \in DOMAIN heap : heap[d].body \in DOMAIN heap
    /\ \A d \in DOMAIN heap : OfUser(d) /\ heap[d].body = d => heap[d].captures = 0
OwnCopies ==
    /\ \A id \in DOMAIN cache : id[1] \in Spaces => \A d \in UserDefs(id) : heap[d].body # d
    /\ \A p, q \in Path : p # q /\ Whitespaced(p) \in DOMAIN cache /\ Whitespaced(q) \in DOMAIN cache
          => UserDefs(Whitespaced(p)) \cap UserDefs(Whitespaced(q)) = {}
    /\ \A id \in DOMAIN cache : id[1] \in {"WithCaptures", "TransformedGrammar"}
          => cache[id].defs = cache[Query(Source(id[1]), id[2])].defs
CountsOK ==
    \A p \in Path : Whitespaced(p) \in DOMAIN cache =>
        \A d \in UserDefs(Whitespaced(p)) :
            heap[d].captures = IF Captured(p) \in DOMAIN cache THEN 1 ELSE 0
CopiesOK == OriginalsOK /\ OwnCopies /\ CountsOK

Typed ==
    /\ content \in [File -> Contents]
    /\ DOMAIN cache \subseteq Id
    /\ \A id \in DOMAIN cache : cache[id] \in Value /\ cache[id].defs \subseteq DOMAIN heap
    /\ rdeps \subseteq Id \X Id /\ heap \in Seq(Definition)

FreshInv == TypeOK /\ RdepsOK /\ CacheOK /\ CallsOK
QInv == FreshInv /\ (HandleSpaces => CopiesOK)

-----------------------------------------------------------------------------
(***************************************************************************)
(* What a query rests on stays as it is while nothing is edited.           *)
(***************************************************************************)
\* Nothing that is cached or recorded is lost, and a definition keeps its file,
\* its version and the definition it is made from.
HeapGrown ==
    /\ DOMAIN heap \subseteq DOMAIN heap'
    /\ \A d \in DOMAIN heap : heap'[d].file = heap[d].file /\ heap'[d].text = heap[d].text
                              /\ heap'[d].body = heap[d].body
Grown ==
    /\ content' = content
    /\ \A id \in DOMAIN cache : id \in DOMAIN cache' /\ cache'[id] = cache[id]
    /\ rdeps \subseteq rdeps'
    /\ HeapGrown

LEMMA ContentKept ==
    ASSUME content' = content
    PROVE  /\ Imported' = Imported
           /\ \A p : Loads(p)' = Loads(p) /\ ImportsOf(p)' = ImportsOf(p) /\ LoadedText(p)' = LoadedText(p)
           /\ \A p : Reach(p)' = Reach(p)
           /\ \A id : SourcesNow(id)' = SourcesNow(id)
           /\ \A files : Now(files)' = Now(files)
<1>1. \A p : Loads(p)' = Loads(p) /\ ImportsOf(p)' = ImportsOf(p) /\ LoadedText(p)' = LoadedText(p)
  BY DEF Loads, ImportsOf, LoadedText
<1>2. Imported' = Imported
  BY DEF Imported, Loads, ImportsOf
<1>3. \A p : Reach(p)' = Reach(p)
  BY <1>2 DEF Reach
<1>4. \A p : FilesOf(p)' = FilesOf(p)
  BY <1>1, <1>2 DEF FilesOf
<1>5. \A id : SourcesNow(id)' = SourcesNow(id)
  BY <1>1, <1>4 DEF SourcesNow
<1>6. \A files : Now(files)' = Now(files)
  BY <1>1 DEF Now
<1> QED
  BY <1>1, <1>2, <1>3, <1>5, <1>6

LEMMA ShownKept ==
    ASSUME HeapGrown, NEW defs \in SUBSET DOMAIN heap
    PROVE  Shown(defs)' = Shown(defs) /\ FilesIn(defs)' = FilesIn(defs)
BY DEF HeapGrown, Shown, FilesIn

LEMMA FreshKept ==
    ASSUME content' = content, HeapGrown, NEW id, NEW v, v.defs \subseteq DOMAIN heap, Fresh(id, v)
    PROVE  Fresh(id, v)'
<1>1. Shown(v.defs)' = Shown(v.defs)
  BY ShownKept
<1>2. SourcesNow(id)' = SourcesNow(id) /\ Loads(id[2])' = Loads(id[2]) /\ ImportsOf(id[2])' = ImportsOf(id[2])
  BY ContentKept
<1>3. \A d \in v.defs : heap'[d].body = heap[d].body
  BY DEF HeapGrown
<1> QED
  BY <1>1, <1>2, <1>3 DEF Fresh

LEMMA RestsKept ==
    ASSUME Grown, NEW id, Rests(id)
    PROVE  Rests(id)'
<1>1. \A a : Has(id, a) => Has(id, a)'
  BY DEF Grown, Has
<1>2. Reach(id[2])' = Reach(id[2])
  BY ContentKept DEF Grown
<1> QED
  BY <1>1, <1>2 DEF Rests

LEMMA CallKept ==
    ASSUME Grown, NEW c, CallOK(c), c.id \notin DOMAIN cache'
    PROVE  CallOK(c)'
<1>1. \A a : Has(c.id, a) => Has(c.id, a)' /\ cache'[a] = cache[a]
  BY DEF Grown, Has
<1>2. CASE c.id[1] = "ResolvedImports"
  <2>1. ResolvingOK(c)
    BY <1>2 DEF CallOK
  <2>2. c.acc.defs \subseteq DOMAIN heap
    BY <2>1 DEF ResolvingOK
  <2>3. /\ Reach(c.id[2])' = Reach(c.id[2])
        /\ \A p : Loads(p)' = Loads(p) /\ ImportsOf(p)' = ImportsOf(p)
        /\ \A files : Now(files)' = Now(files)
    BY ContentKept DEF Grown
  <2>4. Shown(c.acc.defs)' = Shown(c.acc.defs) /\ FilesIn(c.acc.defs)' = FilesIn(c.acc.defs)
    BY <2>2, ShownKept DEF Grown
  <2>5. \A g : Met(c, g) => Met(c, g)'
    BY <1>1, <2>3, <2>4 DEF Met
  <2>6. c.acc.defs \subseteq DOMAIN heap' /\ \A d \in c.acc.defs : heap'[d].body = d
    BY <2>1 DEF Grown, HeapGrown, ResolvingOK
  <2>7. ResolvingOK(c)'
    BY <1>1, <2>1, <2>3, <2>4, <2>5, <2>6 DEF ResolvingOK
  <2> QED
    BY <1>2, <2>7 DEF CallOK
<1>3. CASE c.id[1] # "ResolvedImports"
  BY <1>1, <1>3 DEF CallOK
<1> QED
  BY <1>2, <1>3

-----------------------------------------------------------------------------
(***************************************************************************)
(* The files, and the queries about them.                                  *)
(***************************************************************************)
LEMMA ContentFacts ==
    ASSUME content \in [File -> Contents], NEW p \in Path, Loads(p)
    PROVE  ImportsOf(p) \in Seq(File) /\ LoadedText(p) \in Text
<1>1. CASE p = Builtins
  BY <1>1, ChoicesAssumption DEF ImportsOf, LoadedText
<1>2. CASE p # Builtins
  BY <1>2, ContentsAssumption DEF ImportsOf, LoadedText, Loads, Path
<1> QED
  BY <1>1, <1>2

LEMMA ImportedFinite == IsFiniteSet(Imported)
<1>1. IsFiniteSet(Path)
  BY FileAssumption, FS_AddElement DEF Path
<1>2. IsFiniteSet(Path \X File)
  BY <1>1, FileAssumption, FS_Product
<1>3. Imported \in SUBSET (Path \X File)
  BY DEF Imported
<1> QED
  BY <1>2, <1>3, FS_Subset

LEMMA ReachFacts ==
    ASSUME NEW path \in Path
    PROVE  /\ path \in Reach(path) /\ Reach(path) \subseteq Path
           /\ \A f \in Reach(path), g \in File :
                 Loads(f) /\ g \in ToSet(ImportsOf(f)) => g \in Reach(path)
<1>1. \A e \in Imported : e \in Path \X File /\ e[2] \in Path
  BY DEF Imported, Path
<1>2. Reach(path) \subseteq Path
  BY <1>1, ImportedFinite, ReachedLeast DEF Reach
<1>3. path \in Reach(path) /\ \A e \in Imported : e[1] \in Reach(path) => e[2] \in Reach(path)
  BY ImportedFinite, ReachedClosed DEF Reach
<1>4. ASSUME NEW f \in Reach(path), NEW g \in File, Loads(f), g \in ToSet(ImportsOf(f))
      PROVE  g \in Reach(path)
  <2>1. <<f, g>> \in Imported
    BY <1>2, <1>4 DEF Imported
  <2> QED
    BY <1>3, <2>1
<1> QED
  BY <1>2, <1>3, <1>4

\* A set of files that has what they import has all that is reached.
LEMMA ReachIsLeast ==
    ASSUME NEW path \in Path, NEW X, path \in X,
           \A f \in X \cap Path : \A g \in File : Loads(f) /\ g \in ToSet(ImportsOf(f)) => g \in X
    PROVE  Reach(path) \subseteq X
<1>1. \A e \in Imported : e[1] \in X => e[2] \in X
  BY DEF Imported
<1> QED
  BY <1>1, ImportedFinite, ReachedLeast DEF Reach

LEMMA QueryFacts ==
    /\ \A name, p : Query(name, p)[1] = name /\ Query(name, p)[2] = p
    /\ \A id \in Id : id[1] \in Name /\ id[2] \in Path /\ id = Query(id[1], id[2])
    /\ \A name \in Name, p \in Path : Query(name, p) \in Id
    /\ \A name \in Name \ {"ParsedGrammar", "ResolvedImports"} : Source(name) \in Name \ {name}
    /\ \A p \in Path : Parsed(p) \in Id
    /\ \A p, q : Parsed(p) = Parsed(q) => p = q
<1>1. \A id \in Id : id[1] \in Name /\ id[2] \in Path /\ id = Query(id[1], id[2])
  BY DEF Id, Query
<1>2. \A name \in Name, p \in Path : Query(name, p) \in Id
  BY DEF Id, Query
<1>3. \A name \in Name \ {"ParsedGrammar", "ResolvedImports"} : Source(name) \in Name \ {name}
  BY DEF Name, Source
<1> QED
  BY <1>1, <1>2, <1>3 DEF Query, Parsed, Name

LEMMA DepthFacts ==
    ASSUME NEW id, NEW c, AskedBy(id, c)
    PROVE  /\ id \in Id /\ c \in Id /\ c[1] # "ParsedGrammar"
           /\ Depth[id[1]] \in Nat /\ Depth[c[1]] \in Nat /\ Depth[id[1]] < Depth[c[1]]
<1>1. id \in Id /\ c \in Id /\ id[1] \in Name /\ c[1] \in Name /\ c[1] # "ParsedGrammar"
  BY QueryFacts DEF AskedBy
<1>2. \A name \in Name : Depth[name] \in Nat
  BY DEF Depth, Name
<1>3. CASE c[1] = "ResolvedImports"
  <2>1. id[1] = "ParsedGrammar"
    BY <1>3 DEF AskedBy
  <2> QED
    BY <1>1, <1>2, <1>3, <2>1 DEF Depth
<1>4. CASE c[1] # "ResolvedImports"
  <2>1. id[1] = Source(c[1])
    BY <1>1, <1>4, QueryFacts DEF AskedBy
  <2> QED
    BY <1>1, <1>2, <1>4, <2>1 DEF Depth, Source, Name
<1> QED
  BY <1>1, <1>2, <1>3, <1>4

-----------------------------------------------------------------------------
(***************************************************************************)
(* A computation begins, and goes on with what it asked for.               *)
(***************************************************************************)
LEMMA StartOK ==
    Typed => \A id \in Id : id \notin DOMAIN cache => CallOK(Start(id))
<1> SUFFICES ASSUME Typed, NEW id \in Id, id \notin DOMAIN cache
             PROVE  CallOK(Start(id))
  OBVIOUS
<1> DEFINE c == Start(id)
<1>1. c.id = id /\ c.todo = Asks(id) /\ c.acc = Grammar({}, <<>>)
  BY DEF Start
<1>2. id[1] \in Name /\ id[2] \in Path /\ Builtins \in Path
  BY QueryFacts DEF Path
<1>3. Asks(id) \in Seq(Id)
  BY <1>2, QueryFacts DEF Asks, Name
<1>4. c \in Call
  BY <1>1, <1>3 DEF Start, Call, Grammar, Value
<1>5. CASE id[1] = "ParsedGrammar"
  BY <1>1, <1>4, <1>5 DEF CallOK, Asks
<1>6. CASE id[1] = "ResolvedImports"
  <2>1. c.todo = <<Parsed(id[2]), Parsed(Builtins)>> /\ c.acc.defs = {} /\ c.acc.ok = TRUE
    BY <1>1, <1>6 DEF Asks, Grammar
  <2>2. DOMAIN c.todo = {1, 2} /\ c.todo[1] = Parsed(id[2]) /\ c.todo[2] = Parsed(Builtins)
    BY <2>1
  <2>3. Parsed(id[2]) \in ToSet(c.todo) /\ Parsed(Builtins) \in ToSet(c.todo)
    BY <2>2 DEF ToSet
  <2>4. Met(c, id[2]) /\ Met(c, Builtins)
    BY <2>3 DEF Met
  <2>5. id[2] \in Reach(id[2])
    BY <1>2, ReachFacts
  <2>6. Shown({}) = {} /\ FilesIn({}) = {} /\ Now({}) = {}
    BY DEF Shown, FilesIn, Now
  <2> HIDE DEF c
  <2>7. ResolvingOK(c)
    BY <1>1, <2>1, <2>2, <2>3, <2>4, <2>5, <2>6 DEF ResolvingOK
  <2>8. CallOK(c)
    BY <1>1, <1>4, <1>6, <2>7 DEF CallOK
  <2> QED
    BY <2>8 DEF c
<1>7. CASE id[1] \notin {"ParsedGrammar", "ResolvedImports"}
  BY <1>1, <1>4, <1>7 DEF CallOK, Asks
<1> QED
  BY <1>5, <1>6, <1>7

LEMMA JoinedSet ==
    ASSUME NEW S, NEW s \in Seq(S), NEW t \in Seq(S)
    PROVE  s \o t \in Seq(S) /\ ToSet(s \o t) = ToSet(s) \cup ToSet(t)
<1>1. /\ s \o t \in Seq(S) /\ Len(s) \in Nat /\ Len(t) \in Nat /\ DOMAIN (s \o t) = 1..Len(s) + Len(t)
      /\ DOMAIN s = 1..Len(s) /\ DOMAIN t = 1..Len(t)
      /\ \A i \in 1..Len(s) + Len(t) : (s \o t)[i] = IF i <= Len(s) THEN s[i] ELSE t[i - Len(s)]
  OBVIOUS
<1>2. ASSUME NEW i \in DOMAIN (s \o t)
      PROVE  (s \o t)[i] \in ToSet(s) \cup ToSet(t)
  <2>1. CASE i \in DOMAIN s
    BY <1>1, <2>1 DEF ToSet
  <2>2. CASE i \notin DOMAIN s
    <3>1. i - Len(s) \in DOMAIN t /\ (s \o t)[i] = t[i - Len(s)]
      BY <1>1, <2>2
    <3> QED
      BY <3>1 DEF ToSet
  <2> QED
    BY <2>1, <2>2
<1>3. ASSUME NEW i \in DOMAIN s
      PROVE  s[i] \in ToSet(s \o t)
  <2>1. i \in DOMAIN (s \o t) /\ (s \o t)[i] = s[i]
    BY <1>1
  <2> QED
    BY <2>1 DEF ToSet
<1>4. ASSUME NEW i \in DOMAIN t
      PROVE  t[i] \in ToSet(s \o t)
  <2>1. i + Len(s) \in DOMAIN (s \o t) /\ (s \o t)[i + Len(s)] = t[i]
    BY <1>1
  <2> QED
    BY <2>1 DEF ToSet
<1>5. ToSet(s \o t) \subseteq ToSet(s) \cup ToSet(t)
  BY <1>2 DEF ToSet
<1>6. ToSet(s) \subseteq ToSet(s \o t) /\ ToSet(t) \subseteq ToSet(s \o t)
  BY <1>3, <1>4 DEF ToSet
<1> QED
  BY <1>1, <1>5, <1>6

\* What a cached parsed grammar shows.
LEMMA ParsedFacts ==
    ASSUME CacheOK, NEW g \in Path, Parsed(g) \in DOMAIN cache
    PROVE  /\ cache[Parsed(g)].ok = Loads(g)
           /\ Loads(g) => /\ Shown(cache[Parsed(g)].defs) = {<<g, LoadedText(g)>>}
                          /\ FilesIn(cache[Parsed(g)].defs) = {g}
                          /\ cache[Parsed(g)].imports = ImportsOf(g)
           /\ \A d \in cache[Parsed(g)].defs : heap[d].body = d
<1> DEFINE v == cache[Parsed(g)]
<1>1. Fresh(Parsed(g), v) /\ Parsed(g)[1] = "ParsedGrammar" /\ Parsed(g)[2] = g
  BY QueryFacts DEF CacheOK, Parsed
<1>2. v.ok = Loads(g) /\ (Loads(g) => v.imports = ImportsOf(g)) /\ \A d \in v.defs : heap[d].body = d
  BY <1>1 DEF Fresh, Spaces
<1>3. ASSUME Loads(g)
      PROVE  Shown(v.defs) = {<<g, LoadedText(g)>>}
  BY <1>1, <1>3 DEF Fresh, SourcesNow
<1>4. ASSUME Loads(g)
      PROVE  FilesIn(v.defs) = {g}
  <2>1. \A d \in v.defs : <<heap[d].file, heap[d].text>> \in Shown(v.defs)
    BY DEF Shown
  <2>2. \A d \in v.defs : heap[d].file = g
    BY <1>3, <1>4, <2>1
  <2>3. v.defs # {}
    BY <1>3, <1>4 DEF Shown
  <2> QED
    BY <2>2, <2>3 DEF FilesIn
<1> QED
  BY <1>2, <1>3, <1>4

LEMMA ResolveOK ==
    ASSUME Typed, CacheOK, NEW c, CallOK(c), c.id[1] = "ResolvedImports", c.todo # <<>>,
           Has(c.id, Head(c.todo))
    PROVE  CallOK(Resolve(c, cache[Head(c.todo)]))
<1> DEFINE path == c.id[2]
           v == cache[Head(c.todo)]
           c1 == Resolve(c, v)
           rest == Tail(c.todo)
<1>1. c \in Call /\ c.id \in Id /\ c.id \notin DOMAIN cache /\ c.todo \in Seq(Id) /\ c.acc \in Value /\ ResolvingOK(c)
  BY DEF CallOK, Call
<1>2. path \in Path /\ Builtins \in Path /\ Reach(path) \subseteq Path
  BY <1>1, QueryFacts, ReachFacts DEF Path
<1>3. /\ rest \in Seq(Id) /\ 1 \in DOMAIN c.todo /\ Head(c.todo) = c.todo[1]
      /\ \A i \in DOMAIN rest : i + 1 \in DOMAIN c.todo /\ rest[i] = c.todo[i + 1]
      /\ \A i \in DOMAIN c.todo : i # 1 => i - 1 \in DOMAIN rest /\ c.todo[i] = rest[i - 1]
  BY <1>1
<1>4. PICK g \in Reach(path) \cup {Builtins} : Head(c.todo) = Parsed(g)
  BY <1>1, <1>3 DEF ResolvingOK
<1>5. g \in Path /\ Has(c.id, Parsed(g)) /\ v = cache[Parsed(g)] /\ Parsed(g) \in DOMAIN cache
  BY <1>2, <1>4 DEF Has
<1>6. ToSet(c.todo) = {Parsed(g)} \cup ToSet(rest)
  BY <1>3, <1>4 DEF ToSet
<1>7. c.acc.ok
  BY <1>1 DEF ResolvingOK
<1>8. /\ v.ok = Loads(g)
      /\ Loads(g) => Shown(v.defs) = {<<g, LoadedText(g)>>} /\ FilesIn(v.defs) = {g} /\ v.imports = ImportsOf(g)
      /\ \A d \in v.defs : heap[d].body = d
  BY <1>5, ParsedFacts
<1>9. v \in Value /\ v.defs \in SUBSET Ref /\ v.defs \subseteq DOMAIN heap
  BY <1>5 DEF Typed, Value
<1>10. CASE Loads(g)
  <2> DEFINE visits == Visit(v.imports)
             defs == c.acc.defs \cup v.defs
  <2>1. c1 = [c EXCEPT !.acc = Grammar(defs, <<>>), !.todo = visits \o rest]
    BY <1>8, <1>10 DEF Resolve
  <2>2. c1.id = c.id /\ c1.todo = visits \o rest /\ c1.acc = Grammar(defs, <<>>)
    BY <1>1, <2>1 DEF Call
  <2>3. v.imports \in Seq(File)
    BY <1>5, <1>8, <1>10, ContentFacts DEF Typed
  <2>4. /\ visits \in Seq(Id) /\ DOMAIN visits = DOMAIN v.imports
        /\ \A i \in DOMAIN visits : visits[i] = Parsed(v.imports[i])
    BY <2>3, QueryFacts DEF Visit, Path
  <2>5. /\ visits \o rest \in Seq(Id) /\ ToSet(visits \o rest) = ToSet(visits) \cup ToSet(rest)
        /\ ToSet(visits) = {Parsed(h) : h \in ToSet(v.imports)}
    <3>1. ToSet(visits) = {Parsed(h) : h \in ToSet(v.imports)}
      BY <2>4 DEF ToSet
    <3> HIDE DEF visits, rest
    <3> QED
      BY <1>3, <2>4, <3>1, JoinedSet
  <2>6. c1 \in Call
    <3>1. defs \in SUBSET Ref /\ Grammar(defs, <<>>) \in Value
      BY <1>1, <1>9 DEF Value, Grammar
    <3> QED
      BY <1>1, <2>1, <2>5, <3>1 DEF Call
  <2>7. /\ c1.acc.ok = TRUE /\ c1.acc.defs = defs
        /\ FilesIn(defs) = FilesIn(c.acc.defs) \cup {g}
        /\ Shown(defs) = Shown(c.acc.defs) \cup {<<g, LoadedText(g)>>}
        /\ Now(FilesIn(defs)) = Now(FilesIn(c.acc.defs)) \cup {<<g, LoadedText(g)>>}
    <3>1. FilesIn(defs) = FilesIn(c.acc.defs) \cup FilesIn(v.defs) /\ Shown(defs) = Shown(c.acc.defs) \cup Shown(v.defs)
      BY DEF FilesIn, Shown
    <3>2. FilesIn(defs) = FilesIn(c.acc.defs) \cup {g}
      BY <1>8, <1>10, <3>1
    <3>3. Shown(defs) = Shown(c.acc.defs) \cup {<<g, LoadedText(g)>>}
      BY <1>8, <1>10, <3>1
    <3>4. Now(FilesIn(defs)) = Now(FilesIn(c.acc.defs)) \cup {<<g, LoadedText(g)>>}
      BY <3>2 DEF Now
    <3>5. c1.acc.ok = TRUE /\ c1.acc.defs = defs
      BY <2>2 DEF Grammar
    <3> QED
      BY <3>2, <3>3, <3>4, <3>5
  <2> HIDE DEF c1, defs, visits, v, rest
  <2>8. ASSUME NEW h, Met(c, h)
        PROVE  Met(c1, h)
    <3>1. CASE Parsed(h) = Parsed(g)
      <4>1. h = g
        BY <3>1, QueryFacts
      <4> QED
        BY <1>5, <2>2, <2>7, <4>1 DEF Met
    <3>2. CASE Parsed(h) # Parsed(g)
      BY <1>6, <2>2, <2>5, <2>7, <2>8, <3>2 DEF Met
    <3> QED
      BY <3>1, <3>2
  <2>9. ASSUME NEW h \in ToSet(ImportsOf(g))
        PROVE  Met(c1, h) /\ h \in File
    <3>1. Parsed(h) \in ToSet(c1.todo) /\ h \in ToSet(v.imports)
      BY <1>8, <1>10, <2>2, <2>5
    <3> QED
      BY <2>3, <3>1 DEF Met, ToSet
  <2>10. ASSUME NEW h \in ToSet(ImportsOf(g))
         PROVE  h \in Reach(path)
    <3>1. CASE g \in Reach(path)
      BY <1>2, <1>10, <2>9, <3>1, ReachFacts
    <3>2. CASE g = Builtins
      BY <3>2 DEF ImportsOf, ToSet
    <3> QED
      BY <1>4, <3>1, <3>2
  <2>11. \A i \in DOMAIN c1.todo : \E h \in Reach(path) \cup {Builtins} : c1.todo[i] = Parsed(h)
    <3> SUFFICES ASSUME NEW q \in ToSet(c1.todo)
                 PROVE  \E h \in Reach(path) \cup {Builtins} : q = Parsed(h)
      BY DEF ToSet
    <3>1. CASE q \in ToSet(visits)
      BY <1>8, <1>10, <2>5, <2>10, <3>1
    <3>2. CASE q \in ToSet(rest)
      BY <1>1, <1>3, <3>2 DEF ResolvingOK, ToSet
    <3> QED
      BY <2>2, <2>5, <3>1, <3>2
  <2>12. Parsed(path) \in ToSet(c1.todo) \/ path \in FilesIn(defs)
    <3>1. CASE Parsed(path) = Parsed(g)
      <4>1. path = g
        BY <3>1, QueryFacts
      <4> QED
        BY <2>7, <4>1
    <3>2. CASE Parsed(path) # Parsed(g)
      BY <1>1, <1>6, <1>7, <2>2, <2>5, <2>7, <3>2 DEF ResolvingOK
    <3> QED
      BY <3>1, <3>2
  <2>13. \A f \in FilesIn(defs) : \A h \in ToSet(ImportsOf(f)) : Met(c1, h)
    BY <1>1, <1>7, <2>7, <2>8, <2>9 DEF ResolvingOK
  <2>14. Shown(defs) = Now(FilesIn(defs)) /\ FilesIn(defs) \subseteq {h \in Reach(path) \cup {Builtins} : Loads(h)}
    BY <1>1, <1>4, <1>7, <1>10, <2>7 DEF ResolvingOK
  <2>15. defs \subseteq DOMAIN heap /\ \A d \in defs : heap[d].body = d
    BY <1>1, <1>8, <1>9 DEF ResolvingOK, defs
  <2>16. Met(c1, path) /\ Met(c1, Builtins)
    BY <1>1, <1>7, <2>8 DEF ResolvingOK
  <2>17. ResolvingOK(c1)
    BY <2>2, <2>7, <2>11, <2>12, <2>13, <2>14, <2>15, <2>16 DEF ResolvingOK
  <2> QED
    BY <1>1, <2>2, <2>6, <2>17 DEF CallOK, c1, v
<1>11. CASE ~Loads(g) /\ g = path
  <2>1. c1 = [c EXCEPT !.acc = Failure, !.todo = <<>>]
    BY <1>4, <1>8, <1>11 DEF Resolve
  <2>2. c1.id = c.id /\ c1.todo = <<>> /\ c1.acc = Failure /\ c1 \in Call
    <3>1. <<>> \in Seq(Id) /\ Failure \in Value
      BY DEF Failure, Value
    <3> QED
      BY <1>1, <2>1, <3>1 DEF Call
  <2>3. c1.acc.defs = {} /\ c1.acc.ok = FALSE
    BY <2>2 DEF Failure
  <2> HIDE DEF c1, v
  <2>4. ResolvingOK(c1)
    BY <1>5, <1>11, <2>2, <2>3 DEF ResolvingOK
  <2> QED
    BY <1>1, <2>2, <2>4 DEF CallOK, c1, v
<1>12. CASE ~Loads(g) /\ g # path
  <2>1. Parsed(g) # Parsed(path)
    BY <1>12, QueryFacts
  <2>2. c1 = [c EXCEPT !.todo = rest]
    BY <1>4, <1>8, <1>12, <2>1 DEF Resolve
  <2>3. c1.id = c.id /\ c1.todo = rest /\ c1.acc = c.acc /\ c1 \in Call
    BY <1>1, <1>3, <2>2 DEF Call
  <2> HIDE DEF c1, v
  <2>4. ASSUME NEW h, Met(c, h)
        PROVE  Met(c1, h)
    <3>1. CASE Parsed(h) = Parsed(g)
      <4>1. h = g
        BY <3>1, QueryFacts
      <4> QED
        BY <1>5, <1>12, <2>3, <4>1 DEF Met
    <3>2. CASE Parsed(h) # Parsed(g)
      BY <1>6, <2>3, <2>4, <3>2 DEF Met
    <3> QED
      BY <3>1, <3>2
  <2>5. Parsed(path) \in ToSet(c1.todo) \/ path \in FilesIn(c1.acc.defs)
    BY <1>1, <1>6, <1>7, <2>1, <2>3 DEF ResolvingOK
  <2>6. \A i \in DOMAIN c1.todo : \E h \in Reach(path) \cup {Builtins} : c1.todo[i] = Parsed(h)
    BY <1>1, <1>3, <2>3 DEF ResolvingOK
  <2>7. ResolvingOK(c1)
    BY <1>1, <1>7, <2>3, <2>4, <2>5, <2>6 DEF ResolvingOK
  <2> QED
    BY <1>1, <2>3, <2>7 DEF CallOK, c1, v
<1> QED
  BY <1>10, <1>11, <1>12

GoesOn ==
    Typed /\ CacheOK =>
        \A b : CallOK(b) /\ b.todo # <<>> /\ Has(b.id, Head(b.todo)) => CallOK(Take(b, cache[Head(b.todo)]))
LEMMA TakeOK == GoesOn
<1> SUFFICES ASSUME Typed, CacheOK, NEW c, CallOK(c), c.todo # <<>>, Has(c.id, Head(c.todo))
             PROVE  CallOK(Take(c, cache[Head(c.todo)]))
  BY DEF GoesOn
<1>1. CASE c.id[1] = "ResolvedImports"
  BY <1>1, ResolveOK DEF Take
<1>2. CASE c.id[1] # "ResolvedImports"
  <2> DEFINE source == Query(Source(c.id[1]), c.id[2])
             c1 == [c EXCEPT !.acc = cache[source], !.todo = <<>>]
  <2>1. c \in Call /\ c.id[1] # "ParsedGrammar" /\ c.todo = <<source>> /\ Head(c.todo) = source
    BY <1>2 DEF CallOK
  <2>2. Has(c.id, source) /\ cache[source] \in Value
    BY <2>1 DEF Has, Typed
  <2>3. c1 \in Call /\ c1.id = c.id /\ c1.todo = <<>> /\ c1.acc = cache[source]
    <3>1. <<>> \in Seq(Id)
      OBVIOUS
    <3> QED
      BY <2>1, <2>2, <3>1 DEF Call
  <2>4. Take(c, cache[Head(c.todo)]) = c1
    BY <1>2, <2>1 DEF Take
  <2> HIDE DEF c1
  <2>5. CallOK(c1)
    BY <1>2, <2>1, <2>2, <2>3 DEF CallOK
  <2> QED
    BY <2>4, <2>5
<1> QED
  BY <1>1, <1>2

-----------------------------------------------------------------------------
(***************************************************************************)
(* What a computation results in.                                          *)
(***************************************************************************)
LEMMA EnumeratedSet ==
    ASSUME NEW S, IsFiniteSet(S)
    PROVE  /\ SetToSeq(S) \in Seq(S) /\ Len(SetToSeq(S)) \in Nat
           /\ \A x \in S : \E i \in DOMAIN SetToSeq(S) : SetToSeq(S)[i] = x
           /\ \A i, j \in DOMAIN SetToSeq(S) : SetToSeq(S)[i] = SetToSeq(S)[j] => i = j
<1> DEFINE n == Cardinality(S)
           f == SetToSeq(S)
<1>1. n \in Nat /\ ExistsBijection(1..n, S)
  BY FS_CardinalityType
<1>2. PICK b \in Bijection(1..n, S) : TRUE
  BY <1>1 DEF ExistsBijection
<1>3. b \in [1..n -> S] /\ IsInjective(b)
  BY <1>2 DEF Bijection, Injection, IsInjective
<1>4. f \in [1..n -> S] /\ IsInjective(f)
  BY <1>3 DEF SetToSeq
<1>5. \A i, j \in 1..n : f[i] = f[j] => i = j
  BY <1>4 DEF IsInjective
<1>6. f \in Injection(1..n, S)
  BY <1>4, <1>5 DEF Injection, IsInjective
<1>7. IsFiniteSet(1..n) /\ Cardinality(1..n) = n
  BY <1>1, FS_Interval
<1> HIDE DEF f
<1>8. f \in Surjection(1..n, S)
  BY <1>6, <1>7, FS_Injection
<1>9. \A x \in S : \E i \in 1..n : f[i] = x
  BY <1>8 DEF Surjection
<1>10. f \in Seq(S) /\ Len(f) = n /\ DOMAIN f = 1..n
  BY <1>1, <1>4
<1> QED
  BY <1>1, <1>5, <1>9, <1>10 DEF f

\* Copied definitions come after those that were there.
Injected(v, r, order) ==
    /\ Len(order) \in Nat
    /\ \A d \in Copied(v.defs) : \E i \in DOMAIN order : order[i] = d
    /\ r.value = [v EXCEPT !.defs = (@ \ Copied(v.defs)) \cup (Len(heap) + 1..Len(heap) + Len(order))]
    /\ r.heap \in Seq(Definition)
    /\ Len(r.heap) = Len(heap) + Len(order)
    /\ \A d \in DOMAIN heap : r.heap[d] = heap[d] \/ r.heap[d] = Spaced(d)
    /\ \A i \in DOMAIN order : r.heap[Len(heap) + i] = Spaced(order[i])

LEMMA InjectFacts ==
    ASSUME heap \in Seq(Definition), NEW v \in Value, v.defs \subseteq DOMAIN heap, NEW r, r = InjectWhitespaces(v)
    PROVE  \E order \in Seq(Copied(v.defs)) : Injected(v, r, order)
<1> DEFINE copied == Copied(v.defs)
           order == SetToSeq(copied)
           shared == {heap[d].body : d \in {d \in copied : heap[d].text \in ChoiceText}}
           old == [d \in 1..Len(heap) |-> IF heap[d].body \in shared THEN Spaced(d) ELSE heap[d]]
           new == [i \in 1..Len(order) |-> Spaced(order[i])]
<1>1. copied \subseteq DOMAIN heap /\ Len(heap) \in Nat /\ DOMAIN heap = 1..Len(heap)
  BY DEF Copied
<1>2. IsFiniteSet(copied)
  <2>1. IsFiniteSet(1..Len(heap))
    BY <1>1, FS_Interval
  <2> HIDE DEF copied
  <2> QED
    BY <1>1, <2>1, FS_Subset
<1>3. /\ order \in Seq(copied) /\ Len(order) \in Nat
      /\ \A d \in copied : \E i \in DOMAIN order : order[i] = d
  <2> HIDE DEF copied
  <2> QED
    BY <1>2, EnumeratedSet
<1>4. r = [value |-> [v EXCEPT !.defs = (@ \ copied) \cup NewRefs(Len(order))], heap |-> old \o new]
  BY DEF InjectWhitespaces
<1> HIDE DEF copied, order, shared
<1>5. \A d \in DOMAIN heap : heap[d] \in Definition /\ Spaced(d) \in Definition
  <2> SUFFICES ASSUME NEW d \in DOMAIN heap
               PROVE  heap[d] \in Definition /\ Spaced(d) \in Definition
    OBVIOUS
  <2>1. heap[d] \in Definition
    OBVIOUS
  <2>2. heap[d].spaces + 1 \in Nat
    BY <2>1 DEF Definition
  <2> QED
    BY <2>1, <2>2 DEF Spaced, Definition
<1>6. \A i \in DOMAIN order : order[i] \in DOMAIN heap
  BY <1>1, <1>3
<1>7. old \in Seq(Definition) /\ Len(old) = Len(heap) /\ new \in Seq(Definition) /\ Len(new) = Len(order)
  <2>1. \A d \in 1..Len(heap) : (IF heap[d].body \in shared THEN Spaced(d) ELSE heap[d]) \in Definition
    BY <1>1, <1>5
  <2>2. old \in [1..Len(heap) -> Definition]
    BY <2>1
  <2>3. \A i \in 1..Len(order) : Spaced(order[i]) \in Definition
    BY <1>3, <1>5, <1>6
  <2>4. new \in [1..Len(order) -> Definition]
    BY <2>3
  <2> HIDE DEF old, new
  <2>5. \A n \in Nat : \A s \in [1..n -> Definition] : s \in Seq(Definition) /\ Len(s) = n
    OBVIOUS
  <2> QED
    BY <1>1, <1>3, <2>2, <2>4, <2>5
<1>8. \A d \in DOMAIN heap : old[d] = heap[d] \/ old[d] = Spaced(d)
  BY <1>1
<1>9. \A i \in DOMAIN order : new[i] = Spaced(order[i])
  BY <1>3
<1> HIDE DEF old, new
<1>10. r.heap \in Seq(Definition) /\ Len(r.heap) = Len(heap) + Len(order)
  <2>1. r.heap = old \o new
    BY <1>4
  <2> QED
    BY <1>7, <2>1
<1>11. \A d \in DOMAIN heap : r.heap[d] = old[d]
  BY <1>1, <1>4, <1>7
<1>12. \A i \in DOMAIN order : r.heap[Len(heap) + i] = new[i]
  <2>1. r.heap = old \o new
    BY <1>4
  <2>2. \A p \in Seq(Definition), q \in Seq(Definition) : \A i \in 1..Len(q) : (p \o q)[Len(p) + i] = q[i]
    OBVIOUS
  <2>3. DOMAIN order = 1..Len(new)
    BY <1>3, <1>7
  <2>4. \A i \in 1..Len(new) : (old \o new)[Len(old) + i] = new[i]
    BY <1>7, <2>2
  <2> QED
    BY <1>7, <2>1, <2>3, <2>4
<1>13. r.value = [v EXCEPT !.defs = (@ \ copied) \cup (Len(heap) + 1..Len(heap) + Len(order))]
  BY <1>4 DEF NewRefs
<1>14. Injected(v, r, order)
  BY <1>3, <1>8, <1>9, <1>10, <1>11, <1>12, <1>13 DEF copied, Injected
<1> QED
  BY <1>3, <1>14 DEF copied

\* A computation that has what it asked for has what its query shows now.
LEMMA ResolvedFresh ==
    ASSUME Typed, NEW c, CallOK(c), c.id[1] = "ResolvedImports", c.todo = <<>>
    PROVE  Fresh(c.id, c.acc) /\ Rests(c.id)
<1> DEFINE path == c.id[2]
           files == FilesIn(c.acc.defs)
           X == {g \in Path : Met(c, g)}
<1>1. c.id \in Id /\ path \in Path /\ ResolvingOK(c) /\ ToSet(c.todo) = {}
  BY QueryFacts DEF CallOK, Call, ToSet
<1>2. \A d \in c.acc.defs : heap[d].body = d
  BY <1>1 DEF ResolvingOK
<1>3. CASE c.acc.ok
  <2>1. /\ path \in files /\ Shown(c.acc.defs) = Now(files)
        /\ files \subseteq {g \in Reach(path) \cup {Builtins} : Loads(g)}
        /\ Met(c, path) /\ Met(c, Builtins) /\ \A f \in files : \A g \in ToSet(ImportsOf(f)) : Met(c, g)
    BY <1>1, <1>3 DEF ResolvingOK
  <2>2. \A g : Met(c, g) => Has(c.id, Parsed(g)) /\ (g \in files \/ ~Loads(g))
    BY <1>1 DEF Met
  <2>3. Reach(path) \subseteq X
    <3>1. path \in X
      BY <1>1, <2>1
    <3>2. \A f \in X \cap Path : \A g \in File : Loads(f) /\ g \in ToSet(ImportsOf(f)) => g \in X
      BY <2>1, <2>2 DEF Path
    <3> HIDE DEF X, path
    <3> QED
      BY <1>1, <3>1, <3>2, ReachIsLeast
  <2>4. Builtins \in files
    BY <2>1, <2>2 DEF Loads
  <2>5. files = {g \in Reach(path) : Loads(g)} \cup {Builtins}
    BY <2>1, <2>2, <2>3, <2>4
  <2>6. SourcesNow(c.id) = Now(files) /\ Loads(path)
    BY <1>1, <2>1, <2>5, Zenon DEF SourcesNow, FilesOf, Reach, Now
  <2>7. Fresh(c.id, c.acc)
    BY <1>2, <1>3, <2>1, <2>6 DEF Fresh
  <2>8. Rests(c.id)
    BY <2>2, <2>3 DEF Rests
  <2> QED
    BY <2>7, <2>8
<1>4. CASE ~c.acc.ok
  <2>1. c.acc = Failure /\ ~Loads(path) /\ Has(c.id, Parsed(path))
    BY <1>1, <1>4 DEF ResolvingOK
  <2>2. Reach(path) \subseteq {path}
    <3> HIDE DEF path
    <3>1. path \in {path} /\ \A f \in {path} \cap Path : ~Loads(f)
      BY <2>1
    <3> QED
      BY <1>1, <3>1, ReachIsLeast
  <2>3. SourcesNow(c.id) = {} /\ Shown({}) = {}
    BY <2>1 DEF SourcesNow, Shown
  <2>4. c.acc.ok = FALSE /\ c.acc.defs = {} /\ Loads(path) = FALSE
    BY <2>1 DEF Failure, Loads
  <2>6. Fresh(c.id, c.acc)
    BY <2>3, <2>4 DEF Fresh
  <2>5. Rests(c.id)
    BY <2>1, <2>2 DEF Rests
  <2> QED
    BY <2>5, <2>6
<1> QED
  BY <1>3, <1>4

LEMMA CallFacts ==
    ASSUME Typed, CacheOK, NEW c, CallOK(c), c.todo = <<>>, c.id[1] # "ParsedGrammar"
    PROVE  /\ c.acc \in Value /\ c.acc.defs \subseteq DOMAIN heap
           /\ c.acc.ok = Loads(c.id[2]) /\ Shown(c.acc.defs) = SourcesNow(c.id)
           /\ Source(c.id[1]) \notin Spaces \/ c.id[1] = "ResolvedImports" => \A d \in c.acc.defs : heap[d].body = d
           /\ Rests(c.id)
<1>1. c \in Call /\ c.id \in Id /\ c.acc \in Value
  BY DEF CallOK, Call
<1>2. CASE c.id[1] = "ResolvedImports"
  <2>1. c.acc.defs \subseteq DOMAIN heap
    BY <1>2 DEF CallOK, ResolvingOK
  <2> QED
    BY <1>1, <1>2, <2>1, ResolvedFresh DEF Fresh, Spaces
<1>3. CASE c.id[1] # "ResolvedImports"
  <2> DEFINE source == Query(Source(c.id[1]), c.id[2])
  <2>1. Has(c.id, source) /\ c.acc = cache[source] /\ source \in DOMAIN cache
    BY <1>3 DEF CallOK, Has
  <2>2. source[1] = Source(c.id[1]) /\ source[2] = c.id[2] /\ source[1] # "ParsedGrammar"
    <3>1. Source(c.id[1]) # "ParsedGrammar"
      BY <1>1, <1>3, QueryFacts DEF Source, Name
    <3> QED
      BY <3>1, QueryFacts
  <2>3. Fresh(source, c.acc) /\ c.acc.defs \subseteq DOMAIN heap
    BY <2>1 DEF CacheOK, Typed
  <2>4. SourcesNow(source) = SourcesNow(c.id)
    BY <2>2 DEF SourcesNow
  <2>5. Rests(c.id)
    BY <1>3, <2>1 DEF Rests
  <2> HIDE DEF source
  <2> QED
    BY <1>1, <1>3, <2>2, <2>3, <2>4, <2>5 DEF Fresh
<1> QED
  BY <1>2, <1>3

Results(id, r) ==
    /\ HeapGrown
    /\ heap' \in Seq(Definition)
    /\ r.value \in Value
    /\ r.value.defs \subseteq DOMAIN heap'
    /\ Fresh(id, r.value)'

LEMMA ParseOK ==
    ASSUME Typed, NEW path \in Path, NEW r, r = Parse(path), heap' = r.heap, content' = content
    PROVE  Results(Parsed(path), r)
<1>1. Parsed(path)[1] = "ParsedGrammar" /\ Parsed(path)[2] = path
  BY QueryFacts DEF Parsed
<1>2. /\ SourcesNow(Parsed(path))' = SourcesNow(Parsed(path)) /\ Loads(path)' = Loads(path)
      /\ ImportsOf(path)' = ImportsOf(path)
  BY ContentKept
<1>3. heap \in Seq(Definition) /\ Len(heap) \in Nat /\ DOMAIN heap = 1..Len(heap)
  BY DEF Typed
<1>4. CASE Loads(path)
  <2> DEFINE new == [file |-> path, text |-> LoadedText(path), body |-> Len(heap) + 1, spaces |-> 0, captures |-> 0]
  <2>0. PICK n : n = Len(heap) + 1
    OBVIOUS
  <2>1. r.heap = Append(heap, new) /\ r.value = Grammar({n}, ImportsOf(path))
    <3>1. NewRefs(1) = {n}
      BY <1>3, <2>0 DEF NewRefs
    <3> QED
      BY <1>4, <2>0, <3>1 DEF Parse
  <2>2. ImportsOf(path) \in Seq(File) /\ LoadedText(path) \in Text
    BY <1>4, ContentFacts DEF Typed
  <2>3. n \in Ref /\ new \in Definition
    BY <1>3, <2>0, <2>2 DEF Ref, Definition
  <2>4. r.value \in Value /\ r.value.defs = {n} /\ r.value.ok = TRUE /\ r.value.imports = ImportsOf(path)
    BY <2>1, <2>2, <2>3 DEF Grammar, Value
  <2>5. new.file = path /\ new.text = LoadedText(path) /\ new.body = n
    BY <2>0
  <2> HIDE DEF new
  <2>6. /\ heap' \in Seq(Definition) /\ DOMAIN heap' = 1..n /\ heap'[n] = new
        /\ \A d \in DOMAIN heap : d \in 1..n /\ heap'[d] = heap[d]
    BY <1>3, <2>0, <2>1, <2>3
  <2>7. HeapGrown /\ n \in DOMAIN heap'
    BY <1>3, <2>0, <2>6 DEF HeapGrown
  <2>8. heap'[n].file = path /\ heap'[n].text = LoadedText(path) /\ heap'[n].body = n
    BY <2>5, <2>6
  <2>12. Shown({n})' = {<<path, LoadedText(path)>>}
    <3>1. Shown({n})' = {<<heap'[d].file, heap'[d].text>> : d \in {n}}
      BY DEF Shown
    <3> QED
      BY <2>8, <3>1
  <2>9. SourcesNow(Parsed(path)) = {<<path, LoadedText(path)>>}
    BY <1>1, <1>4 DEF SourcesNow
  <2>10. Loads(path) = TRUE
    BY <1>4 DEF Loads
  <2>11. Fresh(Parsed(path), r.value)'
    <3>1. r.value.ok = Loads(Parsed(path)[2])' /\ r.value.imports = ImportsOf(Parsed(path)[2])'
      BY <1>1, <1>2, <2>4, <2>10
    <3>2. Shown(r.value.defs)' = SourcesNow(Parsed(path))'
      BY <1>2, <2>4, <2>9, <2>12
    <3>3. \A d \in r.value.defs : heap'[d].body = d
      BY <2>4, <2>8
    <3> QED
      BY <3>1, <3>2, <3>3 DEF Fresh
  <2> QED
    BY <2>4, <2>6, <2>7, <2>11 DEF Results
<1>5. CASE ~Loads(path)
  <2>1. r.heap = heap /\ r.value = Failure
    BY <1>5 DEF Parse
  <2>2. r.value \in Value /\ r.value.defs = {} /\ r.value.ok = FALSE
    BY <2>1 DEF Failure, Value
  <2>3. Shown({})' = {} /\ SourcesNow(Parsed(path)) = {} /\ Loads(path) = FALSE
    BY <1>1, <1>5 DEF Shown, SourcesNow, Loads
  <2>4. HeapGrown
    BY <2>1 DEF HeapGrown
  <2>5. Fresh(Parsed(path), r.value)'
    BY <1>1, <1>2, <2>2, <2>3 DEF Fresh
  <2> QED
    BY <1>3, <2>1, <2>2, <2>4, <2>5 DEF Results
<1> QED
  BY <1>4, <1>5

\* The definitions that are not copied, and the copies of the others, show what
\* the definitions showed.
LEMMA InjectOK ==
    ASSUME Typed, NEW v \in Value, v.defs \subseteq DOMAIN heap, NEW r, r = InjectWhitespaces(v), heap' = r.heap
    PROVE  /\ HeapGrown /\ heap' \in Seq(Definition)
           /\ r.value \in Value /\ r.value.defs \subseteq DOMAIN heap' /\ r.value.ok = v.ok
           /\ Shown(r.value.defs)' = Shown(v.defs)
<1>1. heap \in Seq(Definition) /\ Len(heap) \in Nat /\ DOMAIN heap = 1..Len(heap)
  BY DEF Typed
<1>2. PICK order \in Seq(Copied(v.defs)) : Injected(v, r, order)
  BY <1>1, InjectFacts
<1> DEFINE copied == Copied(v.defs)
           n == Len(heap)
           m == Len(order)
           fresh == n + 1..n + m
<1>3. copied \subseteq v.defs
  BY DEF Copied
<1>4. /\ m \in Nat /\ DOMAIN order = 1..m /\ \A d \in copied : \E i \in DOMAIN order : order[i] = d
      /\ r.value = [v EXCEPT !.defs = (@ \ copied) \cup fresh]
      /\ heap' \in Seq(Definition) /\ Len(heap') = n + m
      /\ \A d \in DOMAIN heap : heap'[d] = heap[d] \/ heap'[d] = Spaced(d)
      /\ \A i \in DOMAIN order : heap'[n + i] = Spaced(order[i])
  BY <1>2 DEF Injected
<1>5. \A i \in DOMAIN order : order[i] \in copied
  BY <1>2
<1> HIDE DEF copied
<1>6. \A d \in DOMAIN heap : Spaced(d).file = heap[d].file /\ Spaced(d).text = heap[d].text /\ Spaced(d).body = heap[d].body
  BY <1>1 DEF Spaced, Definition
<1>7. DOMAIN heap' = 1..n + m
  BY <1>1, <1>4
<1>8. HeapGrown
  <2>1. DOMAIN heap \subseteq DOMAIN heap'
    BY <1>1, <1>4, <1>7
  <2> QED
    BY <1>4, <1>6, <2>1 DEF HeapGrown
<1>9. r.value.defs = (v.defs \ copied) \cup fresh /\ r.value.ok = v.ok /\ r.value \in Value
  <2>1. fresh \in SUBSET Ref
    BY <1>1, <1>4 DEF Ref
  <2> QED
    BY <1>4, <2>1 DEF Value
<1>10. r.value.defs \subseteq DOMAIN heap'
  BY <1>1, <1>4, <1>7, <1>9
<1>11. ASSUME NEW d \in r.value.defs
       PROVE  <<heap'[d].file, heap'[d].text>> \in Shown(v.defs)
  <2>1. CASE d \in v.defs
    BY <1>8, <2>1 DEF HeapGrown, Shown
  <2>2. CASE d \in fresh
    <3>1. d - n \in DOMAIN order /\ d = n + (d - n)
      BY <1>1, <1>4, <2>2
    <3>2. heap'[d] = Spaced(order[d - n]) /\ order[d - n] \in v.defs
      BY <1>3, <1>4, <1>5, <3>1
    <3> QED
      BY <1>6, <3>2 DEF Shown
  <2> QED
    BY <1>9, <2>1, <2>2
<1>12. ASSUME NEW d \in v.defs
       PROVE  <<heap[d].file, heap[d].text>> \in Shown(r.value.defs)'
  <2>1. CASE d \notin copied
    BY <1>8, <1>9, <2>1 DEF HeapGrown, Shown
  <2>2. CASE d \in copied
    <3>1. PICK i \in DOMAIN order : order[i] = d
      BY <1>4, <2>2
    <3>2. n + i \in fresh /\ heap'[n + i] = Spaced(d)
      BY <1>1, <1>4, <3>1
    <3>3. n + i \in r.value.defs
      BY <1>9, <3>2
    <3> QED
      BY <1>6, <3>2, <3>3 DEF Shown
  <2> QED
    BY <2>1, <2>2
<1>13. Shown(r.value.defs)' = Shown(v.defs)
  BY <1>11, <1>12 DEF Shown
<1> QED
  BY <1>4, <1>8, <1>9, <1>10, <1>13

LEMMA CapturesOK ==
    ASSUME Typed, NEW v, NEW r, r = AddCaptures(v), heap' = r.heap
    PROVE  /\ HeapGrown /\ heap' \in Seq(Definition) /\ DOMAIN heap' = DOMAIN heap
           /\ r.value = v
           /\ \A d \in DOMAIN heap :
                 heap'[d].captures = IF d \in v.defs THEN heap[d].captures + 1 ELSE heap[d].captures
<1>1. heap \in Seq(Definition) /\ Len(heap) \in Nat /\ DOMAIN heap = 1..Len(heap)
  BY DEF Typed
<1> DEFINE one(d) == [heap[d] EXCEPT !.captures = @ + 1]
<1>2. ASSUME NEW d \in DOMAIN heap
      PROVE  /\ one(d) \in Definition /\ one(d).captures = heap[d].captures + 1
             /\ one(d).file = heap[d].file /\ one(d).text = heap[d].text /\ one(d).body = heap[d].body
  <2>1. heap[d] \in Definition /\ heap[d].captures + 1 \in Nat
    <3>1. heap[d] \in Definition
      BY <1>1
    <3> QED
      BY <3>1 DEF Definition
  <2> QED
    BY <2>1 DEF Definition
<1>3. heap' = [d \in 1..Len(heap) |-> IF d \in v.defs THEN one(d) ELSE heap[d]] /\ r.value = v
  BY DEF AddCaptures
<1> HIDE DEF one
<1>4. heap' \in Seq(Definition) /\ DOMAIN heap' = DOMAIN heap
  BY <1>1, <1>2, <1>3
<1>5. \A d \in DOMAIN heap : heap'[d] = IF d \in v.defs THEN one(d) ELSE heap[d]
  BY <1>1, <1>3
<1> QED
  BY <1>2, <1>3, <1>4, <1>5 DEF HeapGrown

LEMMA ComputeOK ==
    ASSUME Typed, CacheOK, NEW c, CallOK(c), c.todo = <<>>, NEW r, r = Compute(c), heap' = r.heap, content' = content
    PROVE  Results(c.id, r) /\ Rests(c.id)
<1>1. c \in Call /\ c.id \in Id /\ c.id[1] \in Name /\ c.id[2] \in Path /\ c.id = Query(c.id[1], c.id[2])
  BY QueryFacts DEF CallOK, Call
<1>2. CASE c.id[1] = "ParsedGrammar"
  <2>1. r = Parse(c.id[2]) /\ Rests(c.id) /\ c.id = Parsed(c.id[2])
    BY <1>1, <1>2 DEF Compute, Rests, Parsed
  <2> QED
    BY <1>1, <2>1, ParseOK
<1>3. CASE c.id[1] # "ParsedGrammar"
  <2>1. /\ c.acc \in Value /\ c.acc.defs \subseteq DOMAIN heap
        /\ c.acc.ok = Loads(c.id[2]) /\ Shown(c.acc.defs) = SourcesNow(c.id)
        /\ (Source(c.id[1]) \notin Spaces \/ c.id[1] = "ResolvedImports") => \A d \in c.acc.defs : heap[d].body = d
        /\ Rests(c.id)
    BY <1>3, CallFacts
  <2>2. SourcesNow(c.id)' = SourcesNow(c.id) /\ Loads(c.id[2])' = Loads(c.id[2])
    BY ContentKept
  <2>3. CASE c.id[1] = "WithWhitespace"
    <3>1. r = InjectWhitespaces(c.acc) /\ c.id[1] \in Spaces
      BY <2>3 DEF Compute, Spaces
    <3>2. /\ HeapGrown /\ heap' \in Seq(Definition)
          /\ r.value \in Value /\ r.value.defs \subseteq DOMAIN heap' /\ r.value.ok = c.acc.ok
          /\ Shown(r.value.defs)' = Shown(c.acc.defs)
      BY <2>1, <3>1, InjectOK
    <3>3. Fresh(c.id, r.value)'
      BY <1>3, <2>1, <2>2, <3>1, <3>2 DEF Fresh
    <3> QED
      BY <2>1, <3>2, <3>3 DEF Results
  <2>4. CASE c.id[1] # "WithWhitespace"
    <3>1. HeapGrown /\ heap' \in Seq(Definition) /\ r.value = c.acc
      <4>1. CASE c.id[1] = "WithCaptures"
        <5>1. r = AddCaptures(c.acc)
          BY <4>1 DEF Compute
        <5> QED
          BY <5>1, CapturesOK
      <4>2. CASE c.id[1] # "WithCaptures"
        <5>1. r = [value |-> c.acc, heap |-> heap]
          BY <1>3, <2>4, <4>2 DEF Compute
        <5> QED
          BY <5>1 DEF Typed, HeapGrown
      <4> QED
        BY <4>1, <4>2
    <3>2. c.id[1] \notin Spaces => \A d \in c.acc.defs : heap'[d].body = d
      <4>1. c.id[1] \notin Spaces => Source(c.id[1]) \notin Spaces \/ c.id[1] = "ResolvedImports"
        BY <1>1, <1>3 DEF Spaces, Source, Name
      <4> QED
        BY <2>1, <3>1, <4>1 DEF HeapGrown
    <3>3. Shown(c.acc.defs)' = Shown(c.acc.defs)
      BY <2>1, <3>1, ShownKept
    <3>4. Fresh(c.id, r.value)'
      BY <1>3, <2>1, <2>2, <3>1, <3>2, <3>3 DEF Fresh
    <3> QED
      BY <2>1, <3>1, <3>4 DEF Results, HeapGrown
  <2> QED
    BY <2>3, <2>4
<1> QED
  BY <1>2, <1>3

-----------------------------------------------------------------------------
(***************************************************************************)
(* The steps of Get.                                                       *)
(***************************************************************************)
LEMMA ActiveFacts ==
    ASSUME FreshInv, calls # <<>>
    PROVE  /\ Typed /\ calls \in Seq(Call) /\ Len(calls) \in Nat /\ Len(calls) >= 1
           /\ DOMAIN calls = 1..Len(calls) /\ Active = calls[Len(calls)]
           /\ CallOK(Active) /\ Active \in Call /\ Active.id \in Id /\ Active.id \notin DOMAIN cache
<1>1. calls \in Seq(Call) /\ Typed
  BY DEF FreshInv, TypeOK, Typed
<1>2. Len(calls) \in Nat /\ Len(calls) >= 1 /\ DOMAIN calls = 1..Len(calls)
  BY <1>1
<1>3. Active = calls[Len(calls)] /\ CallOK(Active)
  BY <1>2 DEF Active, FreshInv, CallsOK
<1> QED
  BY <1>1, <1>2, <1>3 DEF CallOK, Call

LEMMA AsksRight ==
    ASSUME NEW c, CallOK(c), c.todo # <<>>
    PROVE  AskedBy(Head(c.todo), c.id) /\ Head(c.todo) \in Id
<1>1. c \in Call /\ c.id \in Id /\ c.todo \in Seq(Id) /\ Head(c.todo) = c.todo[1] /\ 1 \in DOMAIN c.todo
  BY DEF CallOK, Call
<1>2. Head(c.todo) \in Id
  BY <1>1
<1>3. CASE c.id[1] = "ResolvedImports"
  <2>1. PICK g : c.todo[1] = Parsed(g)
    BY <1>1, <1>3 DEF CallOK, ResolvingOK
  <2>2. Head(c.todo)[1] = "ParsedGrammar"
    BY <1>1, <2>1, QueryFacts DEF Parsed
  <2> QED
    BY <1>1, <1>2, <1>3, <2>2 DEF AskedBy
<1>4. CASE c.id[1] # "ResolvedImports"
  <2>1. c.id[1] # "ParsedGrammar" /\ c.todo = <<Query(Source(c.id[1]), c.id[2])>>
    BY <1>4 DEF CallOK
  <2> QED
    BY <1>1, <1>2, <1>4, <2>1 DEF AskedBy
<1> QED
  BY <1>2, <1>3, <1>4

LEMMA TakeFacts ==
    ASSUME NEW c \in Call, NEW v
    PROVE  Take(c, v).id = c.id
BY DEF Call, Take, Resolve

LEMMA CacheKept ==
    ASSUME Typed, CacheOK, Grown, DOMAIN cache' = DOMAIN cache
    PROVE  CacheOK'
<1> SUFFICES ASSUME NEW id \in DOMAIN cache'
             PROVE  (Fresh(id, cache[id]) /\ Rests(id))'
  BY Zenon DEF CacheOK
<1>1. PICK v : v = cache[id]
  OBVIOUS
<1>2. cache'[id] = v /\ Fresh(id, v) /\ Rests(id) /\ v.defs \subseteq DOMAIN heap
  BY <1>1 DEF CacheOK, Grown, Typed
<1>3. Fresh(id, v)' /\ Rests(id)'
  BY <1>2, FreshKept, RestsKept DEF Grown
<1>4. Fresh(id, cache[id])'
  BY <1>2, <1>3 DEF Fresh
<1> QED
  BY <1>3, <1>4

LEMMA RecordedFacts ==
    ASSUME FreshInv, calls # <<>>, NEW c, c = Active, c.todo # <<>>, NEW id, id = Head(c.todo),
           rdeps' = Recorded(id), cache' = cache, content' = content, heap' = heap
    PROVE  Grown /\ Typed' /\ RdepsOK' /\ CacheOK' /\ AskedBy(id, c.id) /\ <<id, c.id>> \in rdeps'
<1>1. AskedBy(id, c.id) /\ Typed
  BY ActiveFacts, AsksRight
<1>2. rdeps' = rdeps \cup {<<id, c.id>>}
  BY DEF Recorded
<1>3. Grown
  BY <1>2 DEF Grown, HeapGrown
<1>4. RdepsOK'
  <2>1. IsFiniteSet(rdeps) /\ \A e \in rdeps : AskedBy(e[1], e[2])
    BY DEF FreshInv, RdepsOK
  <2>2. IsFiniteSet(rdeps')
    <3>1. IsFiniteSet(rdeps \cup {<<id, c.id>>})
      BY <2>1, FS_AddElement
    <3> QED
      BY <1>2, <3>1
  <2>3. \A e \in rdeps' : AskedBy(e[1], e[2])
    BY <1>1, <1>2, <2>1
  <2> QED
    BY <2>2, <2>3 DEF RdepsOK
<1>5. <<id, c.id>> \in Id \X Id
  BY <1>1 DEF AskedBy
<1>6. Typed'
  BY <1>1, <1>2, <1>5 DEF Typed
<1>7. CacheOK'
  BY <1>1, <1>3, CacheKept DEF FreshInv
<1> QED
  BY <1>1, <1>2, <1>3, <1>4, <1>6, <1>7

LEMMA AskKeeps ==
    ASSUME FreshInv, NEW id \in Asked, Ask(id)
    PROVE  FreshInv'
<1>1. /\ calls' = <<Start(id)>> /\ id \notin DOMAIN cache /\ UNCHANGED <<content, cache, rdeps, heap, edits>>
  BY DEF Ask
<1>2. Typed /\ id \in Id
  BY AskedAssumption DEF FreshInv, TypeOK, Typed
<1>3. Grown
  BY <1>1 DEF Grown, HeapGrown
<1>4. CallOK(Start(id)) /\ Start(id).id = id
  BY <1>1, <1>2, StartOK DEF Start
<1>5. CallOK(Start(id))'
  <2>1. PICK c : c = Start(id)
    OBVIOUS
  <2>2. CallOK(c)'
    BY <1>1, <1>3, <1>4, <2>1, CallKept
  <2> QED
    BY <2>1, <2>2
<1>6. Start(id) \in Call
  BY <1>4 DEF CallOK
<1>7. calls' \in Seq(Call) /\ DOMAIN calls' = {1} /\ calls'[1] = Start(id)
  BY <1>1, <1>6
<1>8. CallsOK'
  BY <1>5, <1>7 DEF CallsOK
<1>9. TypeOK' /\ RdepsOK'
  BY <1>1, <1>7 DEF FreshInv, TypeOK, RdepsOK
<1>10. CacheOK'
  BY <1>1, <1>2, <1>3, CacheKept DEF FreshInv
<1> QED
  BY <1>8, <1>9, <1>10 DEF FreshInv

LEMMA GetCachedKeeps ==
    ASSUME FreshInv, GetCached
    PROVE  FreshInv'
<1>1. PICK c : c = Active
  OBVIOUS
<1>2. PICK id : id = Head(c.todo)
  OBVIOUS
<1>3. PICK c1 : c1 = Take(c, cache[id])
  OBVIOUS
<1>4. /\ calls # <<>> /\ c.todo # <<>> /\ id \in DOMAIN cache /\ rdeps' = Recorded(id)
      /\ calls' = SetActive(c1) /\ UNCHANGED <<content, cache, heap, edits>>
  BY <1>1, <1>2, <1>3 DEF GetCached
<1>5. Grown /\ Typed' /\ RdepsOK' /\ CacheOK' /\ AskedBy(id, c.id) /\ <<id, c.id>> \in rdeps'
  BY <1>1, <1>2, <1>4, RecordedFacts
<1> DEFINE n == Len(calls)
<1>6. /\ calls \in Seq(Call) /\ n \in Nat /\ n >= 1 /\ DOMAIN calls = 1..n /\ c = calls[n]
      /\ CallOK(c) /\ c \in Call
  BY <1>1, <1>4, ActiveFacts
<1>7. \A i \in DOMAIN calls : CallOK(calls[i]) /\ calls[i].id \notin DOMAIN cache'
  BY <1>4 DEF FreshInv, CallsOK, CallOK
<1>8. \A i \in DOMAIN calls : \A b : b = calls[i] => CallOK(b)'
  BY <1>5, <1>7, CallKept
<1>9. CallOK(c1)'
  <2>1. CallOK(c)' /\ Has(c.id, Head(c.todo))'
    BY <1>2, <1>4, <1>5, <1>6, <1>8 DEF Has
  <2>2. GoesOn'
    BY TakeOK, PTL
  <2>3. CallOK(Take(c, cache[Head(c.todo)]))'
    BY <1>4, <1>5, <2>1, <2>2 DEF GoesOn
  <2>4. Take(c, cache[Head(c.todo)])' = c1
    BY <1>2, <1>3, <1>4
  <2> QED
    BY <2>3, <2>4
<1>10. c1.id = c.id /\ c1 \in Call
  BY <1>3, <1>6, <1>9, TakeFacts DEF CallOK
<1>11. /\ calls' \in Seq(Call) /\ DOMAIN calls' = 1..n /\ calls'[n] = c1
       /\ \A i \in 1..n : i # n => calls'[i] = calls[i]
       /\ \A i \in 1..n : calls'[i].id = calls[i].id
  BY <1>4, <1>6, <1>10 DEF SetActive
<1>12. CallsOK'
  <2>1. \A i \in DOMAIN calls' : CallOK(calls[i])'
    BY <1>6, <1>8, <1>9, <1>11
  <2>2. ASSUME NEW i \in DOMAIN calls', i + 1 \in DOMAIN calls'
        PROVE  /\ calls'[i].todo # <<>> /\ Head(calls'[i].todo) = calls'[i + 1].id
               /\ <<calls'[i + 1].id, calls'[i].id>> \in rdeps'
    <3>1. i \in 1..n /\ i # n /\ i + 1 \in 1..n
      <4>1. n \in Nat /\ i \in 1..n /\ i + 1 \in 1..n
        BY <1>6, <1>11, <2>2
      <4> HIDE DEF n
      <4> QED
        BY <4>1
    <3>2. calls'[i] = calls[i] /\ calls'[i + 1].id = calls[i + 1].id
      BY <1>11, <3>1
    <3>3. /\ calls[i].todo # <<>> /\ Head(calls[i].todo) = calls[i + 1].id
          /\ <<calls[i + 1].id, calls[i].id>> \in rdeps
      BY <1>6, <3>1 DEF FreshInv, CallsOK
    <3> QED
      BY <1>5, <3>2, <3>3 DEF Grown
  <2>3. \A i, j \in DOMAIN calls' : i < j => Depth[calls'[j].id[1]] < Depth[calls'[i].id[1]]
    BY <1>6, <1>11 DEF FreshInv, CallsOK
  <2> QED
    BY <2>1, <2>2, <2>3 DEF CallsOK
<1>13. TypeOK'
  BY <1>4, <1>5, <1>11 DEF TypeOK, Typed, FreshInv
<1> QED
  BY <1>5, <1>12, <1>13 DEF FreshInv

LEMMA GetMissingKeeps ==
    ASSUME FreshInv, GetMissing
    PROVE  FreshInv'
<1>1. PICK c : c = Active
  OBVIOUS
<1>2. PICK id : id = Head(c.todo)
  OBVIOUS
<1>3. PICK c1 : c1 = Start(id)
  OBVIOUS
<1>4. /\ calls # <<>> /\ c.todo # <<>> /\ id \notin DOMAIN cache /\ rdeps' = Recorded(id)
      /\ calls' = Append(calls, c1) /\ UNCHANGED <<content, cache, heap, edits>>
  BY <1>1, <1>2, <1>3 DEF GetMissing
<1>5. Grown /\ Typed' /\ RdepsOK' /\ CacheOK' /\ AskedBy(id, c.id) /\ <<id, c.id>> \in rdeps'
  BY <1>1, <1>2, <1>4, RecordedFacts
<1> DEFINE n == Len(calls)
<1>6. /\ calls \in Seq(Call) /\ n \in Nat /\ n >= 1 /\ DOMAIN calls = 1..n /\ c = calls[n]
      /\ Typed
  BY <1>1, <1>4, ActiveFacts
<1>7. \A i \in DOMAIN calls : CallOK(calls[i]) /\ calls[i].id \notin DOMAIN cache'
  BY <1>4 DEF FreshInv, CallsOK, CallOK
<1>8. \A i \in DOMAIN calls : \A b : b = calls[i] => CallOK(b)'
  BY <1>5, <1>7, CallKept
<1>9. CallOK(c1) /\ c1.id = id /\ c1 \in Call
  BY <1>3, <1>4, <1>5, <1>6, StartOK DEF Start, CallOK, AskedBy
<1>10. CallOK(c1)'
  BY <1>4, <1>5, <1>9, CallKept
<1>11. /\ calls' \in Seq(Call) /\ DOMAIN calls' = 1..n + 1 /\ calls'[n + 1] = c1
       /\ \A i \in 1..n : calls'[i] = calls[i]
  BY <1>4, <1>6, <1>9
<1>12. CallsOK'
  <2>1. \A i \in 1..n + 1 : i # n + 1 => i \in 1..n
    BY <1>6
  <2>2. \A i \in DOMAIN calls' : CallOK(calls[i])'
    BY <1>6, <1>8, <1>10, <1>11, <2>1
  <2>3. ASSUME NEW i \in DOMAIN calls', i + 1 \in DOMAIN calls'
        PROVE  /\ calls'[i].todo # <<>> /\ Head(calls'[i].todo) = calls'[i + 1].id
               /\ <<calls'[i + 1].id, calls'[i].id>> \in rdeps'
    <3>1. CASE i = n
      <4>1. calls'[i] = c /\ calls'[i + 1] = c1
        BY <1>6, <1>11, <3>1
      <4> QED
        BY <1>2, <1>4, <1>5, <1>9, <4>1
    <3>2. CASE i # n
      <4>1. i \in 1..n /\ i + 1 \in 1..n
        BY <1>6, <1>11, <2>3, <3>2
      <4> QED
        BY <1>5, <1>6, <1>11, <4>1 DEF FreshInv, CallsOK, Grown
    <3> QED
      BY <3>1, <3>2
  <2>4. ASSUME NEW i \in DOMAIN calls', NEW j \in DOMAIN calls', i < j
        PROVE  Depth[calls'[j].id[1]] < Depth[calls'[i].id[1]]
    <3>1. i \in 1..n /\ calls'[i] = calls[i]
      BY <1>6, <1>11, <2>4
    <3>2. CASE j \in 1..n
      BY <1>6, <1>11, <2>4, <3>1, <3>2 DEF FreshInv, CallsOK
    <3>3. CASE j = n + 1
      <4>1. calls'[j].id = id /\ Depth[id[1]] \in Nat /\ Depth[c.id[1]] \in Nat /\ Depth[id[1]] < Depth[c.id[1]]
        BY <1>5, <1>9, <1>11, <3>3, DepthFacts
      <4>2. CASE i = n
        BY <1>6, <3>1, <4>1, <4>2
      <4>3. CASE i # n
        <5>1. i < n /\ n \in DOMAIN calls /\ i \in DOMAIN calls
          BY <1>6, <3>1, <4>3
        <5>2. Depth[c.id[1]] < Depth[calls[i].id[1]]
          BY <1>6, <5>1 DEF FreshInv, CallsOK
        <5>3. Depth[calls[i].id[1]] \in Nat
          <6>1. calls[i] \in Call
            BY <1>6, <3>1
          <6>2. calls[i].id[1] \in Name
            BY <6>1, QueryFacts DEF Call
          <6> QED
            BY <6>2 DEF Depth, Name
        <5> QED
          BY <3>1, <4>1, <5>2, <5>3
      <4> QED
        BY <4>2, <4>3
    <3> QED
      BY <1>11, <2>1, <3>2, <3>3
  <2> QED
    BY <2>2, <2>3, <2>4 DEF CallsOK
<1>13. TypeOK'
  BY <1>4, <1>5, <1>11 DEF TypeOK, Typed, FreshInv
<1> QED
  BY <1>5, <1>12, <1>13 DEF FreshInv

LEMMA ReturnFacts ==
    ASSUME FreshInv, Return, NEW c, c = Active, NEW r, r = Compute(c)
    PROVE  /\ calls # <<>> /\ c.todo = <<>> /\ CallOK(c) /\ c \in Call /\ c.id \in Id /\ c.id \notin DOMAIN cache
           /\ heap' = r.heap /\ content' = content /\ rdeps' = rdeps
           /\ DOMAIN cache' = DOMAIN cache \cup {c.id} /\ cache'[c.id] = r.value
           /\ Grown /\ Results(c.id, r) /\ Typed' /\ CacheOK'
<1>1. /\ calls # <<>> /\ c.todo = <<>> /\ heap' = r.heap /\ UNCHANGED <<content, rdeps, edits>>
      /\ cache' = [id \in DOMAIN cache \cup {c.id} |-> IF id = c.id THEN r.value ELSE cache[id]]
  BY DEF Return
<1>2. CallOK(c) /\ c \in Call /\ c.id \in Id /\ c.id \notin DOMAIN cache /\ Typed
  BY <1>1, ActiveFacts
<1>3. Results(c.id, r) /\ Rests(c.id)
  BY <1>1, <1>2, ComputeOK DEF FreshInv
<1>4. DOMAIN cache' = DOMAIN cache \cup {c.id} /\ cache'[c.id] = r.value /\ \A id \in DOMAIN cache : cache'[id] = cache[id]
  BY <1>1, <1>2
<1>5. Grown
  BY <1>1, <1>3, <1>4 DEF Grown, Results
<1>6. Typed'
  <2>1. DOMAIN heap \subseteq DOMAIN heap'
    BY <1>3 DEF Results, HeapGrown
  <2> QED
    BY <1>1, <1>2, <1>3, <1>4, <2>1 DEF Typed, Results
<1>7. CacheOK'
  <2> SUFFICES ASSUME NEW id \in DOMAIN cache'
               PROVE  (Fresh(id, cache[id]) /\ Rests(id))'
    BY Zenon DEF CacheOK
  <2>1. PICK v : v = cache'[id]
    OBVIOUS
  <2>2. Fresh(id, v)' /\ Rests(id)'
    <3>1. CASE id = c.id
      BY <1>3, <1>4, <1>5, <2>1, <3>1, RestsKept DEF Results
    <3>2. CASE id # c.id
      <4>1. id \in DOMAIN cache /\ v = cache[id]
        BY <1>4, <2>1, <3>2
      <4>2. Fresh(id, v) /\ Rests(id) /\ v.defs \subseteq DOMAIN heap
        BY <1>2, <4>1 DEF FreshInv, CacheOK, Typed
      <4> QED
        BY <1>5, <4>2, FreshKept, RestsKept DEF Grown
    <3> QED
      BY <3>1, <3>2
  <2>3. Fresh(id, cache[id])'
    BY <2>1, <2>2 DEF Fresh
  <2> QED
    BY <2>2, <2>3
<1> QED
  BY <1>1, <1>2, <1>3, <1>4, <1>5, <1>6, <1>7

LEMMA ReturnKeeps ==
    ASSUME FreshInv, Return
    PROVE  FreshInv'
<1>1. PICK c : c = Active
  OBVIOUS
<1>2. PICK r : r = Compute(c)
  OBVIOUS
<1>3. /\ calls # <<>> /\ CallOK(c) /\ c \in Call /\ c.id \in Id /\ c.id \notin DOMAIN cache
      /\ rdeps' = rdeps /\ DOMAIN cache' = DOMAIN cache \cup {c.id} /\ cache'[c.id] = r.value
      /\ Grown /\ Typed' /\ CacheOK'
  BY <1>1, <1>2, ReturnFacts
<1>4. PICK n : n = Len(calls)
  OBVIOUS
<1>5. calls \in Seq(Call) /\ n \in Nat /\ n >= 1 /\ DOMAIN calls = 1..n /\ c = calls[n]
  BY <1>1, <1>3, <1>4, ActiveFacts
<1>6. RdepsOK' /\ edits' = edits
  BY <1>3 DEF FreshInv, RdepsOK, Return
<1>7. PICK callers : callers = SubSeq(calls, 1, n - 1)
  OBVIOUS
<1>8. /\ callers \in Seq(Call) /\ Len(callers) = n - 1 /\ DOMAIN callers = 1..n - 1
      /\ \A i \in 1..n - 1 : i \in DOMAIN calls /\ callers[i] = calls[i]
  BY <1>5, <1>7
<1>9. calls' = IF callers = <<>> THEN <<>> ELSE [callers EXCEPT ![Len(callers)] = Take(@, r.value)]
  BY <1>1, <1>2, <1>4, <1>7 DEF Return
<1>10. CASE n = 1
  <2>1. calls' = <<>>
    BY <1>8, <1>9, <1>10
  <2>2. CallsOK' /\ calls' \in Seq(Call)
    BY <2>1 DEF CallsOK
  <2>3. TypeOK'
    BY <1>3, <1>6, <2>2 DEF TypeOK, Typed, FreshInv
  <2> QED
    BY <1>3, <1>6, <2>2, <2>3 DEF FreshInv
<1>11. CASE n # 1
  <2>1. PICK m : m = n - 1
    OBVIOUS
  <2>2. PICK b : b = calls[m]
    OBVIOUS
  <2>3. PICK b1 : b1 = Take(b, r.value)
    OBVIOUS
  <2>4. m \in Nat /\ m >= 1 /\ m \in DOMAIN calls /\ m + 1 = n /\ b \in Call
    BY <1>5, <1>11, <2>1, <2>2
  <2>5. b.todo # <<>> /\ Head(b.todo) = c.id /\ <<c.id, b.id>> \in rdeps
    <3>1. /\ calls[m].todo # <<>> /\ Head(calls[m].todo) = calls[m + 1].id
          /\ <<calls[m + 1].id, calls[m].id>> \in rdeps
      BY <1>5, <2>4 DEF FreshInv, CallsOK
    <3> QED
      BY <1>5, <2>2, <2>4, <3>1
  <2>6. \A i \in 1..m : CallOK(calls[i]) /\ calls[i].id \notin DOMAIN cache'
    <3> SUFFICES ASSUME NEW i \in 1..m
                 PROVE  CallOK(calls[i]) /\ calls[i].id \notin DOMAIN cache'
      OBVIOUS
    <3>1. i \in DOMAIN calls /\ n \in DOMAIN calls /\ i < n
      BY <1>5, <2>4
    <3>2. CallOK(calls[i]) /\ Depth[c.id[1]] < Depth[calls[i].id[1]]
      BY <1>5, <3>1 DEF FreshInv, CallsOK
    <3>3. Depth[c.id[1]] \in Int
      <4>1. c.id[1] \in Name
        BY <1>3, QueryFacts
      <4> QED
        BY <4>1 DEF Depth, Name
    <3>4. calls[i].id # c.id
      BY <3>2, <3>3
    <3> QED
      BY <1>3, <3>2, <3>4 DEF CallOK
  <2>7. \A i \in 1..m : \A a : a = calls[i] => CallOK(a)'
    BY <1>3, <2>6, CallKept
  <2>8. CallOK(b1)'
    <3>1. CallOK(b)' /\ Has(b.id, Head(b.todo))'
      BY <1>3, <2>2, <2>4, <2>5, <2>7 DEF Has
    <3>2. GoesOn'
      BY TakeOK, PTL
    <3>3. CallOK(Take(b, cache[Head(b.todo)]))'
      BY <1>3, <2>5, <3>1, <3>2 DEF GoesOn
    <3>4. Take(b, cache[Head(b.todo)])' = b1
      BY <1>3, <2>3, <2>5
    <3> QED
      BY <3>3, <3>4
  <2>9. b1.id = b.id /\ b1 \in Call
    BY <2>3, <2>4, <2>8, TakeFacts DEF CallOK
  <2>10. callers \in Seq(Call) /\ Len(callers) = m /\ callers # <<>> /\ callers[m] = b
    BY <1>8, <2>1, <2>2, <2>4
  <2>11. calls' = [callers EXCEPT ![m] = b1]
    BY <1>9, <2>3, <2>10
  <2>12. /\ calls' \in Seq(Call) /\ DOMAIN calls' = 1..m /\ calls'[m] = b1
         /\ \A i \in 1..m : i # m => calls'[i] = calls[i]
         /\ \A i \in 1..m : calls'[i].id = calls[i].id
    BY <1>8, <2>1, <2>2, <2>4, <2>9, <2>10, <2>11
  <2>13. \A i \in DOMAIN calls' : CallOK(calls[i])'
    BY <2>7, <2>8, <2>12
  <2>14. ASSUME NEW i \in DOMAIN calls', i + 1 \in DOMAIN calls'
         PROVE  /\ calls'[i].todo # <<>> /\ Head(calls'[i].todo) = calls'[i + 1].id
                /\ <<calls'[i + 1].id, calls'[i].id>> \in rdeps'
    <3>1. i \in 1..m /\ i # m /\ i + 1 \in 1..m
      BY <2>4, <2>12, <2>14
    <3>2. calls'[i] = calls[i] /\ calls'[i + 1].id = calls[i + 1].id /\ i \in DOMAIN calls /\ i + 1 \in DOMAIN calls
      BY <1>5, <2>4, <2>12, <3>1
    <3> QED
      BY <1>3, <3>2 DEF FreshInv, CallsOK
  <2>15. ASSUME NEW i \in DOMAIN calls', NEW j \in DOMAIN calls', i < j
         PROVE  Depth[calls'[j].id[1]] < Depth[calls'[i].id[1]]
    <3>1. i \in DOMAIN calls /\ j \in DOMAIN calls /\ calls'[i].id = calls[i].id /\ calls'[j].id = calls[j].id
      BY <1>5, <2>4, <2>12
    <3> QED
      BY <2>15, <3>1 DEF FreshInv, CallsOK
  <2>16. CallsOK'
    BY <2>13, <2>14, <2>15 DEF CallsOK
  <2>17. TypeOK'
    BY <1>3, <1>6, <2>12 DEF TypeOK, Typed, FreshInv
  <2> QED
    BY <1>3, <1>6, <2>16, <2>17 DEF FreshInv
<1> QED
  BY <1>10, <1>11

-----------------------------------------------------------------------------
(***************************************************************************)
(* Edits.                                                                  *)
(***************************************************************************)
ReachRight ==
    \A path \in Path :
        /\ path \in Reach(path)
        /\ \A f \in Reach(path), g \in File : Loads(f) /\ g \in ToSet(ImportsOf(f)) => g \in Reach(path)
        /\ \A X : path \in X
                  /\ (\A f \in X \cap Path : \A g \in File : Loads(f) /\ g \in ToSet(ImportsOf(f)) => g \in X)
                  => Reach(path) \subseteq X
LEMMA ReachOK == ReachRight
BY ReachFacts, ReachIsLeast DEF ReachRight

\* A file that is not reached can be edited.
LEMMA ReachUnedited ==
    ASSUME NEW f \in File, NEW path \in Path, f \notin Reach(path),
           \A p \in Path \ {f} : /\ Loads(p)' = Loads(p) /\ ImportsOf(p)' = ImportsOf(p)
    PROVE  Reach(path)' = Reach(path)
<1>1. ReachRight /\ ReachRight'
  BY ReachOK, PTL
<1>2. PICK X : X = Reach(path)
  OBVIOUS
<1>3. PICK Y : Y = Reach(path)'
  OBVIOUS
<1>4. /\ path \in X /\ f \notin X
      /\ \A e \in X, g \in File : Loads(e) /\ g \in ToSet(ImportsOf(e)) => g \in X
  BY <1>1, <1>2 DEF ReachRight
<1>5. \A e \in X \cap Path : \A g \in File : Loads(e)' /\ g \in ToSet(ImportsOf(e)') => g \in X
  BY <1>4
<1>6. Y \subseteq X
  BY <1>1, <1>3, <1>4, <1>5 DEF ReachRight
<1>7. path \in Y /\ \A e \in Y, g \in File : Loads(e)' /\ g \in ToSet(ImportsOf(e)') => g \in Y
  BY <1>1, <1>3 DEF ReachRight
<1>8. \A e \in Y \cap Path : \A g \in File : Loads(e) /\ g \in ToSet(ImportsOf(e)) => g \in Y
  BY <1>4, <1>6, <1>7
<1>9. X \subseteq Y
  BY <1>1, <1>2, <1>7, <1>8 DEF ReachRight
<1> QED
  BY <1>2, <1>3, <1>6, <1>9

LEMMA DependentsFacts ==
    ASSUME RdepsOK, NEW f
    PROVE  /\ Parsed(f) \in Dependents({Parsed(f)})
           /\ \A c, id : Has(c, id) /\ id \in Dependents({Parsed(f)}) => c \in Dependents({Parsed(f)})
<1>1. {Parsed(f)} \subseteq Dependents({Parsed(f)})
      /\ \A e \in rdeps : e[1] \in Dependents({Parsed(f)}) => e[2] \in Dependents({Parsed(f)})
  BY ReachedClosed DEF RdepsOK, Dependents
<1> QED
  BY <1>1 DEF Has

\* What is left after an edit does not rest on the file.
LEMMA LeftFacts ==
    ASSUME FreshInv, NEW f \in File, NEW id \in DOMAIN cache, id \notin Dependents({Parsed(f)})
    PROVE  /\ id[1] = "ParsedGrammar" => id[2] # f
           /\ id[1] # "ParsedGrammar" => f \notin Reach(id[2])
           /\ \A a : Has(id, a) => a \notin Dependents({Parsed(f)})
<1> DEFINE left == DOMAIN cache \ Dependents({Parsed(f)})
           p == id[2]
<1>1. RdepsOK /\ DOMAIN cache \subseteq Id /\ \A a \in DOMAIN cache : Rests(a)
  BY DEF FreshInv, TypeOK, CacheOK
<1>2. Parsed(f) \notin left /\ \A c \in left : \A a : Has(c, a) => a \in left
  BY <1>1, DependentsFacts DEF Has
<1>3. id \in left /\ id = Query(id[1], p) /\ id[1] \in Name
  BY <1>1, QueryFacts
<1> HIDE DEF left
<1>4. \A name \in Name \ {"ParsedGrammar", "ResolvedImports"} :
         Query(name, p) \in left => Query(Source(name), p) \in left
  <2> SUFFICES ASSUME NEW name \in Name \ {"ParsedGrammar", "ResolvedImports"}, Query(name, p) \in left
               PROVE  Query(Source(name), p) \in left
    OBVIOUS
  <2>1. PICK c : c = Query(name, p)
    OBVIOUS
  <2>2. c[1] = name /\ c[2] = p /\ c \in left /\ Rests(c)
    BY <1>1, <2>1, QueryFacts DEF left
  <2>3. Has(c, Query(Source(name), p))
    BY <2>2 DEF Rests
  <2> QED
    BY <1>2, <2>2, <2>3
<1>5. id[1] # "ParsedGrammar" => Query("ResolvedImports", p) \in left
  <2> HIDE DEF p
  <2>1. Query("WithCharsets", p) \in left => Query("ResolvedImports", p) \in left
    BY <1>4 DEF Source, Name
  <2>2. Query("WithWhitespace", p) \in left => Query("WithCharsets", p) \in left
    BY <1>4 DEF Source, Name
  <2>3. Query("WithCaptures", p) \in left => Query("WithWhitespace", p) \in left
    BY <1>4 DEF Source, Name
  <2>4. Query("TransformedGrammar", p) \in left => Query("WithCaptures", p) \in left
    BY <1>4 DEF Source, Name
  <2> QED
    BY <1>3, <2>1, <2>2, <2>3, <2>4 DEF Name
<1>6. Query("ResolvedImports", p) \in left => f \notin Reach(p)
  <2>1. Query("ResolvedImports", p) \in left => \A g \in Reach(p) : Has(Query("ResolvedImports", p), Parsed(g))
    BY <1>1, QueryFacts DEF Rests, left
  <2> QED
    BY <1>2, <2>1
<1>7. id[1] = "ParsedGrammar" => p # f
  BY <1>2, <1>3 DEF Parsed
<1> QED
  BY <1>2, <1>3, <1>5, <1>6, <1>7 DEF left

LEMMA EditKeeps ==
    ASSUME FreshInv, NEW f \in File, NEW con \in Contents, Edit(f, con)
    PROVE  FreshInv'
<1> DEFINE gone == Dependents({Parsed(f)})
<1>1. /\ calls = <<>> /\ edits < MaxEdits /\ edits' = edits + 1 /\ content' = [content EXCEPT ![f] = con]
      /\ cache' = [id \in DOMAIN cache \ gone |-> cache[id]] /\ UNCHANGED <<rdeps, heap, calls>>
  BY DEF Edit, Without
<1>2. TypeOK /\ RdepsOK
  BY DEF FreshInv
<1>3. TypeOK' /\ RdepsOK' /\ CallsOK'
  <2>1. content' \in [File -> Contents] /\ edits' \in 0..MaxEdits
    BY <1>1, <1>2, MaxEditsAssumption DEF TypeOK
  <2> HIDE DEF gone
  <2>2. TypeOK'
    BY <1>1, <1>2, <2>1 DEF TypeOK
  <2>3. RdepsOK' /\ CallsOK'
    BY <1>1, <1>2 DEF RdepsOK, CallsOK
  <2> QED
    BY <2>2, <2>3
<1>4. \A p \in Path \ {f} : Loads(p)' = Loads(p) /\ ImportsOf(p)' = ImportsOf(p) /\ LoadedText(p)' = LoadedText(p)
  BY <1>1, <1>2, BuiltinsAssumption DEF TypeOK, Loads, ImportsOf, LoadedText, Path
<1>5. CacheOK'
  <2> SUFFICES ASSUME NEW id \in DOMAIN cache'
               PROVE  (Fresh(id, cache[id]) /\ Rests(id))'
    BY Zenon DEF CacheOK
  <2>1. PICK v : v = cache[id]
    OBVIOUS
  <2>2. id \in DOMAIN cache /\ id \notin gone /\ v = cache'[id] /\ id \in Id /\ id[2] \in Path
    BY <1>1, <1>2, <2>1, QueryFacts DEF TypeOK
  <2>3. Fresh(id, v) /\ Rests(id)
    BY <2>1, <2>2 DEF FreshInv, CacheOK
  <2>4. /\ id[1] = "ParsedGrammar" => id[2] # f
        /\ id[1] # "ParsedGrammar" => f \notin Reach(id[2])
        /\ \A a : Has(id, a) => a \notin gone
    BY <2>2, LeftFacts
  <2>5. \A a : Has(id, a) => Has(id, a)'
    BY <1>1, <2>2, <2>4 DEF Has
  <2>6. id[1] # "ParsedGrammar" => Reach(id[2])' = Reach(id[2]) /\ id[2] # f
    <3>1. id[2] \in Reach(id[2])
      BY <2>2, ReachFacts
    <3> QED
      BY <1>4, <2>2, <2>4, <3>1, ReachUnedited
  <2>7. Rests(id)'
    BY <2>3, <2>5, <2>6 DEF Rests
  <2>8. SourcesNow(id)' = SourcesNow(id)
    <3>1. CASE id[1] = "ParsedGrammar"
      BY <1>4, <2>2, <2>4, <3>1 DEF SourcesNow
    <3>2. CASE id[1] # "ParsedGrammar"
      <4>1. Reach(id[2]) \subseteq Path /\ f \notin Reach(id[2]) /\ Reach(id[2])' = Reach(id[2])
        BY <2>2, <2>4, <2>6, <3>2, ReachFacts
      <4>2. FilesOf(id[2])' = FilesOf(id[2]) /\ FilesOf(id[2]) \subseteq Path \ {f}
        BY <1>4, <4>1 DEF FilesOf, Reach
      <4>3. Builtins \in Path \ {f}
        BY BuiltinsAssumption DEF Path
      <4>4. PICK files : files = FilesOf(id[2]) \cup {Builtins}
        OBVIOUS
      <4>5. \A g \in files : LoadedText(g)' = LoadedText(g)
        BY <1>4, <4>2, <4>3, <4>4
      <4>6. SourcesNow(id) = IF Loads(id[2]) THEN {<<g, LoadedText(g)>> : g \in files} ELSE {}
        BY <3>2, <4>4 DEF SourcesNow
      <4>7. SourcesNow(id)' = IF Loads(id[2])' THEN {<<g, LoadedText(g)'>> : g \in files} ELSE {}
        BY <3>2, <4>2, <4>4 DEF SourcesNow
      <4>8. Loads(id[2])' = Loads(id[2])
        BY <1>4, <2>2, <2>6, <3>2
      <4> QED
        BY <4>5, <4>6, <4>7, <4>8
    <3> QED
      BY <3>1, <3>2
  <2>9. Loads(id[2])' = Loads(id[2]) /\ ImportsOf(id[2])' = ImportsOf(id[2])
    BY <1>4, <2>2, <2>4, <2>6
  <2>10. Shown(v.defs)' = Shown(v.defs)
    BY <1>1 DEF Shown
  <2>11. Fresh(id, v)'
    BY <1>1, <2>3, <2>8, <2>9, <2>10 DEF Fresh
  <2>12. Fresh(id, cache[id])'
    BY <2>2, <2>11 DEF Fresh
  <2> QED
    BY <2>7, <2>12
<1> QED
  BY <1>3, <1>5 DEF FreshInv

LEMMA InvalidateAllKeeps ==
    ASSUME FreshInv, InvalidateAll
    PROVE  FreshInv'
<1>1. /\ calls = <<>> /\ edits < MaxEdits /\ edits' = edits + 1 /\ cache' = <<>> /\ rdeps' = {}
      /\ UNCHANGED <<content, heap, calls>>
  BY DEF InvalidateAll
<1>2. DOMAIN cache' = {} /\ IsFiniteSet(rdeps')
  BY <1>1, FS_EmptySet
<1>3. edits' \in 0..MaxEdits
  BY <1>1, MaxEditsAssumption DEF FreshInv, TypeOK
<1>4. TypeOK'
  BY <1>1, <1>2, <1>3 DEF FreshInv, TypeOK
<1>5. RdepsOK' /\ CacheOK' /\ CallsOK'
  BY <1>1, <1>2 DEF RdepsOK, CacheOK, CallsOK
<1> QED
  BY <1>4, <1>5 DEF FreshInv

LEMMA FreshInvInit == Init => FreshInv
<1> SUFFICES ASSUME Init
             PROVE  FreshInv
  OBVIOUS
<1>1. content \in [File -> Contents] /\ cache = <<>> /\ rdeps = {} /\ heap = <<>> /\ calls = <<>> /\ edits = 0
  BY DEF Init
<1>2. DOMAIN cache = {} /\ IsFiniteSet(rdeps) /\ edits \in 0..MaxEdits
  BY <1>1, FS_EmptySet, MaxEditsAssumption
<1>3. TypeOK
  BY <1>1, <1>2 DEF TypeOK
<1>4. RdepsOK /\ CacheOK /\ CallsOK
  BY <1>1, <1>2 DEF RdepsOK, CacheOK, CallsOK
<1> QED
  BY <1>3, <1>4 DEF FreshInv

LEMMA FreshInvNext == FreshInv /\ [Next]_qvars => FreshInv'
<1> SUFFICES ASSUME FreshInv, [Next]_qvars
             PROVE  FreshInv'
  OBVIOUS
<1>1. CASE UNCHANGED qvars
  <2>1. Grown /\ UNCHANGED <<content, cache, rdeps, heap, calls, edits>>
    BY <1>1 DEF qvars, Grown, HeapGrown
  <2>2. TypeOK' /\ RdepsOK'
    BY <2>1 DEF FreshInv, TypeOK, RdepsOK
  <2>3. Typed /\ DOMAIN cache' = DOMAIN cache
    BY <2>1 DEF FreshInv, TypeOK, Typed
  <2>4. CacheOK'
    BY <2>1, <2>3, CacheKept DEF FreshInv
  <2>5. \A i \in DOMAIN calls : \A c : c = calls[i] => CallOK(c)'
    BY <2>1, CallKept DEF FreshInv, CallsOK, CallOK
  <2>6. CallsOK'
    BY <2>1, <2>5 DEF FreshInv, CallsOK
  <2> QED
    BY <2>2, <2>4, <2>6 DEF FreshInv
<1>2. ASSUME NEW id \in Asked, Ask(id)
      PROVE  FreshInv'
  BY <1>2, AskKeeps
<1>3. CASE Get
  BY <1>3, GetCachedKeeps, GetMissingKeeps, ReturnKeeps DEF Get
<1>4. ASSUME NEW f \in File, NEW c \in Contents, Edit(f, c)
      PROVE  FreshInv'
  BY <1>4, EditKeeps
<1>5. CASE InvalidateAll
  BY <1>5, InvalidateAllKeeps
<1> QED
  BY <1>1, <1>2, <1>3, <1>4, <1>5 DEF Next

\* The variables stay in their types, through every step of Get and every edit.
THEOREM TypeCorrect == Spec => []TypeOK
<1>1. FreshInv => TypeOK
  BY DEF FreshInv
<1> QED
  BY <1>1, FreshInvInit, FreshInvNext, PTL DEF Spec

\* Get never answers with a value that an edit has made stale, at whatever depth
\* of the imports (Get, InvalidateFile and invalidateDependents of query.go).
THEOREM NeverStale == Spec => []FreshCache
<1>1. FreshInv => FreshCache
  BY DEF FreshInv, CacheOK, Fresh, FreshCache, Shown
<1> QED
  BY <1>1, FreshInvInit, FreshInvNext, PTL DEF Spec

-----------------------------------------------------------------------------
(***************************************************************************)
(* The copies a grammar has of its own, and what is captured.              *)
(***************************************************************************)
LEMMA PassNames ==
    /\ \A p : /\ Whitespaced(p)[1] = "WithWhitespace" /\ Whitespaced(p)[2] = p
              /\ Captured(p)[1] = "WithCaptures" /\ Captured(p)[2] = p
    /\ \A p \in Path : Whitespaced(p) \in Id /\ Captured(p) \in Id
    /\ Source("WithCaptures") = "WithWhitespace" /\ Source("TransformedGrammar") = "WithCaptures"
    /\ Source("WithWhitespace") = "WithCharsets"
    /\ \A p, q : Whitespaced(p) = Whitespaced(q) => p = q
BY QueryFacts DEF Whitespaced, Captured, Source, Name

\* What a pass was computed from is cached.
LEMMA PassSource ==
    ASSUME CacheOK, NEW id \in DOMAIN cache, id[1] \in Spaces
    PROVE  Query(Source(id[1]), id[2]) \in DOMAIN cache
BY DEF CacheOK, Rests, Has, Spaces

LEMMA CapturedSource ==
    ASSUME CacheOK, NEW p, Captured(p) \in DOMAIN cache
    PROVE  Whitespaced(p) \in DOMAIN cache
<1>1. Query(Source(Captured(p)[1]), Captured(p)[2]) \in DOMAIN cache
  BY PassSource, PassNames DEF Spaces
<1> QED
  BY <1>1, PassNames DEF Whitespaced

\* Neither an edit of a file nor a call forgets the captures of a grammar, and
\* keeps the grammar they were added to.
LEMMA GoneTogether ==
    ASSUME RdepsOK, NEW f, NEW p, Captured(p) \in Dependents({Parsed(f)})
    PROVE  Whitespaced(p) \in Dependents({Parsed(f)})
<1> DEFINE gone == Dependents({Parsed(f)})
           X == gone \ {Captured(p)}
<1>1. SUFFICES ASSUME Whitespaced(p) \notin gone
               PROVE  FALSE
  OBVIOUS
<1>2. Parsed(f) \in gone /\ \A e \in rdeps : e[1] \in gone => e[2] \in gone
  BY ReachedClosed DEF RdepsOK, Dependents
<1>3. Parsed(f) \in X
  <2>1. Parsed(f)[1] # Captured(p)[1]
    BY PassNames, QueryFacts DEF Parsed
  <2> QED
    BY <1>2, <2>1
<1>4. \A e \in rdeps : e[1] \in X => e[2] \in X
  <2> SUFFICES ASSUME NEW e \in rdeps, e[1] \in X, e[2] = Captured(p)
               PROVE  FALSE
    BY <1>2
  <2>1. AskedBy(e[1], Captured(p))
    BY DEF RdepsOK
  <2>2. e[1] = Query(Source(Captured(p)[1]), Captured(p)[2])
    BY <2>1, PassNames DEF AskedBy
  <2>3. e[1] = Whitespaced(p)
    BY <2>2, PassNames DEF Whitespaced
  <2> QED
    BY <1>1, <2>3
<1>5. gone \subseteq X
  <2>1. IsFiniteSet(rdeps) /\ {Parsed(f)} \subseteq X
    BY <1>3 DEF RdepsOK
  <2> HIDE DEF X
  <2>2. Reached({Parsed(f)}, rdeps) \subseteq X
    BY <1>4, <2>1, ReachedLeast
  <2> QED
    BY <2>2 DEF Dependents
<1> QED
  BY <1>5

\* Nothing changes for the definitions and the grammars that are kept.
LEMMA CopiesUnchanged ==
    ASSUME CopiesOK, CacheOK, CacheOK', heap' = heap,
           DOMAIN cache' \subseteq DOMAIN cache, \A id \in DOMAIN cache' : cache'[id] = cache[id],
           \A p \in Path : Whitespaced(p) \in DOMAIN cache' /\ Captured(p) \in DOMAIN cache
              => Captured(p) \in DOMAIN cache'
    PROVE  CopiesOK'
<1>1. OriginalsOK'
  BY DEF CopiesOK, OriginalsOK, OfUser
<1>2. \A id \in DOMAIN cache' : UserDefs(id)' = UserDefs(id)
  BY DEF UserDefs, OfUser
<1>3. OwnCopies'
  <2>1. \A id \in DOMAIN cache' : id[1] \in Spaces => \A d \in UserDefs(id)' : heap[d].body # d
    BY <1>2 DEF CopiesOK, OwnCopies
  <2>2. \A p, q \in Path : p # q /\ Whitespaced(p) \in DOMAIN cache' /\ Whitespaced(q) \in DOMAIN cache'
           => UserDefs(Whitespaced(p))' \cap UserDefs(Whitespaced(q))' = {}
    BY <1>2 DEF CopiesOK, OwnCopies
  <2>3. ASSUME NEW id \in DOMAIN cache', id[1] \in {"WithCaptures", "TransformedGrammar"}
        PROVE  cache'[id].defs = cache'[Query(Source(id[1]), id[2])].defs
    <3>1. Query(Source(id[1]), id[2]) \in DOMAIN cache'
      BY <2>3 DEF CacheOK, Rests, Has
    <3> QED
      BY <2>3, <3>1 DEF CopiesOK, OwnCopies
  <2> QED
    BY <2>1, <2>2, <2>3 DEF OwnCopies, UserDefs, OfUser, Whitespaced
<1>4. CountsOK'
  <2> SUFFICES ASSUME NEW p \in Path, Whitespaced(p) \in DOMAIN cache', NEW d \in UserDefs(Whitespaced(p))'
               PROVE  heap[d].captures = IF Captured(p) \in DOMAIN cache' THEN 1 ELSE 0
    BY DEF CountsOK, Whitespaced, Captured
  <2>1. d \in UserDefs(Whitespaced(p)) /\ (Captured(p) \in DOMAIN cache' <=> Captured(p) \in DOMAIN cache)
    BY <1>2
  <2> QED
    BY <2>1 DEF CopiesOK, CountsOK
<1> QED
  BY <1>1, <1>3, <1>4 DEF CopiesOK

LEMMA EditCopies ==
    ASSUME FreshInv, FreshInv', CopiesOK, NEW f \in File, NEW con \in Contents, Edit(f, con)
    PROVE  CopiesOK'
<1> DEFINE gone == Dependents({Parsed(f)})
<1>1. heap' = heap /\ cache' = [id \in DOMAIN cache \ gone |-> cache[id]]
  BY DEF Edit, Without
<1> HIDE DEF gone
<1>2. DOMAIN cache' = DOMAIN cache \ gone /\ \A id \in DOMAIN cache' : cache'[id] = cache[id]
  BY <1>1
<1>3. \A p \in Path : Whitespaced(p) \in DOMAIN cache' /\ Captured(p) \in DOMAIN cache => Captured(p) \in DOMAIN cache'
  BY <1>2, GoneTogether DEF FreshInv, gone
<1> QED
  BY <1>1, <1>2, <1>3, CopiesUnchanged DEF FreshInv

LEMMA QuietCopies ==
    ASSUME FreshInv, FreshInv', CopiesOK, heap' = heap, cache' = cache \/ cache' = <<>>
    PROVE  CopiesOK'
<1>1. DOMAIN cache' \subseteq DOMAIN cache /\ \A id \in DOMAIN cache' : cache'[id] = cache[id]
  OBVIOUS
<1>2. \A p \in Path : Whitespaced(p) \in DOMAIN cache' /\ Captured(p) \in DOMAIN cache => Captured(p) \in DOMAIN cache'
  OBVIOUS
<1> QED
  BY <1>1, <1>2, CopiesUnchanged DEF FreshInv

\* A result is cached: the definitions that were there keep their captures
\* unless they are wrapped now, those that are new are not captured, and the
\* grammars that are kept have what they had.
OldCaptures(d) == heap'[d].captures = heap[d].captures

LEMMA OldDefs ==
    ASSUME Typed, HeapGrown, NEW id \in DOMAIN cache, cache'[id] = cache[id]
    PROVE  UserDefs(id)' = UserDefs(id) /\ UserDefs(id) \subseteq DOMAIN heap
<1>1. PICK v : v = cache[id]
  OBVIOUS
<1>2. v.defs \subseteq DOMAIN heap
  BY <1>1 DEF Typed
<1> QED
  BY <1>1, <1>2 DEF UserDefs, OfUser, HeapGrown

\* What is the same whatever the result is of.
LEMMA ReturnedOwn ==
    ASSUME FreshInv, CopiesOK, Return, NEW c, c = Active, NEW r, r = Compute(c),
           NEW new, new = {d \in r.value.defs : heap'[d].file \in File},
           c.id[1] \in Spaces => \A d \in new : heap'[d].body # d,
           c.id[1] = "WithWhitespace" => new \cap DOMAIN heap = {},
           c.id[1] \in {"WithCaptures", "TransformedGrammar"} => r.value = c.acc
    PROVE  OwnCopies' /\ new = UserDefs(c.id)' /\ \A id \in DOMAIN cache : UserDefs(id)' = UserDefs(id)
<1>1. /\ c.todo = <<>> /\ CallOK(c) /\ c.id \in Id /\ c.id \notin DOMAIN cache
      /\ DOMAIN cache' = DOMAIN cache \cup {c.id} /\ cache'[c.id] = r.value
      /\ Grown /\ HeapGrown
  BY ReturnFacts DEF Grown
<1>2. Typed /\ CacheOK
  BY DEF FreshInv, TypeOK, Typed
<1>3. \A id \in DOMAIN cache : cache'[id] = cache[id] /\ UserDefs(id)' = UserDefs(id) /\ UserDefs(id) \subseteq DOMAIN heap
  BY <1>1, <1>2, OldDefs DEF Grown
<1>4. UserDefs(c.id)' = new
  BY <1>1 DEF UserDefs, OfUser
<1>5. ASSUME NEW id \in DOMAIN cache', id[1] \in Spaces, NEW d \in UserDefs(id)'
      PROVE  heap'[d].body # d
  <2>1. CASE id = c.id
    BY <1>4, <1>5, <2>1
  <2>2. CASE id # c.id
    <3>1. id \in DOMAIN cache /\ d \in UserDefs(id) /\ d \in DOMAIN heap
      BY <1>1, <1>3, <1>5, <2>2
    <3> QED
      BY <1>1, <1>5, <3>1 DEF HeapGrown, CopiesOK, OwnCopies
  <2> QED
    BY <2>1, <2>2
<1>6. ASSUME NEW p \in Path, NEW q \in Path, p # q, Whitespaced(p) \in DOMAIN cache', Whitespaced(q) \in DOMAIN cache'
      PROVE  UserDefs(Whitespaced(p))' \cap UserDefs(Whitespaced(q))' = {}
  <2>1. Whitespaced(p) # Whitespaced(q)
    BY <1>6, PassNames
  <2>2. CASE Whitespaced(p) # c.id /\ Whitespaced(q) # c.id
    BY <1>1, <1>3, <1>6, <2>2 DEF CopiesOK, OwnCopies
  <2>3. CASE Whitespaced(p) = c.id
    <3>1. new \cap DOMAIN heap = {} /\ Whitespaced(q) \in DOMAIN cache
      BY <1>1, <1>6, <2>1, <2>3, PassNames
    <3>2. UserDefs(Whitespaced(p))' = new
      BY <1>4, <2>3 DEF UserDefs, OfUser
    <3> QED
      BY <1>3, <3>1, <3>2
  <2>4. CASE Whitespaced(q) = c.id
    <3>1. new \cap DOMAIN heap = {} /\ Whitespaced(p) \in DOMAIN cache
      BY <1>1, <1>6, <2>1, <2>4, PassNames
    <3>2. UserDefs(Whitespaced(q))' = new
      BY <1>4, <2>4 DEF UserDefs, OfUser
    <3> QED
      BY <1>3, <3>1, <3>2
  <2> QED
    BY <2>2, <2>3, <2>4
<1>7. ASSUME NEW id \in DOMAIN cache', id[1] \in {"WithCaptures", "TransformedGrammar"}
      PROVE  cache'[id].defs = cache'[Query(Source(id[1]), id[2])].defs
  <2> DEFINE source == Query(Source(id[1]), id[2])
  <2>1. CASE id = c.id
    <3>1. Has(c.id, source) /\ c.acc = cache[source]
      BY <1>1, <1>7, <2>1 DEF CallOK
    <3>2. source \in DOMAIN cache
      BY <3>1 DEF Has
    <3> QED
      BY <1>1, <1>3, <1>7, <2>1, <3>1, <3>2
  <2>2. CASE id # c.id
    <3>1. id \in DOMAIN cache
      BY <1>1, <2>2
    <3>2. source \in DOMAIN cache
      BY <1>2, <1>7, <3>1, PassSource DEF Spaces
    <3> QED
      BY <1>3, <1>7, <3>1, <3>2 DEF CopiesOK, OwnCopies
  <2> QED
    BY <2>1, <2>2
<1>8. OwnCopies'
  <2>1. \A id \in DOMAIN cache' : id[1] \in Spaces => \A d \in UserDefs(id)' : heap'[d].body # d
    BY <1>5
  <2> QED
    BY <1>6, <1>7, <2>1, Zenon DEF OwnCopies, UserDefs, OfUser, Whitespaced
<1> QED
  BY <1>3, <1>4, <1>8

LEMMA ReturnedCounts ==
    ASSUME FreshInv, CopiesOK, NEW id \in Id, id \notin DOMAIN cache, DOMAIN cache' = DOMAIN cache \cup {id},
           \A a \in DOMAIN cache : UserDefs(a)' = UserDefs(a) /\ UserDefs(a) \subseteq DOMAIN heap,
           \A d \in DOMAIN heap : OldCaptures(d),
           id[1] # "WithCaptures",
           id[1] = "WithWhitespace" => \A d \in UserDefs(id)' : heap'[d].captures = 0
    PROVE  CountsOK'
<1> SUFFICES ASSUME NEW p \in Path, Whitespaced(p) \in DOMAIN cache', NEW d \in UserDefs(Whitespaced(p))'
             PROVE  heap'[d].captures = IF Captured(p) \in DOMAIN cache' THEN 1 ELSE 0
  BY DEF CountsOK, Whitespaced, Captured
<1>1. Captured(p) \in DOMAIN cache' <=> Captured(p) \in DOMAIN cache
  BY PassNames
<1>2. CASE Whitespaced(p) = id
  <2>1. Captured(p) \notin DOMAIN cache
    BY <1>2, CapturedSource DEF FreshInv
  <2>2. heap'[d].captures = 0
    BY <1>2, PassNames DEF Whitespaced
  <2> QED
    BY <1>1, <2>1, <2>2
<1>3. CASE Whitespaced(p) # id
  <2>1. Whitespaced(p) \in DOMAIN cache
    BY <1>3
  <2>2. d \in UserDefs(Whitespaced(p)) /\ d \in DOMAIN heap
    <3>1. UserDefs(Whitespaced(p))' = UserDefs(Whitespaced(p)) /\ UserDefs(Whitespaced(p)) \subseteq DOMAIN heap
      BY <2>1 DEF UserDefs, OfUser, Whitespaced
    <3> QED
      BY <3>1
  <2>3. heap[d].captures = IF Captured(p) \in DOMAIN cache THEN 1 ELSE 0
    BY <2>1, <2>2 DEF CopiesOK, CountsOK
  <2> QED
    BY <1>1, <2>2, <2>3 DEF OldCaptures
<1> QED
  BY <1>2, <1>3

\* Parsing makes a definition that is captured nowhere.
LEMMA ParsedCopies ==
    ASSUME Typed, OriginalsOK, NEW path \in Path, NEW r, r = Parse(path), heap' = r.heap
    PROVE  OriginalsOK' /\ \A d \in DOMAIN heap : OldCaptures(d)
<1>1. heap \in Seq(Definition) /\ Len(heap) \in Nat /\ DOMAIN heap = 1..Len(heap)
  BY DEF Typed
<1>2. CASE Loads(path)
  <2>1. PICK n : n = Len(heap) + 1
    OBVIOUS
  <2>2. PICK new : new = [file |-> path, text |-> LoadedText(path), body |-> n, spaces |-> 0, captures |-> 0]
    OBVIOUS
  <2>3. heap' = Append(heap, new) /\ new.body = n /\ new.captures = 0
    BY <1>2, <2>1, <2>2 DEF Parse
  <2>4. DOMAIN heap' = 1..n /\ heap'[n] = new /\ \A d \in DOMAIN heap : d \in 1..n /\ heap'[d] = heap[d]
    BY <1>1, <2>1, <2>3
  <2>5. \A d \in 1..n : d = n \/ d \in DOMAIN heap
    BY <1>1, <2>1
  <2>6. n \in 1..n
    BY <1>1, <2>1
  <2> QED
    BY <2>3, <2>4, <2>5, <2>6 DEF OriginalsOK, OfUser, OldCaptures
<1>3. CASE ~Loads(path)
  <2>1. heap' = heap
    BY <1>3 DEF Parse
  <2> QED
    BY <2>1 DEF OriginalsOK, OfUser, OldCaptures
<1> QED
  BY <1>2, <1>3

\* The whitespace pass copies the user's definitions, which are captured nowhere.
LEMMA SpacedCopies ==
    ASSUME Typed, OriginalsOK, HandleSpaces, NEW v \in Value, v.defs \subseteq DOMAIN heap,
           \A d \in v.defs : heap[d].body = d,
           NEW r, r = InjectWhitespaces(v), heap' = r.heap
    PROVE  /\ OriginalsOK' /\ \A d \in DOMAIN heap : OldCaptures(d)
           /\ \A d \in r.value.defs : heap'[d].file \in File =>
                 d \notin DOMAIN heap /\ heap'[d].body # d /\ heap'[d].captures = 0
<1>1. heap \in Seq(Definition) /\ Len(heap) \in Nat /\ DOMAIN heap = 1..Len(heap)
  BY DEF Typed
<1>2. PICK order \in Seq(Copied(v.defs)) : Injected(v, r, order)
  BY <1>1, InjectFacts
<1>3. PICK copied : copied = Copied(v.defs)
  OBVIOUS
<1>4. PICK n, m : n = Len(heap) /\ m = Len(order)
  OBVIOUS
<1>5. \A d \in v.defs : d \in copied <=> heap[d].file # Builtins
  BY <1>3 DEF Copied
<1>6. /\ n \in Nat /\ m \in Nat /\ DOMAIN heap = 1..n /\ DOMAIN order = 1..m
      /\ r.value.defs = (v.defs \ copied) \cup (n + 1..n + m) /\ Len(heap') = n + m /\ heap' \in Seq(Definition)
      /\ \A d \in DOMAIN heap : heap'[d] = heap[d] \/ heap'[d] = Spaced(d)
      /\ \A i \in DOMAIN order : heap'[n + i] = Spaced(order[i])
  BY <1>1, <1>2, <1>3, <1>4 DEF Injected, Value
<1>7. \A i \in DOMAIN order : order[i] \in copied
  BY <1>2, <1>3
<1>8. \A d \in copied : d \in DOMAIN heap /\ heap[d].file \in File /\ heap[d].body = d /\ heap[d].captures = 0
  <2>1. \A d \in copied : d \in v.defs /\ heap[d].file # Builtins
    BY <1>3, <1>5 DEF Copied
  <2>2. \A d \in DOMAIN heap : heap[d].file \in File \cup {Builtins}
    <3> SUFFICES ASSUME NEW d \in DOMAIN heap
                 PROVE  heap[d].file \in File \cup {Builtins}
      OBVIOUS
    <3>1. heap[d] \in Definition
      BY <1>1
    <3> QED
      BY <3>1 DEF Definition, Path
  <2> QED
    BY <2>1, <2>2 DEF OriginalsOK, OfUser
<1>9. \A d \in DOMAIN heap : /\ Spaced(d).file = heap[d].file /\ Spaced(d).body = heap[d].body
                             /\ Spaced(d).captures = heap[d].captures
  BY <1>1 DEF Spaced, Definition
<1>10. DOMAIN heap' = 1..n + m /\ \A d \in DOMAIN heap : d \in DOMAIN heap'
  BY <1>6
<1>11. \A d \in DOMAIN heap : heap'[d].captures = heap[d].captures /\ heap'[d].file = heap[d].file /\ heap'[d].body = heap[d].body
  BY <1>6, <1>9
<1>12. ASSUME NEW d \in n + 1..n + m
       PROVE  d \notin DOMAIN heap /\ heap'[d].body \in DOMAIN heap /\ heap'[d].captures = 0
  <2>1. d - n \in DOMAIN order /\ d = n + (d - n)
    BY <1>6
  <2>2. heap'[d] = Spaced(order[d - n]) /\ order[d - n] \in copied
    BY <1>6, <1>7, <2>1
  <2>3. heap'[d].body = order[d - n] /\ heap'[d].captures = 0 /\ order[d - n] \in DOMAIN heap
    BY <1>8, <1>9, <2>2
  <2>4. d \notin DOMAIN heap
    BY <1>6
  <2> QED
    BY <2>3, <2>4
<1>13. \A d \in DOMAIN heap' : d \in DOMAIN heap \/ d \in n + 1..n + m
  BY <1>6, <1>10
<1>14. OriginalsOK'
  <2>1. \A d \in DOMAIN heap' : heap'[d].body \in DOMAIN heap'
    BY <1>10, <1>11, <1>12, <1>13 DEF OriginalsOK
  <2>2. \A d \in DOMAIN heap' : heap'[d].file \in File /\ heap'[d].body = d => heap'[d].captures = 0
    BY <1>11, <1>12, <1>13 DEF OriginalsOK, OfUser
  <2> QED
    BY <2>1, <2>2 DEF OriginalsOK, OfUser
<1>15. ASSUME NEW d \in r.value.defs, heap'[d].file \in File
       PROVE  d \notin DOMAIN heap /\ heap'[d].body # d /\ heap'[d].captures = 0
  <2>1. CASE d \in n + 1..n + m
    BY <1>12, <2>1
  <2>2. CASE d \in v.defs \ copied
    <3>1. heap[d].file = Builtins /\ d \in DOMAIN heap
      BY <1>5, <2>2
    <3> QED
      BY <1>11, <1>15, <3>1, BuiltinsAssumption
  <2> QED
    BY <1>6, <2>1, <2>2
<1> QED
  BY <1>11, <1>14, <1>15 DEF OldCaptures

LEMMA ReturnCopies ==
    ASSUME FreshInv, FreshInv', CopiesOK, HandleSpaces, Return
    PROVE  CopiesOK'
<1>1. PICK c : c = Active
  OBVIOUS
<1>2. PICK r : r = Compute(c)
  OBVIOUS
<1>3. PICK new : new = {d \in r.value.defs : heap'[d].file \in File}
  OBVIOUS
<1>4. PICK id : id = c.id
  OBVIOUS
<1>5. /\ c.todo = <<>> /\ CallOK(c) /\ c \in Call /\ id \in Id /\ id \notin DOMAIN cache
      /\ heap' = r.heap /\ DOMAIN cache' = DOMAIN cache \cup {id} /\ cache'[id] = r.value
      /\ Grown /\ HeapGrown
  BY <1>1, <1>2, <1>4, ReturnFacts DEF Grown
<1>6. Typed /\ CacheOK /\ OriginalsOK /\ OwnCopies /\ CountsOK
  BY DEF FreshInv, TypeOK, Typed, CopiesOK
<1>7. id[1] \in Name /\ id[2] \in Path /\ id = Query(id[1], id[2])
  BY <1>5, QueryFacts
<1>8. \A a \in DOMAIN cache : UserDefs(a)' = UserDefs(a) /\ UserDefs(a) \subseteq DOMAIN heap
  BY <1>5, <1>6, OldDefs DEF Grown
<1>9. id[1] # "ParsedGrammar" =>
         /\ c.acc \in Value /\ c.acc.defs \subseteq DOMAIN heap
         /\ Source(id[1]) \notin Spaces => \A d \in c.acc.defs : heap[d].body = d
  BY <1>4, <1>5, <1>6, CallFacts
<1>10. id[1] \in Spaces => Has(id, Query(Source(id[1]), id[2])) /\ c.acc = cache[Query(Source(id[1]), id[2])]
  BY <1>4, <1>5 DEF CallOK, Spaces
<1>11. CASE id[1] = "ParsedGrammar"
  <2>1. r = Parse(id[2])
    BY <1>2, <1>4, <1>11 DEF Compute
  <2>2. OriginalsOK' /\ \A d \in DOMAIN heap : OldCaptures(d)
    BY <1>5, <1>6, <1>7, <2>1, ParsedCopies
  <2>3. OwnCopies'
    BY <1>1, <1>2, <1>3, <1>4, <1>11, ReturnedOwn DEF Spaces
  <2>4. CountsOK'
    BY <1>5, <1>8, <1>11, <2>2, ReturnedCounts
  <2> QED
    BY <2>2, <2>3, <2>4 DEF CopiesOK
<1>12. CASE id[1] \in {"ResolvedImports", "WithCharsets"}
  <2>1. r = [value |-> c.acc, heap |-> heap]
    BY <1>2, <1>4, <1>12 DEF Compute
  <2>2. OriginalsOK' /\ \A d \in DOMAIN heap : OldCaptures(d)
    BY <1>5, <1>6, <2>1 DEF OriginalsOK, OfUser, OldCaptures
  <2>3. OwnCopies'
    BY <1>1, <1>2, <1>3, <1>4, <1>12, ReturnedOwn DEF Spaces
  <2>4. CountsOK'
    BY <1>5, <1>8, <1>12, <2>2, ReturnedCounts
  <2> QED
    BY <2>2, <2>3, <2>4 DEF CopiesOK
<1>13. CASE id[1] = "TransformedGrammar"
  <2>1. r.value = c.acc /\ heap' = heap
    <3>1. r = [value |-> c.acc, heap |-> heap]
      BY <1>2, <1>4, <1>13 DEF Compute
    <3> QED
      BY <1>5, <3>1
  <2>2. OriginalsOK' /\ \A d \in DOMAIN heap : OldCaptures(d)
    BY <1>6, <2>1 DEF OriginalsOK, OfUser, OldCaptures
  <2>3. \A d \in new : heap'[d].body # d
    <3>1. Captured(id[2]) \in DOMAIN cache /\ c.acc = cache[Captured(id[2])]
      BY <1>10, <1>13, PassNames DEF Has, Captured, Spaces
    <3>2. new = UserDefs(Captured(id[2]))
      BY <1>3, <2>1, <3>1 DEF UserDefs, OfUser
    <3> QED
      BY <1>6, <2>1, <3>1, <3>2, PassNames DEF OwnCopies, Spaces
  <2>4. OwnCopies'
    BY <1>1, <1>2, <1>3, <1>4, <1>13, <2>1, <2>3, ReturnedOwn
  <2>5. CountsOK'
    BY <1>5, <1>8, <1>13, <2>2, ReturnedCounts
  <2> QED
    BY <2>2, <2>4, <2>5 DEF CopiesOK
<1>14. CASE id[1] = "WithWhitespace"
  <2>1. r = InjectWhitespaces(c.acc)
    BY <1>2, <1>4, <1>14 DEF Compute
  <2>2. \A d \in c.acc.defs : heap[d].body = d
    BY <1>9, <1>14, PassNames DEF Spaces
  <2>3. /\ OriginalsOK' /\ \A d \in DOMAIN heap : OldCaptures(d)
        /\ \A d \in r.value.defs : heap'[d].file \in File =>
              d \notin DOMAIN heap /\ heap'[d].body # d /\ heap'[d].captures = 0
    BY <1>5, <1>6, <1>9, <1>14, <2>1, <2>2, SpacedCopies
  <2>4. new \cap DOMAIN heap = {} /\ \A d \in new : heap'[d].body # d /\ heap'[d].captures = 0
    BY <1>3, <2>3
  <2>5. OwnCopies' /\ new = UserDefs(c.id)'
    BY <1>1, <1>2, <1>3, <1>4, <1>14, <2>4, ReturnedOwn
  <2>6. \A d \in UserDefs(id)' : heap'[d].captures = 0
    BY <1>4, <2>4, <2>5
  <2>7. CountsOK'
    BY <1>5, <1>8, <1>14, <2>3, <2>6, ReturnedCounts
  <2> QED
    BY <2>3, <2>5, <2>7 DEF CopiesOK
<1>15. CASE id[1] = "WithCaptures"
  <2>1. PICK p : p = id[2]
    OBVIOUS
  <2>2. id = Captured(p) /\ p \in Path /\ Whitespaced(p) \in DOMAIN cache /\ c.acc = cache[Whitespaced(p)]
    BY <1>7, <1>10, <1>15, <2>1, PassNames DEF Has, Captured, Whitespaced, Spaces
  <2>3. r = AddCaptures(c.acc)
    BY <1>2, <1>4, <1>15 DEF Compute
  <2>4. /\ DOMAIN heap' = DOMAIN heap /\ r.value = c.acc
        /\ \A d \in DOMAIN heap :
              heap'[d].captures = IF d \in c.acc.defs THEN heap[d].captures + 1 ELSE heap[d].captures
    BY <1>5, <1>6, <2>3, CapturesOK
  <2>5. \A d \in DOMAIN heap : heap'[d].file = heap[d].file /\ heap'[d].body = heap[d].body
    BY <1>5 DEF HeapGrown
  <2>6. \A d \in c.acc.defs : d \in DOMAIN heap /\ (heap[d].file \in File => d \in UserDefs(Whitespaced(p)))
    BY <1>9, <1>15, <2>2 DEF UserDefs, OfUser
  <2>7. \A d \in UserDefs(Whitespaced(p)) : heap[d].body # d /\ d \in c.acc.defs
    BY <1>6, <2>2, PassNames DEF OwnCopies, Spaces, UserDefs
  <2>8. OriginalsOK'
    <3>1. \A d \in DOMAIN heap' : heap'[d].body \in DOMAIN heap'
      BY <1>6, <2>4, <2>5 DEF OriginalsOK
    <3>2. \A d \in DOMAIN heap' : heap'[d].file \in File /\ heap'[d].body = d => heap'[d].captures = 0
      BY <1>6, <2>4, <2>5, <2>6, <2>7 DEF OriginalsOK, OfUser
    <3> QED
      BY <3>1, <3>2 DEF OriginalsOK, OfUser
  <2>9. \A d \in new : heap'[d].body # d
    BY <1>3, <2>4, <2>5, <2>6, <2>7
  <2>10. OwnCopies'
    BY <1>1, <1>2, <1>3, <1>4, <1>15, <2>4, <2>9, ReturnedOwn
  <2>11. CountsOK'
    <3> SUFFICES ASSUME NEW q \in Path, Whitespaced(q) \in DOMAIN cache', NEW d \in UserDefs(Whitespaced(q))'
                 PROVE  heap'[d].captures = IF Captured(q) \in DOMAIN cache' THEN 1 ELSE 0
      BY DEF CountsOK, Whitespaced, Captured
    <3>1. Whitespaced(q) \in DOMAIN cache
      BY <1>5, <1>15, PassNames
    <3>2. d \in UserDefs(Whitespaced(q)) /\ d \in DOMAIN heap
      <4>1. UserDefs(Whitespaced(q))' = UserDefs(Whitespaced(q)) /\ UserDefs(Whitespaced(q)) \subseteq DOMAIN heap
        BY <1>8, <3>1 DEF UserDefs, OfUser, Whitespaced
      <4> QED
        BY <4>1
    <3>3. heap[d].captures = IF Captured(q) \in DOMAIN cache THEN 1 ELSE 0
      BY <1>6, <3>1, <3>2 DEF CountsOK
    <3>4. CASE q = p
      <4>1. Captured(q) \notin DOMAIN cache /\ Captured(q) \in DOMAIN cache' /\ d \in c.acc.defs
        BY <1>5, <2>2, <2>7, <3>2, <3>4
      <4> QED
        BY <2>4, <3>2, <3>3, <4>1
    <3>5. CASE q # p
      <4>1. d \notin UserDefs(Whitespaced(p))
        BY <1>6, <2>2, <3>1, <3>2, <3>5 DEF OwnCopies
      <4>2. d \notin c.acc.defs
        BY <2>6, <3>2, <4>1 DEF UserDefs, OfUser
      <4>3. Captured(q) # id
        BY <2>2, <3>5, PassNames
      <4> QED
        BY <1>5, <2>4, <3>2, <3>3, <4>2, <4>3
    <3> QED
      BY <3>4, <3>5
  <2> QED
    BY <2>8, <2>10, <2>11 DEF CopiesOK
<1> QED
  BY <1>7, <1>11, <1>12, <1>13, <1>14, <1>15 DEF Name

LEMMA QInvInit == Init => QInv
<1> SUFFICES ASSUME Init
             PROVE  FreshInv /\ CopiesOK
  BY DEF QInv
<1>1. cache = <<>> /\ heap = <<>> /\ DOMAIN cache = {} /\ DOMAIN heap = {}
  BY DEF Init
<1> QED
  BY <1>1, FreshInvInit DEF CopiesOK, OriginalsOK, OwnCopies, CountsOK

LEMMA QInvNext == QInv /\ [Next]_qvars => QInv'
<1> SUFFICES ASSUME QInv, [Next]_qvars
             PROVE  QInv'
  OBVIOUS
<1>1. FreshInv /\ FreshInv' /\ (HandleSpaces => CopiesOK)
  BY FreshInvNext DEF QInv
<1>2. ASSUME HandleSpaces
      PROVE  CopiesOK'
  <2>1. CASE UNCHANGED qvars \/ GetCached \/ GetMissing \/ InvalidateAll
    <3>1. heap' = heap /\ (cache' = cache \/ cache' = <<>>)
      BY <2>1 DEF qvars, GetCached, GetMissing, InvalidateAll
    <3> QED
      BY <1>1, <1>2, <3>1, QuietCopies
  <2>2. ASSUME NEW id \in Asked, Ask(id)
        PROVE  CopiesOK'
    <3>1. heap' = heap /\ cache' = cache
      BY <2>2 DEF Ask
    <3> QED
      BY <1>1, <1>2, <3>1, QuietCopies
  <2>3. CASE Return
    BY <1>1, <1>2, <2>3, ReturnCopies
  <2>4. ASSUME NEW f \in File, NEW con \in Contents, Edit(f, con)
        PROVE  CopiesOK'
    BY <1>1, <1>2, <2>4, EditCopies
  <2> QED
    BY <2>1, <2>2, <2>3, <2>4 DEF Next, Get
<1> QED
  BY <1>1, <1>2 DEF QInv

\* With grammar.handle_spaces, however the queries of several grammars that share
\* files, their edits and InvalidateAll follow one another, a rule of the user's
\* is wrapped in a capture once in each grammar that went through AddCaptures.
THEOREM CapturedOnce == Spec => []UserRulesCapturedOnce
<1>1. QInv => UserRulesCapturedOnce
  <2> SUFFICES ASSUME QInv, HandleSpaces, NEW id \in DOMAIN cache, NEW d \in cache[id].defs, heap[d].file \in File
               PROVE  heap[d].captures = IF id[1] \in Spaces /\ Captured(id[2]) \in DOMAIN cache THEN 1 ELSE 0
    BY DEF UserRulesCapturedOnce, Spaces, Captured
  <2>1. Typed /\ CacheOK /\ OriginalsOK /\ OwnCopies /\ CountsOK
    BY DEF QInv, FreshInv, TypeOK, Typed, CopiesOK
  <2>2. PICK p : p = id[2]
    OBVIOUS
  <2>3. id \in Id /\ p \in Path /\ id = Query(id[1], p) /\ d \in DOMAIN heap /\ OfUser(d)
    BY <2>1, <2>2, QueryFacts DEF Typed, OfUser
  <2>4. CASE id[1] \notin Spaces
    <3>1. heap[d].body = d
      BY <2>1, <2>4 DEF CacheOK, Fresh
    <3> QED
      BY <2>1, <2>3, <2>4, <3>1 DEF OriginalsOK
  <2>5. CASE id[1] = "WithWhitespace"
    <3>1. id = Whitespaced(p) /\ d \in UserDefs(Whitespaced(p))
      BY <2>3, <2>5 DEF Whitespaced, UserDefs
    <3> QED
      BY <2>1, <2>2, <2>3, <2>5, <3>1 DEF CountsOK, Spaces
  <2>6. CASE id[1] = "WithCaptures"
    <3>1. id = Captured(p) /\ Whitespaced(p) \in DOMAIN cache
      BY <2>1, <2>3, <2>6, CapturedSource DEF Captured
    <3>2. cache[id].defs = cache[Whitespaced(p)].defs
      BY <2>1, <2>2, <2>6, PassNames DEF OwnCopies, Whitespaced
    <3>3. d \in UserDefs(Whitespaced(p))
      BY <2>3, <3>2 DEF UserDefs
    <3> QED
      BY <2>1, <2>2, <2>3, <2>6, <3>1, <3>3 DEF CountsOK, Spaces
  <2>7. CASE id[1] = "TransformedGrammar"
    <3>1. Captured(p) \in DOMAIN cache
      BY <2>1, <2>2, <2>7, PassSource, PassNames DEF Captured, Spaces
    <3>2. cache[id].defs = cache[Captured(p)].defs
      BY <2>1, <2>2, <2>7, PassNames DEF OwnCopies, Captured
    <3>3. Whitespaced(p) \in DOMAIN cache /\ cache[Captured(p)].defs = cache[Whitespaced(p)].defs
      BY <2>1, <3>1, CapturedSource, PassNames DEF OwnCopies, Whitespaced
    <3>4. d \in UserDefs(Whitespaced(p))
      BY <2>3, <3>2, <3>3 DEF UserDefs
    <3> QED
      BY <2>1, <2>2, <2>3, <2>7, <3>1, <3>3, <3>4 DEF CountsOK, Spaces
  <2> QED
    BY <2>4, <2>5, <2>6, <2>7 DEF Spaces
<1> QED
  BY <1>1, QInvInit, QInvNext, PTL DEF Spec
=============================================================================
