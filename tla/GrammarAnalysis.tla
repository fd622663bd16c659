-------------------------- MODULE GrammarAnalysis --------------------------
(***************************************************************************)
(* The queries about a grammar the compiler and the editor ask             *)
(* (go/query_pipeline.go): which rules are recursive, left-recursive or    *)
(* nullable, which always succeed, and which repetitions may loop forever. *)
(* The depth-first search of getIsRecursive is the function CycleMembers;  *)
(* module CallGraph has it step by step.                                   *)
(***************************************************************************)
EXTENDS Grammar, FiniteSetsExt

CONSTANT NameOrder   \* Names in the order of sort.Strings
ASSUME NameOrderAssumption == ToSet(NameOrder) = Names

CallEdges(g) == [n \in DefNames(g) |-> Identifiers(DefExpr(g, n)) \cap DefNames(g)]

(***************************************************************************)
(* getIsRecursive.  The search visits rules in the order of their names    *)
(* and marks the path from w to v at each back edge v -> w; which members  *)
(* of two cycles that share a rule it marks depends on that order.         *)
(***************************************************************************)
InOrder(names) == SelectSeq(NameOrder, LAMBDA n : n \in names)
PathFrom(path, n) == {path[i] : i \in (CHOOSE j \in DOMAIN path : path[j] = n)..Len(path)}

RECURSIVE Search(_, _, _, _)
\* The state <<visited, marked>> after the search has visited `names` in turn.
Search(edges, path, names, st) ==
    IF names = <<>> THEN st
    ELSE LET n == Head(names)
             after ==
                IF n \notin st[1]
                THEN Search(edges, Append(path, n), InOrder(edges[n]),
                            <<st[1] \cup {n}, st[2]>>)
                ELSE IF n \in ToSet(path)
                     THEN <<st[1], st[2] \cup PathFrom(path, n)>> ELSE st
         IN Search(edges, path, Tail(names), after)
CycleMembers(edges) == Search(edges, <<>>, InOrder(DOMAIN edges), <<{}, {}>>)[2]

RecursiveSet(g) == CycleMembers(CallEdges(g))

-----------------------------------------------------------------------------
\* isNullableWithSet: the default case takes an empty literal and a call with
\* a precedence for expressions that always consume.
RECURSIVE IsNullable(_, _)
IsNullable(e, set) ==
    CASE e.k \in {"and", "not", "opt", "star"} -> TRUE
      [] e.k \in {"plus", "lex", "cap", "lbl", "cat"} ->
            \A c \in Children(e) : IsNullable(c, set)
      [] e.k = "alt" -> \E c \in Children(e) : IsNullable(c, set)
      [] e.k = "id" -> e.name \in set
      [] OTHER -> FALSE

RECURSIVE AlwaysSucceeds(_, _)
AlwaysSucceeds(e, set) ==
    CASE e.k \in {"opt", "star"} -> TRUE
      [] e.k \in {"plus", "lex", "cap", "lbl", "cat"} ->
            \A c \in Children(e) : AlwaysSucceeds(c, set)
      [] e.k = "alt" -> \E c \in Children(e) : AlwaysSucceeds(c, set)
      [] e.k = "id" -> e.name \in set
      [] OTHER -> FALSE

\* The passes over the definitions: a rule is tested against the set as it
\* stands, until a pass adds nothing.
RECURSIVE FixedPoint(_, _, _)
FixedPoint(g, Test(_, _), set) ==
    LET pass == FoldLeft(LAMBDA s, d : IF Test(d.expr, s) THEN s \cup {d.name} ELSE s, set, g)
    IN IF pass = set THEN set ELSE FixedPoint(g, Test, pass)
\* Mutation: one level of rules.
NullableAlone(g) == {d.name : d \in {x \in ToSet(g) : IsNullable(x.expr, {})}}
NullableSet(g) == FixedPoint(g, IsNullable, {})
AlwaysSucceedsSet(g) == FixedPoint(g, AlwaysSucceeds, {})

-----------------------------------------------------------------------------
RECURSIVE FlattenChoices(_)
FlattenChoices(e) ==
    CASE e.k = "alt" -> FlattenChoices(e.l) \cup FlattenChoices(e.r)
      [] e.k \in {"cap", "lex"} -> FlattenChoices(e.e)
      [] OTHER -> {e}

\* collectLeftCalls has no case for a choice below the top of the expression.
RECURSIVE LeftCalls(_, _)
LeftCalls(e, nullable) ==
    CASE e.k = "cat" ->
            UNION {LeftCalls(e.items[i], nullable) : i \in
                     {j \in DOMAIN e.items : \A h \in 1..j - 1 : IsNullable(e.items[h], nullable)}}
      [] e.k = "id" -> {e.name}
      [] e.k = "prec" -> IF e.e.k = "id" THEN {e.e.name} ELSE {}
      [] e.k \in {"lex", "cap", "lbl", "star", "plus", "opt"} -> LeftCalls(e.e, nullable)
      [] OTHER -> {}

LeftEdges(g) ==
    [n \in DefNames(g) |->
        UNION {LeftCalls(a, NullableSet(g)) : a \in FlattenChoices(DefExpr(g, n))}
            \cap DefNames(g)]
LeftRecursiveSet(g) == CycleMembers(LeftEdges(g))

-----------------------------------------------------------------------------
(***************************************************************************)
(* InfiniteLoopRisksQuery: the repetitions whose body is nullable, and     *)
(* whether the body always succeeds, so that the loop can never exit.      *)
(***************************************************************************)
InfiniteLoopRisks(g) ==
    UNION {{[def |-> g[i].name, body |-> s.e,
             definitive |-> AlwaysSucceeds(s.e, AlwaysSucceedsSet(g))] :
               s \in {x \in SubExprs(g[i].expr) :
                        x.k \in {"star", "plus"} /\ IsNullable(x.e, NullableSet(g))}} :
           i \in DOMAIN g}
=============================================================================
