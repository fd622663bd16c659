------------------------------ MODULE Spacing ------------------------------
(***************************************************************************)
(* Automatic whitespace handling (go/grammar_whitespace_handler.go): calls *)
(* of the rule Spacing are put before the items of a sequence, except in   *)
(* lexified expressions, in sequences of terminals, and in Spacing itself  *)
(* and what it calls.  The last rewriting, captures, leaves those rules    *)
(* out too (go/grammar_capture_handler.go).                                *)
(***************************************************************************)
EXTENDS Grammar

SpacingCall == Id("Spacing")
BuiltinSpaces == {"Spacing", "Space", "EOF", "EOL"}   \* skipAddingCaptures

\* findDefinitionDeps: the rules an expression names, as identifiers or as
\* labels, but not below a precedence, and those that these name.
RECURSIVE NamesIn(_)
NamesIn(e) ==
    CASE e.k = "id" -> {e.name}
      [] e.k = "lbl" -> {e.label} \cup NamesIn(e.e)
      [] e.k \in {"prec", "cap"} -> {}
      [] OTHER -> UNION {NamesIn(c) : c \in Children(e)}
RECURSIVE DepsOf(_, _)
DepsOf(g, names) ==
    LET next == names \cup (UNION {NamesIn(DefExpr(g, n)) : n \in names} \cap DefNames(g))
    IN IF next = names THEN names ELSE DepsOf(g, next)
SpacingRules(g) == IF "Spacing" \in DefNames(g) THEN DepsOf(g, {"Spacing"}) ELSE {}

\* What takes care of the spaces in front of itself.
SkipsSpaces(e) == e.k \in {"lex", "cat", "star", "plus"} \/ e = SpacingCall

\* expandExpr: `lex` says whether a # encloses the expression, `first` whether
\* the first item of a sequence gets a call of its own.
RECURSIVE ExpandExpr(_, _, _)
ExpandExpr(e, lex, first) ==
    LET spaces == ~lex /\ ~IsSyntactic(e, TRUE)
        Item(i) == LET item == ExpandExpr(e.items[i], lex, TRUE)
                   IN IF spaces /\ (first \/ i > 1) /\ ~SkipsSpaces(e.items[i])
                      THEN <<SpacingCall, item>> ELSE <<item>>
    IN CASE e.k = "lex" -> Lex(ExpandExpr(e.e, TRUE, TRUE))
         [] e.k = "cat" -> Cat(FlattenSeq([i \in DOMAIN e.items |-> Item(i)]))
         [] e.k = "alt" -> Alt(ExpandExpr(e.l, lex, IsSyntactic(e, TRUE)),
                               ExpandExpr(e.r, lex, IsSyntactic(e, TRUE)))
         [] e.k \in {"star", "plus"} /\ spaces ->
                [e EXCEPT !.e = Cat(<<SpacingCall, ExpandExpr(@, lex, FALSE)>>)]
         [] e.k \in Unary \ {"lex", "prec"} /\ ~(e.k \in {"star", "plus"} /\ spaces) ->
                [e EXCEPT !.e = ExpandExpr(@, lex, TRUE)]
         [] OTHER -> e

InjectWhitespaces(g) ==
    [i \in DOMAIN g |-> IF g[i].name \in SpacingRules(g) THEN g[i]
                        ELSE [g[i] EXCEPT !.expr = ExpandExpr(@, FALSE, TRUE)]]

\* The three rewritings in the order of query_pipeline.go, spaces not captured.
Prepared(g) ==
    LET spaced == InjectWhitespaces(MapExprs(g, AddCharset))
        uncaptured == BuiltinSpaces \cup SpacingRules(spaced)
    IN [i \in DOMAIN spaced |-> IF spaced[i].name \in uncaptured THEN spaced[i]
                                ELSE CapturedDef(spaced[i])]
=============================================================================
