-------------------------------- MODULE PEG --------------------------------
(***************************************************************************)
(* What a grammar means, apart from any machine: the value of an expression*)
(* at a position of an input.  It is parsing expression grammars' usual    *)
(* meaning, with captures, labels that are thrown and recovered, and       *)
(* bounded left recursion, as docs/sketch.org and README.md describe them. *)
(* The compiler and the machine are checked against it (module Parse).     *)
(*                                                                         *)
(* The context c holds the input, the grammar g with its left-recursive    *)
(* rules lr and error labels, whether captures are on (cap), whether a     *)
(* predicate encloses the expression (pred), and the matches the           *)
(* left-recursive calls in progress may reuse (memo).                      *)
(*                                                                         *)
(* A value has a kind ("ok", "fail", "thrown" or, for a repetition of what *)
(* consumes nothing, "diverge"), the position it ends at, the trees it     *)
(* captures, the label it throws, and the farthest position of a failure.  *)
(***************************************************************************)
EXTENDS Grammar, FiniteSetsExt

Value(kind, end, caps, label, far) ==
    [kind |-> kind, end |-> end, caps |-> caps, label |-> label, far |-> far]
Ok(end, caps, far) == Value("ok", end, caps, NoName, far)
Failed(far) == Value("fail", 0, <<>>, NoName, far)
Thrown(pos, label, far) == Value("thrown", pos, <<>>, label, far)
Diverges == Value("diverge", 0, <<>>, NoName, -1)

Farther(v, far) == [v EXCEPT !.far = Max({@, far})]
\* v after the value before it: its captures follow, and failures add up.
After(before, v) == [Farther(v, before.far) EXCEPT
                        !.caps = IF v.kind = "ok" THEN before.caps \o @ ELSE @]

-----------------------------------------------------------------------------
(***************************************************************************)
(* Trees.  A capture of text is a String; of one tree, that tree; of more, *)
(* a Sequence.  A name wraps it in a Node, the name of an error label in   *)
(* an Error, which is there even when nothing was captured.                *)
(***************************************************************************)
MkTree(typ, name, from, to, kids) ==
    [typ |-> typ, name |-> name, start |-> from, end |-> to, kids |-> kids]
Captured(name, from, to, caps, labels) ==
    LET content == CASE Len(caps) = 1 -> caps
                     [] Len(caps) > 1 -> <<MkTree("Sequence", NoName, from, to, caps)>>
                     [] OTHER -> IF to > from THEN <<MkTree("String", NoName, from, to, <<>>)>>
                                 ELSE <<>>
    IN CASE name \in labels -> <<MkTree("Error", name, from, to, content)>>
         [] name \notin labels /\ (content = <<>> \/ name = NoName) -> content
         [] OTHER -> <<MkTree("Node", name, from, to, content)>>

-----------------------------------------------------------------------------
CharAt(pos, set, c) ==
    IF pos < Len(c.input) /\ c.input[pos + 1] \in set THEN Ok(pos + 1, <<>>, -1)
    ELSE Failed(pos)
EndOfSpan(pos, set, c) ==
    Max({e \in pos..Len(c.input) : \A i \in pos + 1..e : c.input[i] \in set})
\* Predicates capture nothing, and a label thrown inside one only fails.
Inside(c) == [c EXCEPT !.cap = FALSE, !.pred = TRUE]
Seed == -1   \* where the match that a left-recursive call starts from ends

RECURSIVE Eval(_, _, _)
RECURSIVE Grow(_, _, _, _, _)

\* As many as there are, after what came before.
RECURSIVE Repeat(_, _, _)
Repeat(e, before, c) ==
    LET v == Eval(e, before.end, c)
    IN CASE v.kind = "fail" -> Farther(before, v.far)
         [] v.kind = "ok" /\ v.end = before.end -> Diverges
         [] v.kind = "ok" /\ v.end > before.end -> Repeat(e, After(before, v), c)
         [] OTHER -> After(before, v)

(***************************************************************************)
(* A call of a left-recursive rule matches its body over and over at one   *)
(* position, each time letting the call inside it have the last match, and *)
(* takes the longest; `best` is the last match.  The call inside fails     *)
(* when there is none yet or when it binds more loosely than the call      *)
(* outside; such a bar counts as a failure at the start of the input.      *)
(***************************************************************************)
Grow(name, prec, pos, best, c) ==
    LET v == Eval(DefExpr(c.g, name), pos,
                  [c EXCEPT !.memo = (<<name, pos>> :> [best |-> best, prec |-> prec]) @@ @])
    IN CASE v.kind = "ok" /\ v.end > best.end ->
               Grow(name, prec, pos, Farther(v, best.far), c)
         [] v.kind \in {"thrown", "diverge"} -> v
         [] v.kind = "fail" /\ best.end = Seed -> v
         [] OTHER -> Farther(best, v.far)

CallOf(name, prec, isLR, pos, c) ==
    IF ~isLR THEN Eval(DefExpr(c.g, name), pos, c)
    ELSE IF <<name, pos>> \notin DOMAIN c.memo
         THEN Grow(name, prec, pos, Ok(Seed, <<>>, -1), c)
         ELSE LET m == c.memo[<<name, pos>>]
              IN IF m.best.end = Seed \/ prec < m.prec THEN Failed(0)
                 ELSE Ok(m.best.end, m.best.caps, -1)

EvalAll(items, pos, c) ==
    FoldLeft(LAMBDA before, e : IF before.kind = "ok"
                                THEN After(before, Eval(e, before.end, c)) ELSE before,
             Ok(pos, <<>>, -1), items)

Eval(e, pos, c) ==
    LET inner == Eval(e.e, pos, Inside(c))
        left == Eval(e.l, pos, c)
        body == Eval(e.e, pos, c)
    IN CASE e.k = "any" -> CharAt(pos, Char, c)
         [] e.k = "lit" -> EvalAll([i \in DOMAIN e.s |-> Rng({e.s[i]})], pos, c)
         [] e.k \in {"set", "range"} -> CharAt(pos, e.cs, c)
         [] e.k = "class" ->
               IF e.items = <<>> THEN Ok(pos, <<>>, -1)
               ELSE Eval(FoldRight(Alt, Front(e.items), Last(e.items)), pos, c)
         [] e.k = "cat" -> EvalAll(e.items, pos, c)
         [] e.k = "alt" -> IF left.kind = "fail"
                           THEN Farther(Eval(e.r, pos, c), left.far) ELSE left
         [] e.k = "opt" -> IF body.kind = "fail" THEN Ok(pos, <<>>, body.far) ELSE body
         [] e.k = "star" /\ e.e.k = "set" -> Ok(EndOfSpan(pos, e.e.cs, c), <<>>, -1)
         [] e.k = "star" /\ e.e.k # "set" -> Repeat(e.e, Ok(pos, <<>>, -1), c)
         [] e.k = "plus" -> EvalAll(<<e.e, Star(e.e)>>, pos, c)
         [] e.k = "not" ->
               CASE inner.kind = "ok" -> Failed(Max({inner.far, inner.end}))
                 [] inner.kind = "fail" -> Ok(pos, <<>>, inner.far)
                 [] OTHER -> inner
         [] e.k = "and" ->
               CASE inner.kind = "ok" -> Ok(pos, <<>>, inner.far)
                 [] inner.kind = "fail" -> Failed(Max({inner.far, pos}))
                 [] OTHER -> inner
         [] e.k = "lex" -> body
         [] e.k = "lbl" ->
               CASE body.kind # "fail" -> body
                 [] body.kind = "fail" /\ c.pred -> Failed(Max({body.far, pos}))
                 [] body.kind = "fail" /\ ~c.pred /\ e.label \in c.labels ->
                       Farther(CallOf(e.label, 0, FALSE, pos, c), body.far)
                 [] OTHER -> Thrown(pos, e.label, body.far)
         [] e.k = "prec" -> IF e.e.k = "id" THEN CallOf(e.e.name, e.level, TRUE, pos, c)
                            ELSE body
         [] e.k = "id" -> CallOf(e.name, 1, e.name \in c.lr, pos, c)
         [] e.k = "cap" ->
               IF body.kind = "ok" /\ c.cap
               THEN [body EXCEPT !.caps = Captured(e.name, pos, body.end, @, c.labels)]
               ELSE body

\* The value of a call of rule `name` at the start of the input.  `labels` are
\* the error labels that have a recovery rule.
ValueOf(g, name, in, lr, labels, cap) ==
    CallOf(name, 1, name \in lr, 0,
           [g |-> g, input |-> in, lr |-> lr, labels |-> labels, cap |-> cap,
            pred |-> FALSE, memo |-> <<>>])
=============================================================================
