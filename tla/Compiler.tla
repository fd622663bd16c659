------------------------------ MODULE Compiler ------------------------------
(***************************************************************************)
(* The compiler (go/grammar_compiler.go) and the part of the encoder that  *)
(* resolves labels (go/vm_encoder.go).  Code is a sequence of instructions *)
(* whose jumps are relative (`by`) and whose calls carry a rule's name     *)
(* (`rule`); Link turns both into addresses, as backpatchCallSites and     *)
(* Encode do with labels.                                                  *)
(*                                                                         *)
(* What a visit of the tree depends on is the record x: the grammar g, its *)
(* left-recursive rules lr, the rules inlined at their calls, the error    *)
(* labels, the optimization level opt, and cap, which is shouldCapture: a  *)
(* predicate turns it off for its body (withinPredicate).                  *)
(***************************************************************************)
EXTENDS GrammarAnalysis

Op(op) == <<[op |-> op]>>
JumpBy(op, by) == <<[op |-> op, by |-> by]>>
CharIn(cs) == [op |-> "set", cs |-> cs]
CapOp(x, op, capOp) == IF x.cap THEN capOp ELSE op

Commits(x, by) == JumpBy(CapOp(x, "commit", "capCommit"), by)

\* shouldInline.  The limit on the size of the rule (compiler.inline.max_size
\* is 50 instructions) is not reached by the grammars of the instances.
\* Mutation: recovery rules are inlined as well.
InlinedWithLabels(g, cfg) ==
    IF cfg.inline THEN DefNames(g) \ ({g[1].name} \cup RecursiveSet(g)) ELSE {}
Inlined(g, cfg) ==
    IF cfg.inline
    THEN DefNames(g) \ ({g[1].name} \cup ErrorLabels(g) \cup RecursiveSet(g))
    ELSE {}

-----------------------------------------------------------------------------
\* capExprSize: the length of every match of e, or -1 if it varies (or is 0).
RECURSIVE CapExprSize(_)
CapExprSize(e) ==
    LET sizes == [i \in DOMAIN e.items |-> CapExprSize(e.items[i])]
        total == FoldLeft(LAMBDA a, b : a + b, 0, sizes)
    IN CASE e.k = "set" -> IF e.wide THEN -1 ELSE 1
         [] e.k = "lit" -> Len(e.s)
         [] e.k = "class" -> IF Cardinality(ToSet(sizes)) = 1 /\ sizes[1] > 0
                             THEN sizes[1] ELSE -1
         [] e.k = "alt" -> IF CapExprSize(e.l) = CapExprSize(e.r)
                           THEN CapExprSize(e.l) ELSE -1
         [] e.k = "cat" -> IF -1 \notin ToSet(sizes) /\ total > 0 THEN total ELSE -1
         [] e.k = "lex" -> CapExprSize(e.e)
         [] OTHER -> -1

ShouldUseCapOffset(e, x) ==
    /\ IsSyntactic(e.e, TRUE)
    /\ e.name \notin x.labels
    /\ \A s \in SubExprs(e.e) : s.k \notin {"cap", "lbl", "id"}

-----------------------------------------------------------------------------
CallRule(name, prec, isLR) ==
    IF isLR THEN <<[op |-> "callLR", rule |-> name, prec |-> prec]>>
    ELSE <<[op |-> "call", rule |-> name]>>

ClassChoice(items) == FoldRight(Alt, Front(items), Last(items))

\* The end of a repetition without its first instruction: back to the body, n
\* instructions before.  Mutation: the label is placed after the body.
LoopBackToItself(x, n) == JumpBy(CapOp(x, "partialCommit", "capPartialCommit"), 0)
LoopBack(x, n) == JumpBy(CapOp(x, "partialCommit", "capPartialCommit"), -n)

\* Predicates and labels around the code of their expression, which a predicate
\* compiles without captures.
AndCode(body, x) ==
    JumpBy("choicePred", Len(body) + 2) \o body
    \o JumpBy(CapOp(x, "backCommit", "capBackCommit"), 2) \o Op("fail")
NotCode(body, x) ==
    IF x.opt = 0
    THEN JumpBy("choicePred", Len(body) + 3) \o body \o Commits(x, 1) \o Op("fail")
    ELSE JumpBy("choicePred", Len(body) + 2) \o body \o Op("failTwice")
LabelCode(body, label, x) ==
    JumpBy("choice", Len(body) + 2) \o body \o Commits(x, 2)
    \o <<[op |-> "throw", label |-> label]>>

RECURSIVE Compile(_, _)
Compile(e, x) ==
    LET body == Compile(e.e, x)
        n == Len(body)
        inPredicate == Compile(e.e, [x EXCEPT !.cap = FALSE])
        left == Compile(e.l, x)
        right == Compile(e.r, x)
    IN CASE e.k = "any" -> Op("any")
         [] e.k = "lit" -> [i \in DOMAIN e.s |-> CharIn({e.s[i]})]
         [] e.k \in {"set", "range"} -> <<CharIn(e.cs)>>
         [] e.k = "class" ->
               IF e.items = <<>> THEN <<>> ELSE Compile(ClassChoice(e.items), x)
         [] e.k = "cat" -> FlattenSeq([i \in DOMAIN e.items |-> Compile(e.items[i], x)])
         [] e.k = "plus" -> body \o Compile(Star(e.e), x)
         [] e.k = "star" /\ e.e.k = "set" -> <<[op |-> "span", cs |-> e.e.cs]>>
         [] e.k = "star" /\ e.e.k # "set" ->
               JumpBy("choice", n + 2) \o body \o
               (IF x.opt = 0 THEN Commits(x, -(n + 1))
                ELSE LoopBack(x, n))
         [] e.k = "opt" -> JumpBy("choice", n + 2) \o body \o Commits(x, 1)
         [] e.k = "alt" -> JumpBy("choice", Len(left) + 2) \o left
                           \o Commits(x, Len(right) + 1) \o right
         [] e.k = "and" /\ x.opt = 0 -> Compile(Not(Not(e.e)), x)
         [] e.k = "and" /\ x.opt # 0 -> AndCode(inPredicate, x)
         [] e.k = "not" -> NotCode(inPredicate, x)
         [] e.k = "lex" -> body
         [] e.k = "lbl" -> LabelCode(body, e.label, x)
         [] e.k = "prec" /\ e.e.k # "id" -> body
         [] e.k = "prec" /\ e.e.k = "id" ->
               IF e.e.name \in x.inlined THEN Compile(DefExpr(x.g, e.e.name), x)
               ELSE CallRule(e.e.name, e.level, TRUE)
         [] e.k = "id" ->
               IF e.name \in x.inlined THEN Compile(DefExpr(x.g, e.name), x)
               ELSE CallRule(e.name, IF e.name \in x.lr THEN 1 ELSE 0, e.name \in x.lr)
         [] e.k = "cap" ->
               CASE ~x.cap -> body
                 [] x.cap /\ CapExprSize(e.e) >= 0 ->
                       body \o <<[op |-> "capTerm", id |-> e.name, size |-> CapExprSize(e.e)]>>
                 [] x.cap /\ CapExprSize(e.e) < 0 /\ ShouldUseCapOffset(e, x) ->
                       <<[op |-> "capBeginOffset", id |-> e.name]>> \o body \o Op("capEndOffset")
                 [] OTHER -> <<[op |-> "capBegin", id |-> e.name]>> \o body \o Op("capEnd")

\* A left-recursive rule returns to its call for another iteration.
ReturnOp(name, x) ==
    IF name \in x.lr THEN CapOp(x, "returnLR", "capReturnLR")
    ELSE CapOp(x, "return", "capReturn")
CompileDef(d, x) == Compile(d.expr, x) \o Op(ReturnOp(d.name, x))

-----------------------------------------------------------------------------
\* What every visit sees: the analyses are asked of the grammar as written.
Visit(g, cfg) ==
    [g |-> Transformed(g, cfg), lr |-> LeftRecursiveSet(g), inlined |-> Inlined(g, cfg),
     labels |-> ErrorLabels(g), opt |-> cfg.optimize, cap |-> cfg.captures]

\* The rules whose code is emitted, in order, and where the code of each starts.
Emitted(x) == SelectSeq(x.g, LAMBDA d : d.name \notin x.inlined)
StartOf(defs, x) ==
    LET start[i \in 1..Len(defs) + 1] ==
            IF i = 1 THEN 3 ELSE start[i - 1] + Len(CompileDef(defs[i - 1], x))
    IN [i \in DOMAIN defs |-> start[i]]

Link(code, address) ==
    [a \in DOMAIN code |->
        LET i == code[a]
        IN CASE i.op = "callLR" -> [op |-> i.op, to |-> address[i.rule], prec |-> i.prec]
             [] i.op = "call" -> [op |-> i.op, to |-> address[i.rule]]
             [] "by" \in DOMAIN i -> [op |-> i.op, to |-> a + i.by]
             [] OTHER -> i]

\* The rules that have code, with their addresses.
Addresses(x) ==
    LET defs == Emitted(x)
        starts == StartOf(defs, x)
    IN [n \in DefNames(defs) |-> starts[CHOOSE i \in DOMAIN defs : defs[i].name = n]]

\* The bytecode, and the addresses of the rules the program's owner starts
\* matches from.  CompileWithDB fails on a call of a rule that does not exist;
\* the grammars of the instances have none.  Nor is their code longer than 0xFFFF
\* bytes, at which it starts again without inlining: the code it then leaves is the
\* one for cfg.inline = FALSE.
CompileGrammar(g, cfg, rules) ==
    LET x == Visit(g, cfg)
        defs == Emitted(x)
        address == Addresses(x)
        code == CallRule(g[1].name, 1, g[1].name \in x.lr) \o Op("halt")
                \o FlattenSeq([i \in DOMAIN defs |-> CompileDef(defs[i], x)])
    IN [code |-> Link(code, address),
        rules |-> {address[n] : n \in rules \cap DOMAIN address},
        rxps |-> [l \in x.labels \cap DOMAIN address |-> address[l]]]

\* The rule whose code starts at an address; the first rule for Match.
RuleAt(g, cfg, addr) ==
    LET address == Addresses(Visit(g, cfg))
    IN IF addr = 0 THEN g[1].name
       ELSE CHOOSE n \in DOMAIN address : address[n] = addr
=============================================================================
