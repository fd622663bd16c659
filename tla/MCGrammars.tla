---------------------------- MODULE MCGrammars ----------------------------
(***************************************************************************)
(* Grammars, configurations and inputs for Parse.                          *)
(***************************************************************************)
EXTENDS Parse

Alphabetical == <<"A", "B", "L", "S">>

a == Lit(<<"a">>)
b == Lit(<<"b">>)
ab == Class(<<a, b>>)
S(e) == Def("S", e)
A(e) == Def("A", e)
B(e) == Def("B", e)
L(e) == Def("L", e)

(***************************************************************************)
(* Grammars without left recursion.                                        *)
(***************************************************************************)
PlainGrammars == <<
    \* ordered choice: the shorter alternative first, backtracking over one
    \* captured character, captured rules lost by backtracking
    <<S(Alt(Lit(<<"a", "b">>), a))>>,
    <<S(Alt(Cat(<<Id("A"), a>>), Cat(<<Id("A"), b>>))), A(a)>>,
    <<S(Alt(Cat(<<Id("A"), Id("S")>>), Id("A"))), A(ab)>>,
    \* repetitions of calls, of spans, of text between calls, to the end
    <<S(Cat(<<Star(Id("A")), Not(Dot)>>)), A(Cat(<<a, Opt(b)>>))>>,
    <<S(Cat(<<Plus(ab), Opt(Id("A"))>>)), A(b)>>,
    <<S(Star(Cat(<<Id("A"), b>>))), A(Alt(a, Lit(<<"b", "a">>)))>>,
    <<S(Cat(<<Star(Cat(<<Not(b), Dot>>)), Id("A")>>)), A(Star(b))>>,
    <<S(Cat(<<Star(Alt(a, Id("A"))), Star(Cat(<<Not(a), Id("A")>>))>>)), A(b)>>,
    \* predicates, nested and over text
    <<S(Cat(<<And(a), Not(Lit(<<"a", "a">>)), Star(Id("A"))>>)), A(Dot)>>,
    <<S(Alt(Cat(<<Not(And(Cat(<<a, Not(b)>>))), Id("A")>>), Plus(b))), A(Plus(a))>>,
    \* recursion to the right and in the middle
    <<S(Alt(Cat(<<a, Id("S"), b>>), Opt(Id("A")))), A(Lex(b))>>,
    <<S(Id("A")), A(Alt(Cat(<<a, Id("B")>>), b)), B(Alt(Cat(<<b, Id("A")>>), a))>>,
    \* a class and a range that stay as they are, a capture of varying length
    <<S(Cat(<<Rng({"a"}), Class(<<Rng({"b"}), Rng({"a"})>>), Opt(ab)>>))>>,
    <<S(Cat(<<Plus(Cat(<<a, Opt(b)>>)), Opt(Id("A"))>>)), A(Cat(<<>>))>>
>>

(***************************************************************************)
(* Labels: thrown, recovered by a rule, recovered inside a repetition.     *)
(***************************************************************************)
LabelGrammars == <<
    <<S(Cat(<<a, Lbl(b, "L")>>))>>,
    <<S(Cat(<<Lbl(Id("A"), "L"), Id("A")>>)), A(a), L(Star(Cat(<<Not(a), Dot>>)))>>,
    <<S(Star(Cat(<<Id("A"), Lbl(Id("B"), "L")>>))), A(a), B(b), L(Opt(a))>>,
    <<S(Alt(Cat(<<a, Lbl(b, "L"), b>>), Star(Dot))), L(Star(a))>>,
    <<S(Cat(<<Opt(Lbl(Id("A"), "B")), Lbl(Lbl(a, "L"), "B")>>)), A(Lit(<<"b", "b">>)),
      L(Cat(<<And(b), Lbl(Id("A"), "B")>>))>>
>>

(***************************************************************************)
(* Left recursion: direct, with precedences, indirect, behind a nullable   *)
(* prefix, nested at one position, in a repetition, ended by a label.       *)
(***************************************************************************)
LRGrammars == <<
    <<S(Alt(Cat(<<Id("S"), a>>), b))>>,
    <<S(Alt(Cat(<<Id("S"), Lbl(a, "L")>>), b))>>,
    <<S(Alt(Cat(<<Id("S"), a, Id("S")>>), b))>>,
    <<S(Alt(Cat(<<Prec(Id("S"), 1), a, Prec(Id("S"), 2)>>), b))>>,
    <<S(Alt(Cat(<<Prec(Id("S"), 2), a, Prec(Id("S"), 1)>>), b))>>,
    <<S(Alt(Cat(<<Prec(Id("S"), 1), Prec(Id("S"), 2)>>), b))>>,
    <<S(Alt(Cat(<<Prec(Id("S"), 2), Prec(Id("S"), 1)>>), b))>>,
    <<S(Alt(Cat(<<Prec(Id("S"), 1), a, Prec(Id("S"), 2)>>),
            Alt(Cat(<<Prec(Id("S"), 2), Prec(Id("S"), 3)>>), b)))>>,
    <<S(Alt(Cat(<<Id("A"), b>>), a)), A(Alt(Cat(<<Id("S"), a>>), b))>>,
    <<S(Alt(Cat(<<Opt(b), Id("S"), a>>), b))>>,
    <<S(Cat(<<Id("A"), Not(Dot)>>)), A(Alt(Cat(<<Id("A"), Id("A"), b>>), a))>>,
    <<S(Star(Cat(<<Id("A"), Opt(b)>>))), A(Alt(Cat(<<Id("A"), a>>), Lit(<<"b", "a">>)))>>,
    <<S(Alt(Cat(<<Not(Cat(<<Id("A"), b>>)), Id("A")>>), Cat(<<Id("A"), b>>))),
      A(Alt(Cat(<<Id("A"), a>>), b))>>,
    \* two cycles that share a rule: S is on one of them and is not marked
    <<S(Cat(<<Id("B"), a>>)), A(Alt(Cat(<<Id("B"), b>>), Alt(Cat(<<Id("S"), a>>), b))),
      B(Alt(Cat(<<Id("A"), a>>), b))>>,
    \* what matches the empty string, itself or below
    <<S(Alt(Cat(<<Id("S"), a>>), Opt(b)))>>,
    <<S(Cat(<<Opt(b), Id("A")>>)), A(Alt(Cat(<<Id("A"), a>>), Star(b)))>>
>>

\* Repetitions of what may consume nothing: on every input, after a prefix,
\* on some inputs only, through a predicate.
LoopGrammars == <<
    <<S(Star(Opt(a)))>>,
    <<S(Cat(<<a, Star(Id("A"))>>)), A(Id("B")), B(Star(b))>>,
    <<S(Star(Alt(a, Not(b))))>>,
    <<S(Cat(<<Plus(Id("A")), b>>)), A(And(a))>>
>>

\* Repetitions that InfiniteLoopRisks does not report: of an empty literal, of what
\* a label's rule recovers without consuming, of a call with a precedence.
UnreportedLoops == <<
    <<S(Star(Lit(<<>>)))>>,
    <<S(Cat(<<Star(Lbl(a, "L")), b>>)), L(Opt(b))>>,
    <<S(Star(Prec(Id("A"), 1))), A(Alt(Cat(<<Id("A"), a>>), Opt(b)))>>
>>

-----------------------------------------------------------------------------
Cfg(captures, inline, optimize) ==
    [charsets |-> TRUE, captures |-> captures, inline |-> inline, optimize |-> optimize]
Default == Cfg(TRUE, TRUE, 1)
Letters == {"a", "b"}
UpTo(n) == UNION {[1..k -> Letters] : k \in 0..n}
AllInputs == UpTo(4)

\* Started with the first rule, and with every rule that is not left-recursive.
Every(gs, cfg, inputs, again) ==
    [i \in DOMAIN gs |-> [g |-> gs[i], cfg |-> cfg, inputs |-> inputs, again |-> again,
                          rules |-> DefNames(gs[i]) \ LeftRecursiveSet(gs[i])]]
=============================================================================
