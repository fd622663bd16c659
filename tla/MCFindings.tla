----------------------------- MODULE MCFindings -----------------------------
(***************************************************************************)
(* Grammars on which the program does something else than what its         *)
(* documents and comments say.                                             *)
(***************************************************************************)
EXTENDS MCGrammars

Matching(gs, cfg) == Every(gs, cfg, UpTo(3), {})

\* Every label of these grammars is inside a predicate.
ThrowingPredicates == Matching(<<
    <<S(Alt(Cat(<<Not(Lbl(a, "L")), b>>), a))>>,
    <<S(Alt(Cat(<<And(Cat(<<Lbl(Id("A"), "L"), b>>)), Star(Dot)>>), b)), A(a), L(Opt(b))>> >>,
    Default)

\* opThrow: "within !/& predicates, just backtrack" (sketch.org).  Yet a label
\* thrown in a predicate ends the match: the fail path that leads to the throw
\* pops the choice before it, which puts the predicate flag down.
ThrowsStayInPredicates == Done => result.label = NoName

\* The parser that gen.go writes starts every match at the first rule's address.
LRStart == <<[g |-> <<S(Alt(Cat(<<Id("S"), a>>), b))>>, cfg |-> Default, rules |-> {"S"},
              inputs |-> UpTo(3), again |-> {}]>>

\* stack.lr is "only valid when f.t == frameType_LRCall" (vm_stack.go).  Yet the
\* return of a left-recursive rule finds the plain frame MatchRule pushed.
LRDataOfLRFrames ==
    Running({"returnLR", "capReturnLR"}) => HasFrame /\ Top(stack).t = "LRCall"
=============================================================================
