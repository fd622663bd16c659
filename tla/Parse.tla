------------------------------- MODULE Parse -------------------------------
(***************************************************************************)
(* The parser of a grammar: the grammar is rewritten and compiled (modules *)
(* Grammar, GrammarAnalysis, Compiler), the machine (module VM) runs the   *)
(* code, and what it ends with is compared with the meaning of the grammar *)
(* (module PEG).                                                           *)
(***************************************************************************)
EXTENDS VM, Compiler, PEG

CONSTANT Sources    \* a sequence of grammars: see IsSource
VARIABLES
    source,         \* the index in Sources of the machine's grammar
    meaning         \* what the match in progress should end with

pvars == <<vars, source, meaning>>

\* A grammar, its configuration, the rules its parser is started with besides
\* the first, the inputs of a first match, and those of two matches in a row.
IsSource(s) ==
    /\ s.cfg \in Config
    /\ ErrorLabels(s.g) \cup DefNames(s.g) \subseteq Names
    /\ s.rules \subseteq DefNames(s.g)
    /\ s.again \subseteq s.inputs /\ s.inputs \subseteq Inputs
ASSUME SourcesAssumption == \A i \in DOMAIN Sources : IsSource(Sources[i])

Compiled(s) == CompileGrammar(s.g, s.cfg, s.rules)
CompiledSources == {Compiled(s) : s \in ToSet(Sources)}
ASSUME ProgramsAreCompiled == Programs = CompiledSources

\* The meaning of a grammar on an input, from the rule at an address.
Meaning(s, in, addr) ==
    ValueOf(Transformed(s.g, s.cfg), RuleAt(s.g, s.cfg, addr), in, LeftRecursiveSet(s.g),
            ErrorLabels(s.g) \cap DefNames(s.g), s.cfg.captures)

ParseInit ==
    /\ source \in DOMAIN Sources
    /\ prog = Compiled(Sources[source])
    /\ Init
    /\ meaning = Diverges
\* MatchRule is a loop that runs to its return: once begun, a match goes on.
Run == Step /\ UNCHANGED <<source, meaning>>
MatchInputs ==
    LET s == Sources[source]
    IN CASE mode = "idle" -> s.inputs
         [] mode = "done" /\ input \in s.again -> s.again
         [] OTHER -> {}
ParseNext ==
    \/ Run
    \/ \E in \in MatchInputs, addr \in {0} \cup prog.rules :
         /\ MatchRule(in, addr)
         /\ meaning' = Meaning(Sources[source], in, addr)
         /\ UNCHANGED source
ParseSpec == ParseInit /\ [][ParseNext]_pvars /\ WF_pvars(Run)

-----------------------------------------------------------------------------
RECURSIVE Unfold(_)
\* The tree below a node, without its NodeIDs.
Unfold(id) ==
    [tree[id + 1] EXCEPT !.kids = [i \in DOMAIN @ |-> Unfold(@[i])]]

\* The machine accepts what the grammar matches, stops where the match ends,
\* fails when it fails and reports the label it throws; a grammar that loops
\* forever has no result.  Every way of compiling the grammar agrees, since
\* the meaning does not depend on the configuration.
ResultAgrees ==
    Done => \/ meaning.kind = "ok" /\ Matched /\ cursor = meaning.end
            \/ meaning.kind = "fail" /\ result.kind = "error" /\ result.label = NoName
            \/ /\ meaning.kind = "thrown"
               /\ result.kind = "error" /\ result.label = meaning.label

\* The captures that survive to the end of a match are those of the rules and
\* expressions on the successful path, nested as the grammar nests them:
\* backtracking, partial commits and LR iterations neither lose nor leak one.
TreeAgrees ==
    Matched => [i \in DOMAIN stack.nodes |-> Unfold(stack.nodes[i])] = meaning.caps

\* The farthest failure position is that of the farthest failure.  (A span, as
\* a repetition of a set is compiled unless optimization is off, does not fail
\* at its end; the repetition compiled without it does.)
FfpAgrees ==
    Done /\ Sources[source].cfg.optimize > 0 => result.ffp = meaning.far

\* A match ends, unless the grammar repeats what consumes nothing.
Terminates == (mode = "run" /\ meaning.kind # "diverge") ~> Done

(***************************************************************************)
(* What the analyses overlook.  isNullableWithSet takes an empty literal   *)
(* and a call with a precedence for expressions that consume, and looks    *)
(* at the body of a labelled expression only, where the label's rule may   *)
(* go on without consuming anything.  collectLeftCalls does not look into  *)
(* predicates, choices below the top, and labels.                          *)
(***************************************************************************)
RECURSIVE MayMatchNothing(_, _)
MayMatchNothing(e, rules) ==
    CASE e.k = "lit" -> e.s = <<>>
      [] e.k = "class" -> e.items = <<>>
      [] e.k = "lbl" -> MayMatchNothing(e.e, rules) \/ e.label \in rules
      [] e.k = "id" -> e.name \in rules
      [] e.k \in {"and", "not", "opt", "star"} -> TRUE
      [] e.k \in {"plus", "lex", "cap", "prec", "cat"} ->
            \A c \in Children(e) : MayMatchNothing(c, rules)
      [] e.k = "alt" -> \E c \in Children(e) : MayMatchNothing(c, rules)
      [] OTHER -> FALSE
MatchNothing(g) == FixedPoint(g, MayMatchNothing, {})

\* Repetitions of what isNullableWithSet takes for consuming.
OverlookedLoops(g) ==
    {s \in UNION {SubExprs(d.expr) : d \in ToSet(g)} :
        /\ s.k \in {"star", "plus"}
        /\ MayMatchNothing(s.e, MatchNothing(g))
        /\ ~IsNullable(s.e, FixedPoint(g, IsNullable, {}))}

\* The rules an expression may call where it begins.
RECURSIVE CalledFirst(_, _)
CalledFirst(e, rules) ==
    CASE e.k = "cat" ->
            UNION {CalledFirst(e.items[i], rules) : i \in
                     {j \in DOMAIN e.items : \A h \in 1..j - 1 : MayMatchNothing(e.items[h], rules)}}
      [] e.k = "id" -> {e.name}
      [] e.k = "lbl" -> CalledFirst(e.e, rules) \cup {e.label}
      [] OTHER -> UNION {CalledFirst(c, rules) : c \in Children(e)}

\* Rules not marked left-recursive that come back to themselves all the same.
OverlookedRecursion(g) ==
    LET unmarked == DefNames(g) \ LeftRecursiveSet(g)
    IN CycleMembers([n \in unmarked |-> CalledFirst(DefExpr(g, n), MatchNothing(g)) \cap unmarked])

Riskless ==
    {i \in DOMAIN Sources :
        LET g == Sources[i].g
        IN InfiniteLoopRisks(g) = {} /\ OverlookedLoops(g) = {} /\ OverlookedRecursion(g) = {}}

\* A grammar ends on every input if it has no InfiniteLoopRisk and nothing the
\* analyses overlook: of the repetitions that isNullableWithSet can judge, through
\* any chain of rules, none that may loop goes unreported.
NoRiskTerminates ==
    (mode = "run" /\ source \in Riskless) ~> Done
=============================================================================
