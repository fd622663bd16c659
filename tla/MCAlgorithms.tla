---------------------------- MODULE MCAlgorithms ----------------------------
(***************************************************************************)
(* The pure algorithms, each on every case of a bounded set: one step      *)
(* picks a case, and an invariant for each algorithm looks at it.          *)
(***************************************************************************)
EXTENDS Algorithms, GrammarLayout, EditorQueries, Junction

Tokens == IdToks \cup Digits \cup ToSet(Superscripts) \cup
    {"@import", ",", "<-", "/", "//", ":", "#", "&", "!", "^", "?", "*", "+", "{", "}",
     "(", ")", "[", "]", "-", "'", "\"", "\\", "n", "u", ".", " ", "\n"}
RuleNames == DefNames(LangLang) \cup {"eof", "MissingRightRange"} \cup {"S", "V", "O", "Q", "C", "LB", "RB", "A", "B", "L"}

-----------------------------------------------------------------------------
Texts == UNION {[1..n -> Rune] : n \in 0..4}
PickText == Pick("text", Texts)

-----------------------------------------------------------------------------
\* Programs: up to three instructions and a label anywhere among them.
Plain(op, args) == Instr(op, 0, args, ZeroSource)
To(op, args) == Instr(op, 1, args, ZeroSource)
Repertoire ==
    {Plain("any", <<>>), Plain("char", <<2>>), Plain("char", <<Base * Base>>),
     Plain("range", <<1, Base>>), Plain("range", <<1, Base * Base + 1>>),
     Plain("set", <<"digits">>), Plain("span", <<"letters">>), Plain("cap_non_term", <<3, Base>>),
     Plain("throw", <<Base + 1>>), To("jump", <<>>), To("choice", <<>>),
     To("call", <<>>), To("call_lr", <<2>>)}
Here == <<1, 1, 1, 0, 1, 4, 3>>
There == <<2, 5, 2, 40, 6, 1, 49>>
Back == <<1, 1, 1, 0, 2, 3, 9>>
Sources == {<<Here, Here, There>>, <<There, Here, Back>>, <<Back, Back, Back>>}
Programs ==
    {InsertAt([k \in DOMAIN ops |-> [ops[k] EXCEPT !.src = srcs[k]]], at,
              Instr("label", 1, <<>>, ZeroSource)) :
        ops \in [1..3 -> Repertoire], srcs \in Sources, at \in 1..4}
ASSUME ProgramsAreCode == \A p \in Programs : IsCode(p)
PickProgram == Pick("program", Programs)

-----------------------------------------------------------------------------
\* Expressions: every operator on every kind of operand, two levels deep, and
\* sequences and choices of them.
Seq1(n) == N("seq", "", <<n>>)
Seq2(m, n) == N("seq", "", <<m, n>>)
AltN(l, r) == N("choice", "", <<l, r>>)
IdA == N("id", "a", <<>>)
LitQ == N("lit", <<"'", "]">>, <<>>)
LitN == N("lit", <<"a", " ", "\n", "A">>, <<>>)
ClassN == N("class", "", <<N("range", <<"a", "b">>, <<>>), N("lit", <<"]">>, <<>>),
                           N("range", <<"-", "L">>, <<>>)>>)
Atoms == {IdA, N("num", "u8", <<>>), LitQ, LitN, ClassN, N("any", "", <<>>),
          N("bytes", "L", <<>>)}
Groups == {Seq2(IdA, N("id", "b", <<>>)), AltN(Seq1(IdA), Seq1(LitQ)),
           AltN(Seq1(ClassN), AltN(Seq2(IdA, IdA), Seq1(N("any", "", <<>>))))}
Suffixed(ns) == {N(k, "", <<n>>) : k \in {"opt", "star", "plus"}, n \in ns}
                    \cup {N("prec", "2nd", <<n>>) : n \in ns}
                    \cup {N("count", "b", <<n>>) : n \in ns}
Labelled(ns) == {N("lbl", "L", <<n>>) : n \in ns}
Prefixed(ns) == {N(k, "", <<n>>) : k \in {"not", "and", "lex"}, n \in ns}
Bound(ns) == {N("bind", "b", <<n>>) : n \in ns}
Primaries == Atoms \cup Groups
Suffixeds == Primaries \cup Suffixed(Primaries)
Labelleds == Suffixeds \cup Labelled(Suffixeds)
\* A group alone is not an operand: its parentheses leave no node.
Prefixeds == (Labelleds \ Groups) \cup Prefixed(Labelleds) \cup Bound({IdA, LitQ} \cup Prefixed(Labelled(Groups)))
Few == {IdA, N("bind", "b", <<N("opt", "", <<ClassN>>)>>), N("not", "", <<N("lbl", "L", <<LitQ>>)>>),
        N("prec", "1st", <<IdA>>), N("star", "", <<Seq2(IdA, LitN)>>)}
Bodies == {Seq1(n) : n \in Prefixeds}
            \cup {Seq2(m, n) : m \in Few, n \in Few}
            \cup {AltN(Seq1(l), AltN(Seq2(m, IdA), Seq1(n))) : l \in Few, m \in Few, n \in Few}
            \cup {N("seq", "", <<>>)}
Import1 == N("import", "", <<N("lit", <<"a">>, <<>>), N("lit", <<"b">>, <<>>)>>)
Import2 == N("import", "", <<N("lit", <<"a">>, <<>>), N("lit", <<"b">>, <<>>), N("lit", <<"L">>, <<>>)>>)
Grammars ==
    {<<<<>>, <<N("def", "a", <<body>>)>>>> : body \in Bodies}
        \cup {<<imports, <<N("def", "a", <<Seq1(m)>>), N("def", "b", <<Seq1(n)>>)>>>> :
                imports \in {<<Import1>>, <<Import2, Import1>>}, m \in Few, n \in Few}
PickGrammar == Pick("grammar", Grammars \X Layouts)

\* grammar_parser_v2.go, with the grammar it runs, gives back every grammar
\* that was written down, with spans that hold what they stand for, and
\* grammar_parser.go gives the same.
GrammarsRoundTrip ==
    Given("grammar") =>
        /\ RoundTrips(given.case[1][1], given.case[1][2], given.case[2])
        /\ ParsersAgree(given.case[1][1], given.case[1][2], given.case[2])

\* What an editor holds while an import is typed.
Typed ==
    {LaidOut([i \in DOMAIN words |-> <<words[i]>>], "close") :
        words \in UNION {[1..n -> {"@import", "a", "from", "."}] : n \in 1..4}}
PickTyped == Pick("typed", Typed)
TypingSpec == Init /\ [][PickTyped]_vars

\* Parse "attempts to build a partial AST from the recovered tree and collects
\* errors as ErrorNode instances in the grammar" (grammar_parser_v2.go).  Yet
\* parseImport takes the first and last byte of what was recovered for quotes.
PartialASTIsBuilt == Given("typed") => ParseText(given.case).kind = "grammar"

-----------------------------------------------------------------------------
\* A file of two rules, which may import L from another, where L is defined.
ParsedFrom(nodes, layout) == ParseText(LaidOut(WordsOf(nodes), layout))
LabelL(n) == N("lbl", "L", <<n>>)
IdL == N("id", "L", <<>>)
Other == ParsedFrom(<<N("def", "L", <<AltN(Seq1(LabelL(IdA)), Seq2(LitQ, IdL))>>)>>, "close").defs
ImportL == N("import", "", <<N("lit", <<"L">>, <<>>), N("lit", <<"b">>, <<>>)>>)
FileBodies ==
    {Seq1(n) : n \in {IdA, LabelL(IdA), LabelL(N("star", "", <<IdL>>)), LabelL(LitQ),
                      N("not", "", <<LabelL(Seq2(IdA, IdL))>>), N("bind", "b", <<LabelL(ClassN)>>)}}
        \cup {AltN(Seq2(IdL, ClassN), Seq2(LitN, LabelL(IdL)))}
Files == {<<imports, m, n>> : imports \in {<<>>, <<ImportL>>}, m \in FileBodies, n \in FileBodies}
PickFile == Pick("file", Files \X Layouts)

From(file, defs) == [i \in DOMAIN defs |-> [file |-> file, def |-> defs[i]]]
Resolved(g) == From("own", g.defs) \o (IF g.imports = <<>> THEN <<>> ELSE From("b", Other))
FindsIn(in, imports, resolved) ==
    NamesAreFound(in, imports, resolved, "own") /\ TokensAreNames(in, resolved, "own")
EditorFinds(in, g) == FindsIn(in, g.imports, Resolved(g))
\* query_lsp.go and engine.go, on every name of the file.
EditorFindsNames ==
    Given("file") =>
        LET nodes == given.case[1][1] \o <<N("def", "a", <<given.case[1][2]>>),
                                          N("def", "b", <<given.case[1][3]>>)>>
            in == LaidOut(WordsOf(nodes), given.case[2])
        IN EditorFinds(in, ParseText(in))

-----------------------------------------------------------------------------
\* Grammars with brackets, whose rule is O: JSON's shape; brackets as rules of
\* their own; two kinds of brackets, labels, and quotes without an escape.
Byte(c) == Lit(<<c>>)
Rest == <<Def("V", AltOf(<<Id("O"), Id("Q"), Byte("a")>>)), Def("Spacing", Star(OneOf({" "})))>>
Escaping == <<Def("Q", Cat(<<Byte("'"), Lex(Cat(<<Star(Cat(<<Not(Byte("'")), Id("C")>>)), Byte("'")>>))>>)),
              Def("C", Alt(Lex(Cat(<<Byte("\\"), Dot>>)), Dot))>>
Listed(item) == Cat(<<item, Star(Cat(<<Byte(","), item>>))>>)
Start == Def("S", Cat(<<Star(Id("V")), Not(Dot)>>))
Bracketed == {
    <<Start, Def("O", Cat(<<Byte("{"), Opt(Listed(Id("V"))), Byte("}")>>))>> \o Escaping \o Rest,
    <<Start, Def("O", Cat(<<Id("LB"), Star(Id("V")), Id("RB")>>)),
      Def("LB", Cat(<<Byte("{")>>)), Def("RB", Byte("}"))>> \o Escaping \o Rest,
    <<Start, Def("O", Alt(Id("A"), Id("B"))), Def("A", Cat(<<Byte("("), Star(Id("V")), Lbl(Byte(")"), "L")>>)),
      Def("B", Cat(<<Byte("{"), Opt(Listed(Id("V"))), Byte("}")>>)),
      Def("Q", Cat(<<Byte("'"), Star(Cat(<<Not(Byte("'")), Dot>>)), Byte("'")>>))>> \o Rest}
PreparedFor == [g \in Bracketed |-> Prepared(g)]
SpecFor == [g \in Bracketed |-> AnalyzeForJunctions(PreparedFor[g])]
MaxBracketText == 5
BracketTexts == UNION {[1..n -> {"{", "}", ",", "'", "\\", "a"}] : n \in 0..MaxBracketText}
                    \cup UNION {[1..n -> {"{", "}", "(", ")"}] : n \in 0..MaxBracketText}
PickBracketed == Pick("bracketed", BracketTexts)

\* Specs written by hand have sequences, too.
HandSpecs == {[junctions |-> ("{" :> "Open" @@ "}" :> "Close" @@ "a" :> "Separator"),
               sequences |-> <<[pattern |-> <<"a", "{">>, kind |-> "Open"],
                               [pattern |-> <<"}", "}">>, kind |-> "Close"],
                               [pattern |-> <<"a", "{", "}">>, kind |-> "Separator"]>>,
               quotes |-> ("'" :> FALSE)]}

RECURSIVE TreeNodes(_)
TreeNodes(t) == {t} \cup UNION {TreeNodes(t.kids[i]) : i \in DOMAIN t.kids}
\* The pieces of an input the grammar accepts are its bracketed rules.
FollowsGrammar(g, in) ==
    LET v == ValueOf(PreparedFor[g], "S", in, {}, {}, TRUE)
        root == BuildPartitions(ScanJunctions(in, SpecFor[g]), Len(in))
        nodes == UNION {TreeNodes(v.caps[i]) : i \in DOMAIN v.caps}
    IN v.kind = "ok" =>
          {<<p.start, p.end>> : p \in Inner(root)} =
             {<<n.start, n.end>> : n \in {m \in nodes : m.typ = "Node" /\ m.name = "O"}}

\* go/junction: what the analysis of a grammar makes the scanner find are the
\* brackets outside quotes, and in a text of the grammar its bracketed rules.
BracketsAreFound ==
    Given("bracketed") =>
        /\ \A spec \in HandSpecs : PartitionsAreBrackets(given.case, spec)
        /\ \A g \in Bracketed :
              PartitionsAreBrackets(given.case, SpecFor[g]) /\ FollowsGrammar(g, given.case)

\* ParsePartitions, called with the outermost pieces of a text.
Parallel == {<<"{", "a", "}", "{", "}", "{", ",">>, <<"{", "}", "{", "}", "{", "}", "{", "a", "}">>, <<"a">>}
PickPieces ==
    /\ given.kind = "none"
    /\ \E in \in Parallel, g \in Bracketed :
          /\ given' = [kind |-> "pieces", case |-> in]
          /\ ParsePartitions(in, BuildPartitions(ScanJunctions(in, SpecFor[g]), Len(in)).children)
RunPool == Given("pieces") /\ PoolNext /\ UNCHANGED given

-----------------------------------------------------------------------------
Next == PickText \/ PickProgram \/ PickGrammar \/ PickFile \/ PickBracketed \/ PickPieces \/ RunPool
Spec == Init /\ [][Next]_vars
=============================================================================
