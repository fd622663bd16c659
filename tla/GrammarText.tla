---------------------------- MODULE GrammarText ----------------------------
(***************************************************************************)
(* From the text of a grammar to its AST.  The parser in use is langlang's *)
(* own: the grammar of grammars, grammars/langlang.peg, compiled, and its  *)
(* tree converted (go/grammar_parser_v2.go).  Here the tree is what the    *)
(* meaning of that grammar (module PEG) captures.  The text is a sequence  *)
(* of tokens, each one unit long: an identifier, an operator, a quote, a   *)
(* character of a literal, a space.                                        *)
(***************************************************************************)
EXTENDS PEG, Spacing

IdToks == {"a", "b", "L", "u8", "bytes", "from"}
Digits == {"4", "1"}
Superscripts == <<"1st", "2nd">>     \* the superscript digits
Tok(t) == Lit(<<t>>)
OneOf(toks) == Class(<<Rng(toks)>>)
AltOf(es) == FoldRight(Alt, Front(es), Last(es))
Quoted(q, label) ==
    Cat(<<OneOf({q}), Lex(Cat(<<Star(Cat(<<Not(OneOf({q})), Id("Char")>>)),
                               Lbl(OneOf({q}), label)>>))>>)

\* grammars/langlang.peg.
LangLang == <<
    Def("Grammar", Cat(<<Star(Id("Import")), Star(Id("Definition")), Lbl(Id("EOF"), "eof")>>)),
    Def("Import", Cat(<<Tok("@import"), Lbl(Id("Identifier"), "MissingImportName"),
                        Star(Cat(<<Tok(","), Id("Identifier")>>)),
                        Lbl(Tok("from"), "MissingImportFrom"),
                        Lbl(Id("Literal"), "MissingImportSrc")>>)),
    Def("Definition", Cat(<<Id("Identifier"), Id("LEFTARROW"), Id("Expression")>>)),
    Def("Expression", Cat(<<Id("Sequence"), Star(Cat(<<Id("SLASH"), Id("Sequence")>>))>>)),
    Def("Sequence", Star(Id("Prefix"))),
    Def("Prefix", Cat(<<Opt(Cat(<<Id("Identifier"), Tok(":")>>)),
                        Opt(AltOf(<<Tok("#"), Tok("&"), Tok("!")>>)), Id("Labeled")>>)),
    Def("Labeled", Cat(<<Id("Suffix"),
                         Lex(Opt(Cat(<<OneOf({"^"}),
                                       Lbl(Id("Identifier"), "MissingLabel")>>)))>>)),
    Def("Suffix", Cat(<<Id("Primary"),
                        Opt(AltOf(<<Tok("?"), Tok("*"), Tok("+"), Id("Superscript"),
                                    Id("CountedSuffix")>>))>>)),
    Def("CountedSuffix", Cat(<<Tok("{"), Id("Identifier"), Tok("}")>>)),
    Def("Primary", AltOf(<<
        Id("BytesConsume"),
        Cat(<<Id("Identifier"), Not(Id("LEFTARROW"))>>),
        Cat(<<Tok("("), Id("Expression"), Lbl(Tok(")"), "MissingClosingParen")>>),
        Id("List"), Id("Literal"), Id("Class"), Id("Any")>>)),
    Def("BytesConsume", Cat(<<Tok("bytes"), Tok("("), Id("Identifier"), Tok(")")>>)),
    Def("List", Cat(<<Tok("{"), Star(Cat(<<Not(Tok("}")), Id("Expression")>>)),
                      Lbl(Tok("}"), "MissingClosingCurly")>>)),
    Def("Identifier", OneOf(IdToks)),
    Def("Literal", Alt(Quoted("'", "MissingClosingSQuote"), Quoted("\"", "MissingClosingDQuote"))),
    Def("Class", Cat(<<Tok("["), Lex(Cat(<<Star(Cat(<<Not(Tok("]")), Id("Range")>>)),
                                           Lbl(Tok("]"), "MissingClosingBracket")>>))>>)),
    Def("Range", Alt(Lex(Cat(<<Id("Char"), Tok("-"), Not(Tok("]")),
                               Lbl(Id("Char"), "MissingRightRange")>>)), Id("Char"))),
    Def("Char", Lex(AltOf(<<Id("Escape"), Id("Unicode"), Dot>>))),
    Def("Escape", Cat(<<Tok("\\"), OneOf({"n", "-", "'", "\"", "[", "]", "\\"})>>)),
    Def("Unicode", Lex(Cat(<<Tok("\\"), Tok("u"), Lbl(Tok("{"), "MissingUnicodeOpen"),
                             Lbl(Plus(Id("Hex")), "MissingUnicodeDigits"),
                             Lbl(Tok("}"), "MissingUnicodeClose")>>))),
    Def("Hex", OneOf(Digits)),
    Def("Any", Tok(".")),
    Def("Superscript", OneOf(ToSet(Superscripts))),
    Def("LEFTARROW", Tok("<-")),
    Def("SLASH", Cat(<<Tok("/"), Not(Tok("/"))>>)),
    Def("Spacing", Lex(Star(AltOf(<<Id("Comment"), Id("Space"), Id("EOL")>>)))),
    Def("Comment", Lex(Cat(<<Tok("//"), Star(Cat(<<Not(Id("EOL")), Dot>>)), Opt(Id("EOL"))>>))),
    Def("Space", OneOf({" "})),
    Def("EOL", OneOf({"\n"})),
    Def("EOF", Not(Dot)),
    Def("MissingClosingParen", Cat(<<>>)), Def("MissingClosingCurly", Cat(<<>>)),
    Def("MissingClosingBracket", Cat(<<>>)), Def("MissingClosingSQuote", Cat(<<>>)),
    Def("MissingClosingDQuote", Cat(<<>>)),
    Def("MissingLabel", Star(Cat(<<Not(Id("Primary")), Dot>>))),
    Def("MissingUnicodeOpen", Cat(<<>>)), Def("MissingUnicodeDigits", Cat(<<>>)),
    Def("MissingUnicodeClose", Cat(<<>>)),
    Def("MissingImportName", Star(Cat(<<Not(Alt(Tok("from"), Id("Literal"))), Dot>>))),
    Def("MissingImportFrom", Star(Cat(<<Not(Id("Literal")), Dot>>))),
    Def("MissingImportSrc", Star(Cat(<<Not(Tok("\n")), Dot>>))) >>

Bootstrap == Prepared(LangLang)
Recoveries == ErrorLabels(LangLang) \cap DefNames(LangLang)
BootstrapParse(in) == ValueOf(Bootstrap, "Grammar", in, {}, Recoveries, TRUE)

-----------------------------------------------------------------------------
(***************************************************************************)
(* Nodes of the AST: what it is, its value, its parts, and the piece of    *)
(* the text it stands for.  An error or a panic in a part is the whole's.  *)
(***************************************************************************)
Ast(k, v, kids, from, to) == [k |-> k, v |-> v, kids |-> kids, s |-> from, e |-> to]
Error == Ast("error", "", <<>>, 0, 0)
Panic == Ast("panic", "", <<>>, 0, 0)
IsBad(n) == n.k \in {"error", "panic"}
Whole(n) == IF \E i \in DOMAIN n.kids : IsBad(n.kids[i])
            THEN SelectSeq(n.kids, IsBad)[1] ELSE n
AstAt(k, v, kids, t) == Whole(Ast(k, v, kids, t.start, t.end))

RECURSIVE Text(_, _)
Text(t, in) ==
    CASE t.typ \in {"String", "Sequence"} -> SubSeq(in, t.start + 1, t.end)
      [] t.kids # <<>> -> Text(t.kids[1], in)
      [] OTHER -> IF t.typ = "Error" THEN <<"error[", t.name, "]">> ELSE <<>>
Child(t) == t.kids[1]
HasChild(t) == t.typ \in {"Node", "Error"} /\ t.kids # <<>>
IsNode(t, name) == t.typ = "Node" /\ t.name = name
RECURSIVE Visit(_)
Visit(t) == <<t>> \o FlattenSeq([i \in DOMAIN t.kids |-> Visit(t.kids[i])])
FirstIdentifier(t, in) == Text(SelectSeq(Visit(t), LAMBDA n : IsNode(n, "Identifier"))[1], in)[1]

(***************************************************************************)
(* unescape: the characters of a literal, or Broken.                       *)
(***************************************************************************)
Broken == <<"broken">>
Control == [c \in {"-", "[", "]", "\\", "'", "\"", "n"} |-> IF c = "n" THEN "\n" ELSE c]
\* The character with a code: the two the digits can name, and any other.
CharOf(code) == CASE code = 4 -> "EOT" [] code = 65 -> "A" [] OTHER -> "other"
HexDigit(t) == IF t = "4" THEN 4 ELSE 1
CodeOf(digits) == FoldLeft(LAMBDA v, t : 16 * v + HexDigit(t), 0, digits)

RECURSIVE Unescape(_)
Unescape(text) ==
    LET Then(c, n) == LET rest == Unescape(SubSeq(text, n + 1, Len(text)))
                      IN IF rest = Broken THEN Broken ELSE <<c>> \o rest
        close == CHOOSE n \in 4..Len(text) + 1 :
                    /\ \A i \in 4..n - 1 : text[i] \in Digits
                    /\ n = Len(text) + 1 \/ (n <= Len(text) /\ text[n] \notin Digits)
    IN CASE text = <<>> -> <<>>
         [] text # <<>> /\ text[1] # "\\" -> Then(text[1], 1)
         [] Len(text) >= 2 /\ text[1] = "\\" /\ text[2] \in DOMAIN Control ->
                Then(Control[text[2]], 2)
         [] Len(text) >= 3 /\ text[1] = "\\" /\ text[2] = "u" /\ text[3] = "{" ->
                IF close \in 5..9 /\ close <= Len(text) /\ text[close] = "}"
                THEN Then(CharOf(CodeOf(SubSeq(text, 4, close - 1))), close)
                ELSE Broken
         [] Len(text) >= 6 /\ text[1] = "\\" /\ text[2] = "u" /\ text[3] # "{" ->
                IF \A i \in 3..6 : text[i] \in Digits
                THEN Then(CharOf(CodeOf(SubSeq(text, 3, 6))), 6) ELSE Broken
         [] OTHER -> Broken

Valued(k, v, t) == IF v = Broken THEN Error ELSE Ast(k, v, <<>>, t.start, t.end)
FirstChar(v) == IF v = <<>> THEN "NUL" ELSE v[1]
\* What stands between the quotes; of a quote alone, which is what recovery leaves
\* of one at the end of the text, there is no such slice.
ParseLiteral(t, in) ==
    LET text == Text(t, in)
    IN IF Len(text) < 2 THEN Panic
       ELSE Valued("lit", Unescape(SubSeq(text, 2, Len(text) - 1)),
                   [start |-> t.start + 1, end |-> t.end - 1])
Parts(c) == IF c.typ = "Sequence" THEN c.kids ELSE <<c>>
DashForTheEnd(c, texts) ==      \* mutation: the second part of a range, which is the dash
    CASE Broken \in ToSet(texts) -> Error
      [] Broken \notin ToSet(texts) /\ Len(texts) = 3 ->
            Ast("range", <<FirstChar(texts[1]), FirstChar(texts[2])>>, <<>>, c.start, c.end)
      [] OTHER -> Ast("lit", texts[1], <<>>, c.start, c.end)
SpanOf(c, texts) ==
    CASE Broken \in ToSet(texts) -> Error
      [] Broken \notin ToSet(texts) /\ Len(texts) = 3 ->
            Ast("range", <<FirstChar(texts[1]), FirstChar(texts[3])>>, <<>>, c.start, c.end)
      [] OTHER -> Ast("lit", texts[1], <<>>, c.start, c.end)
ParseSpan(t, in) ==
    SpanOf(Child(t), [i \in DOMAIN Parts(Child(t)) |-> Unescape(Text(Parts(Child(t))[i], in))])
ParseClass(t, in) ==
    LET items == Tail(Front(Child(t).kids))
    IN AstAt("class", "", [i \in DOMAIN items |-> ParseSpan(items[i], in)], t)

(***************************************************************************)
(* parseExpression and what it calls, one for each rule of the grammar.    *)
(***************************************************************************)
NumericPrimitives == {"u8"}
SuffixKinds == [s \in {"?", "*", "+"} |->
                CASE s = "?" -> "opt" [] s = "*" -> "star" [] s = "+" -> "plus"]
PrefixKinds == [p \in {"!", "&", "#"} |->
                CASE p = "!" -> "not" [] p = "&" -> "and" [] p = "#" -> "lex"]

RECURSIVE ParseExpression(_, _)
ParsePrimary(t, in) ==
    LET c == Child(t)
    IN CASE c.typ = "Sequence" -> ParseExpression(c.kids[2], in)
         [] IsNode(c, "BytesConsume") ->
                Ast("bytes", FirstIdentifier(c, in), <<>>, c.start, c.end)
         [] IsNode(c, "Identifier") ->
                Ast(IF Text(c, in)[1] \in NumericPrimitives THEN "num" ELSE "id",
                    Text(c, in)[1], <<>>, c.start, c.end)
         [] IsNode(c, "Literal") -> ParseLiteral(c, in)
         [] IsNode(c, "Class") -> ParseClass(c, in)
         [] IsNode(c, "Any") -> Ast("any", "", <<>>, c.start, c.end)
         [] IsNode(c, "List") -> Panic
         [] OTHER -> Error

\* What encloses a part, if there is any: a suffix, a label, a prefix, a name.
IsOperand(c) == c.typ \in {"Node", "Sequence"}
WithSuffix(c, primary, in) ==
    LET suffix == c.kids[2]
        text == Text(suffix, in)[1]
    IN CASE c.typ = "Node" -> primary
         [] c.typ # "Node" /\ IsNode(suffix, "CountedSuffix") ->
                AstAt("count", FirstIdentifier(suffix, in), <<primary>>, c)
         [] c.typ # "Node" /\ text \in DOMAIN SuffixKinds -> AstAt(SuffixKinds[text], "", <<primary>>, c)
         [] OTHER -> AstAt("prec", text, <<primary>>, c)
WithLabel(c, suffixed, in) ==
    IF c.typ = "Node" THEN suffixed ELSE AstAt("lbl", Text(c.kids[3], in)[1], <<suffixed>>, c)
WithPrefix(c, ops, labeled, in) ==
    IF ops = <<>> THEN labeled ELSE AstAt(PrefixKinds[Text(ops[1], in)[1]], "", <<labeled>>, c)
WithBinding(c, bindings, prefixed, in) ==
    IF bindings = <<>> THEN prefixed ELSE AstAt("bind", Text(bindings[1], in)[1], <<prefixed>>, c)

ParseSuffix(t, in) ==
    LET c == Child(t)
    IN IF IsOperand(c) THEN WithSuffix(c, ParsePrimary(Parts(c)[1], in), in) ELSE Error
ParseLabeled(t, in) ==
    LET c == Child(t)
    IN IF IsOperand(c) THEN WithLabel(c, ParseSuffix(Parts(c)[1], in), in) ELSE Error
ParsePrefix(t, in) ==
    LET c == Child(t)
        bindings == SelectSeq(Front(Parts(c)), LAMBDA n : IsNode(n, "Identifier"))
        ops == SelectSeq(Front(Parts(c)),
                         LAMBDA n : n.typ = "String" /\ Text(n, in)[1] \in DOMAIN PrefixKinds)
    IN IF IsOperand(c)
       THEN WithBinding(c, bindings, WithPrefix(c, ops, ParseLabeled(Last(Parts(c)), in), in), in)
       ELSE Error

ParseSequence(t, in) ==
    IF ~HasChild(t) THEN Error
    ELSE LET c == Child(t)
         IN IF c.typ = "String" THEN Error
            ELSE AstAt("seq", "", [i \in DOMAIN Parts(c) |-> ParsePrefix(Parts(c)[i], in)], t)

Alternatives(c, in) ==
    LET items == <<c.kids[1]>> \o SelectSeq(Tail(c.kids), LAMBDA n : Text(n, in) # <<"/">>)
    IN [i \in DOMAIN items |-> ParseSequence(items[i], in)]
ChoiceOf(l, r) == Whole(Ast("choice", "", <<l, r>>, l.s, r.e))
LeftChoice(items) == FoldLeft(ChoiceOf, Head(items), Tail(items))   \* mutation
\* Choices nest to the right; an empty alternative at the end leaves no tree.
RightChoice(items) == FoldRight(ChoiceOf, Front(items), Last(items))
ParseExpression(t, in) ==
    IF ~HasChild(t) THEN Error
    ELSE CASE Child(t).typ = "Sequence" -> RightChoice(Alternatives(Child(t), in))
           [] Child(t).typ = "Node" -> ParseSequence(Child(t), in)
           [] OTHER -> Error

ParseDefinition(t, in) ==
    LET items == Child(t).kids
    IN AstAt("def", Text(items[1], in)[1],
             <<IF Len(items) = 3 THEN ParseExpression(items[3], in)
               ELSE Ast("seq", "", <<>>, t.start, t.end)>>, t)

\* parseImport: the names up to `from`, then the path.  What was recovered can
\* stand where the path is looked for, too short to lose its quotes.
Wide == {"@import", "bytes", "from", "u8", "<-", "//"}     \* tokens of several bytes
IsText(t) == t.typ = "String" \/ (t.typ = "Node" /\ Child(t).typ = "String")
ParseImport(t, in) ==
    LET items == Child(t).kids
        IsFrom(i) == items[i].typ = "String" /\ Text(items[i], in) = <<"from">>
        stops == {i \in 2..Len(items) : IsFrom(i) \/ items[i].typ \notin {"String", "Node"}}
        last == IF stops = {} THEN Len(items) ELSE Min(stops)
        counted == SelectSeq(SubSeq(items, 2, last), IsText)
        names == SelectSeq(counted, LAMBDA n : n.typ = "Node")
        at == Len(counted) + 2
        path == Unescape(Text(items[at], in))
        Name(n) == Ast("lit", Text(n, in), <<>>, n.start, n.end)
    IN IF \/ at > Len(items) \/ Len(items) < 4
          \/ path = Broken \/ path = <<>> \/ (Len(path) = 1 /\ path[1] \notin Wide)
       THEN Panic
       ELSE AstAt("import", "",
                  [i \in DOMAIN names |-> Name(names[i])]
                    \o <<Ast("lit", SubSeq(path, 2, Len(path) - 1), <<>>,
                             items[4].start, items[4].end)>>, t)

(***************************************************************************)
(* Parse: the grammar of a text, with the errors found.  A text that is    *)
(* not a grammar to its end loses all of its tree: the root that is set    *)
(* when a label is thrown is the first node there was.                     *)
(***************************************************************************)
Outcome(kind, imports, defs, errors) ==
    [kind |-> kind, imports |-> imports, defs |-> defs, errors |-> errors]
ParseItem(n, in) ==
    CASE IsNode(n, "Import") -> ParseImport(n, in)
      [] IsNode(n, "Definition") -> ParseDefinition(n, in)
      [] OTHER -> Ast("other", "", <<>>, 0, 0)
GrammarOf(found, recovered) ==
    LET Of(kind) == SelectSeq(found, LAMBDA n : n.k = kind)
    IN Outcome(IF Of("panic") = <<>> THEN "grammar" ELSE "panic",
               Of("import"), Of("def"),
               [i \in DOMAIN recovered |-> recovered[i].name]
                   \o [i \in DOMAIN Of("error") |-> "definition-error"])
Parsed(root, in) ==
    LET items == Parts(Child(root))
    IN GrammarOf([i \in DOMAIN items |-> ParseItem(items[i], in)],
                 SelectSeq(Visit(root) \o items, LAMBDA n : n.typ = "Error"))
TreeParsed(tree, in) ==
    CASE tree.kind = "ok" /\ tree.caps # <<>> -> Parsed(tree.caps[1], in)
      [] tree.kind = "ok" /\ tree.caps = <<>> -> Outcome("none", <<>>, <<>>, <<"no-root">>)
      [] tree.kind = "thrown" -> Outcome("grammar", <<>>, <<>>, <<tree.label>>)
      [] OTHER -> Outcome(tree.kind, <<>>, <<>>, <<>>)
ParseText(in) == TreeParsed(BootstrapParse(in), in)

-----------------------------------------------------------------------------
(***************************************************************************)
(* The other parser (go/grammar_parser.go): recursive descent with the     *)
(* combinators of go/parser.go, for the language without the operators of  *)
(* binary grammars and precedences.  One step of each rule.                *)
(***************************************************************************)
Got(pos, v) == [ok |-> TRUE, pos |-> pos, v |-> v]
No == [ok |-> FALSE, pos |-> 0, v |-> <<>>]
TokenAt(in, i) == IF i < Len(in) THEN in[i + 1] ELSE "eof"
RECURSIVE AfterBlanks(_, _)
AfterBlanks(in, i) == IF TokenAt(in, i) \in {" ", "\n"} THEN AfterBlanks(in, i + 1) ELSE i
\* ParseSpacing: where it ends.
RECURSIVE AfterSpacing(_, _)
AfterSpacing(in, i) ==
    LET eol == {j \in i + 1..Len(in) : in[j] = "\n"}
    IN CASE TokenAt(in, i) \in {" ", "\n"} -> AfterSpacing(in, i + 1)
         [] TokenAt(in, i) = "//" -> AfterSpacing(in, IF eol = {} THEN Len(in) ELSE Min(eol))
         [] OTHER -> i
OnTo(x, Result(_)) == IF x.ok THEN Result(x) ELSE No
FirstOf(xs) == LET oks == SelectSeq(xs, LAMBDA x : x.ok) IN IF oks = <<>> THEN No ELSE oks[1]

RECURSIVE Descend(_, _, _)
RECURSIVE ZeroOrMore(_, _, _)
PutBefore(v, rest) == Got(rest.pos, <<v>> \o rest.v)
MoreAfter(x, rule, in, i) ==
    IF x.ok THEN PutBefore(x.v, ZeroOrMore(rule, in, x.pos)) ELSE Got(i, <<>>)
ZeroOrMore(rule, in, i) == MoreAfter(Descend(rule, in, i), rule, in, i)

PlainAt(in, i) == TokenAt(in, i) \notin {"\\", "eof"}
Enclosed(x, in, close) ==
    IF x.ok /\ TokenAt(in, x.pos) = close THEN Got(x.pos + 1, x.v) ELSE No

\* Characters, and what is made of them.
DescendChar(in, i) ==
    CASE TokenAt(in, i) = "\\" /\ TokenAt(in, i + 1) \in DOMAIN Control ->
            Got(i + 2, Control[TokenAt(in, i + 1)])
      [] PlainAt(in, i) -> Got(i + 1, TokenAt(in, i))
      [] OTHER -> No
DescendRange(in, i) ==
    CASE TokenAt(in, i) = "]" -> No
      [] TokenAt(in, i) # "]" /\ PlainAt(in, i) /\ TokenAt(in, i + 1) = "-" /\ PlainAt(in, i + 2) ->
            Got(i + 3, Ast("range", <<TokenAt(in, i), TokenAt(in, i + 2)>>, <<>>, i, i + 3))
      [] OTHER -> OnTo(DescendChar(in, i), LAMBDA x : Got(x.pos, Ast("lit", <<x.v>>, <<>>, i, x.pos)))
DescendLiteral(in, i) ==
    LET quote == TokenAt(in, i)
    IN IF quote \notin {"'", "\""} THEN No
       ELSE OnTo(Enclosed(ZeroOrMore(quote, in, i + 1), in, quote),
                 LAMBDA x : Got(x.pos, Ast("lit", x.v, <<>>, i, x.pos)))
DescendClass(in, i) ==
    IF TokenAt(in, i) # "[" THEN No
    ELSE OnTo(Enclosed(ZeroOrMore("range", in, i + 1), in, "]"),
              LAMBDA x : Got(x.pos, Ast("class", "", x.v, i, x.pos)))

\* An identifier that no arrow follows.
DescendIdentifier(in, i) ==
    IF TokenAt(in, i) \in IdToks /\ TokenAt(in, AfterSpacing(in, i + 1)) # "<-"
    THEN Got(i + 1, Ast("id", TokenAt(in, i), <<>>, i, i + 1)) ELSE No
DescendDot(in, i) ==
    IF TokenAt(in, i) = "." THEN Got(i + 1, Ast("any", "", <<>>, i, i + 1)) ELSE No
DescendParen(in, i) ==
    LET inner == Descend("expression", in, i + 1)
    IN IF TokenAt(in, i) # "(" THEN No
       ELSE Enclosed([inner EXCEPT !.pos = AfterSpacing(in, @)], in, ")")
DescendPrimary(in, i) ==
    FirstOf(<<DescendIdentifier(in, i), DescendParen(in, i), DescendLiteral(in, i),
              DescendClass(in, i), DescendDot(in, i)>>)

\* Operators.
DescendSuffix(in, i) ==
    OnTo(DescendPrimary(in, i), LAMBDA x :
        LET k == AfterSpacing(in, x.pos)
        IN IF TokenAt(in, k) \in DOMAIN SuffixKinds
           THEN Got(k + 1, Ast(SuffixKinds[TokenAt(in, k)], "", <<x.v>>, i, k + 1))
           ELSE Got(k, x.v))
DescendLabeled(in, i) ==
    OnTo(DescendSuffix(in, i), LAMBDA x :
        IF TokenAt(in, x.pos) = "^" /\ TokenAt(in, x.pos + 1) \in IdToks
        THEN Got(x.pos + 2, Ast("lbl", TokenAt(in, x.pos + 1), <<x.v>>, i, x.pos + 2))
        ELSE x)
DescendPrefix(in, i) ==
    IF TokenAt(in, i) \in DOMAIN PrefixKinds
    THEN OnTo(DescendLabeled(in, AfterSpacing(in, i + 1)), LAMBDA x :
            Got(x.pos, Ast(PrefixKinds[TokenAt(in, i)], "", <<x.v>>, i, x.pos)))
    ELSE DescendLabeled(in, i)
DescendSequence(in, i) ==
    LET x == ZeroOrMore("prefix", in, i) IN Got(x.pos, Ast("seq", "", x.v, i, x.pos))
DescendExpression(in, i) ==
    LET head == DescendSequence(in, i)
        tail == ZeroOrMore("alternative", in, head.pos)
        items == <<head.v>> \o tail.v
    IN Got(tail.pos, FoldRight(LAMBDA l, r : Ast("choice", "", <<l, r>>, l.s, r.e),
                               Front(items), Last(items)))

DescendDefinition(in, i) ==
    LET arrow == AfterSpacing(in, i + 1)
    IN IF TokenAt(in, i) \in IdToks /\ TokenAt(in, arrow) = "<-"
       THEN OnTo(Descend("expression", in, arrow + 1), LAMBDA x :
                Got(x.pos, Ast("def", TokenAt(in, i), <<x.v>>, i, x.pos)))
       ELSE No
DescendName(in, i) ==
    IF TokenAt(in, i) \in IdToks THEN Got(i + 1, Ast("lit", <<TokenAt(in, i)>>, <<>>, i, i + 1)) ELSE No
DescendImport(in, i) ==
    IF TokenAt(in, i) # "@import" THEN No
    ELSE OnTo(Descend("name", in, i + 1), LAMBDA head :
         LET names == ZeroOrMore("nextName", in, head.pos)
             from == AfterSpacing(in, names.pos)
         IN IF TokenAt(in, from) # "from" THEN No
            ELSE OnTo(Descend("literal", in, from + 1), LAMBDA path :
                 Got(path.pos, Ast("import", "", <<head.v>> \o names.v \o <<path.v>>, i, path.pos))))

\* A rule where spaces may be first, or, inside a literal or class, may not.
Descend(rule, in, i) ==
    LET j == AfterSpacing(in, i)
        tok == TokenAt(in, j)
    IN CASE rule \in {"'", "\""} -> IF TokenAt(in, i) = rule THEN No ELSE DescendChar(in, i)
         [] rule = "range" -> DescendRange(in, i)
         [] rule = "literal" -> DescendLiteral(in, j)
         [] rule = "prefix" -> DescendPrefix(in, j)
         [] rule = "alternative" -> IF tok = "/" THEN DescendSequence(in, AfterSpacing(in, j + 1)) ELSE No
         [] rule = "expression" -> DescendExpression(in, j)
         [] rule = "definition" -> DescendDefinition(in, j)
         [] rule = "name" -> DescendName(in, j)
         [] rule = "nextName" -> IF tok = "," THEN DescendName(in, AfterSpacing(in, j + 1)) ELSE No
         [] rule = "import" -> DescendImport(in, j)

\* ParseGrammar: at least one definition, and what follows the last is left.
DescendedTo(imports, defs, in) ==
    IF defs.v = <<>> \/ TokenAt(in, AfterSpacing(in, defs.pos)) = "."
    THEN Outcome("none", <<>>, <<>>, <<"error">>)
    ELSE Outcome("grammar", imports.v, defs.v, <<>>)
DescendDefs(imports, in) == DescendedTo(imports, ZeroOrMore("definition", in, imports.pos), in)
DescendText(in) == DescendDefs(ZeroOrMore("import", in, AfterSpacing(in, 0)), in)
=============================================================================
