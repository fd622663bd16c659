--------------------------- MODULE GrammarLayout ---------------------------
(***************************************************************************)
(* What the parsers of grammars (module GrammarText) promise: the text an  *)
(* AST is written as, in any layout, is parsed back to it.                 *)
(***************************************************************************)
EXTENDS GrammarText

\* An AST that has not been laid out.
N(k, v, kids) == Ast(k, v, kids, 0, 0)
RECURSIVE Bare(_)
Bare(n) == N(n.k, n.v, [i \in DOMAIN n.kids |-> Bare(n.kids[i])])
RECURSIVE AllNodes(_)
AllNodes(n) == {n} \cup UNION {AllNodes(n.kids[i]) : i \in DOMAIN n.kids}

(***************************************************************************)
(* The words of an AST: pieces of text that no space may split.            *)
(***************************************************************************)
Escaped(c) == IF c \in {"'", "\\", "]", "-"} THEN <<"\\", c>>
              ELSE IF c = "A" THEN <<"\\", "u", "{", "4", "1", "}">>
              ELSE IF c = "\n" THEN <<"\\", "n">> ELSE <<c>>
EscapedAll(v) == FlattenSeq([i \in DOMAIN v |-> Escaped(v[i])])
ClassItem(n) ==
    IF n.k = "range" THEN Escaped(n.v[1]) \o <<"-">> \o Escaped(n.v[2]) ELSE EscapedAll(n.v)

RECURSIVE Words(_)
Grouped(n) == IF n.k \in {"seq", "choice"} THEN <<<<"(">>>> \o Words(n) \o <<<<")">>>> ELSE Words(n)
Words(n) ==
    LET of == Grouped(n.kids[1])
    IN CASE n.k \in {"id", "num"} -> <<<<n.v>>>>
         [] n.k = "any" -> <<<<".">>>>
         [] n.k = "lit" -> <<<<"'">> \o EscapedAll(n.v) \o <<"'">>>>
         [] n.k = "class" ->
                <<<<"[">> \o FlattenSeq([i \in DOMAIN n.kids |-> ClassItem(n.kids[i])]) \o <<"]">>>>
         [] n.k = "bytes" -> <<<<"bytes">>, <<"(">>, <<n.v>>, <<")">>>>
         [] n.k = "seq" -> FlattenSeq([i \in DOMAIN n.kids |-> Grouped(n.kids[i])])
         [] n.k = "choice" -> Words(n.kids[1]) \o <<<<"/">>>> \o Words(n.kids[2])
         [] n.k \in {"opt", "star", "plus"} ->
                Append(of, <<CHOOSE s \in DOMAIN SuffixKinds : SuffixKinds[s] = n.k>>)
         [] n.k = "prec" -> Append(of, <<n.v>>)
         [] n.k = "count" -> of \o <<<<"{">>, <<n.v>>, <<"}">>>>
         [] n.k = "lbl" -> Append(Front(of), Last(of) \o <<"^", n.v>>)
         [] n.k \in {"not", "and", "lex"} ->
                <<<<CHOOSE p \in DOMAIN PrefixKinds : PrefixKinds[p] = n.k>>>> \o of
         [] n.k = "bind" -> <<<<n.v>>, <<":">>>> \o of
         [] n.k = "def" -> <<<<n.v>>, <<"<-">>>> \o Words(n.kids[1])
         [] n.k = "import" ->
                LET names == Front(n.kids)
                IN <<<<"@import">>>>
                   \o FlattenSeq([i \in DOMAIN names |->
                        IF i = 1 THEN <<names[i].v>> ELSE <<<<",">>, names[i].v>>])
                   \o <<<<"from">>>> \o Words(Last(n.kids))

(***************************************************************************)
(* Layouts: as close as identifiers allow, spaces everywhere, or comments. *)
(***************************************************************************)
Layouts == {"close", "spaced", "commented"}
Gap(layout, left, right) ==
    CASE layout = "spaced" -> <<" ">>
      [] layout = "commented" -> <<"//", "a", "<-", "'", "\n">>
      [] OTHER -> IF Last(left) \in IdToks /\ right[1] \in IdToks THEN <<" ">> ELSE <<>>
LaidOut(words, layout) ==
    FoldLeft(LAMBDA text, i :
                text \o (IF i = 1 THEN <<>> ELSE Gap(layout, words[i - 1], words[i])) \o words[i],
             <<>>, [i \in DOMAIN words |-> i])
\* The tokens of a piece of text that are not layout.
RECURSIVE Solid(_)
Solid(text) ==
    LET eol == {i \in DOMAIN text : text[i] = "\n"}
    IN CASE text = <<>> -> <<>>
         [] text # <<>> /\ text[1] \in {" ", "\n"} -> Solid(Tail(text))
         [] text # <<>> /\ text[1] = "//" ->
                Solid(SubSeq(text, (IF eol = {} THEN Len(text) ELSE Min(eol)) + 1, Len(text)))
         [] OTHER -> <<text[1]>> \o Solid(Tail(text))

\* What a node's span holds: its words, but for a literal without the quotes.
SpanText(n) == IF n.k = "lit" THEN EscapedAll(n.v) ELSE FlattenSeq(Words(n))
PathOf(n) == {Last(m.kids) : m \in {x \in AllNodes(n) : x.k = "import" /\ Len(x.kids) > 2}}
Placed(n, in) ==
    LET piece == SubSeq(in, n.s + 1, n.e)
    IN CASE n.k = "range" -> piece = ClassItem(n)
         [] n.k = "seq" /\ n.kids = <<>> -> TRUE
         [] n.k = "lit" -> piece \in {SpanText(n), <<"'">> \o SpanText(n) \o <<"'">>}
         [] n.k \in {"not", "and", "lex"} ->
                \/ Solid(piece) = Solid(SpanText(n))
                \/ Solid(piece)[2] = ":" /\ Tail(Tail(Solid(piece))) = Solid(SpanText(n))
         [] OTHER -> Solid(piece) = Solid(SpanText(n))

(***************************************************************************)
(* A grammar, as imports and definitions, comes back from its text without *)
(* errors, whatever the layout; and every node's span holds the text of    *)
(* the node, on which go to definition, hover and diagnostics rely.  (The  *)
(* path of an import of several names has the span of another part, since  *)
(* grammar_parser_v2.go takes the fourth item for it; an empty body has    *)
(* the span of its definition, and an operator that of the name bound to   *)
(* it.)                                                                    *)
(***************************************************************************)
Bares(ns) == [i \in DOMAIN ns |-> Bare(ns[i])]
Gives(g, imports, defs) ==
    g.kind = "grammar" /\ g.errors = <<>> /\ Bares(g.imports) = imports /\ Bares(g.defs) = defs
SpansHold(g, in) ==
    \A n \in UNION {AllNodes(d) : d \in ToSet(g.imports \o g.defs)} :
        Placed(n, in) \/ \E i \in DOMAIN g.imports : n \in PathOf(g.imports[i])
RoundTripOf(g, in, imports, defs) == Gives(g, imports, defs) /\ SpansHold(g, in)
WordsOf(nodes) == FlattenSeq([i \in DOMAIN nodes |-> Words(nodes[i])])
RoundTrips(imports, defs, layout) ==
    LET in == LaidOut(WordsOf(imports \o defs), layout)
    IN RoundTripOf(ParseText(in), in, imports, defs)

\* The two parsers give the same grammar, in the language both know.
Common(n) ==
    \A m \in AllNodes(n) :
        /\ m.k \notin {"num", "bind", "count", "prec", "bytes"}
        /\ m.k = "range" => \A i \in 1..2 : Escaped(m.v[i]) = <<m.v[i]>>
        /\ m.k \in {"lit", "class"} => \A i \in DOMAIN m.v : m.v[i] # "A"
ParsersAgree(imports, defs, layout) ==
    (\A n \in ToSet(imports \o defs) : Common(n))
    => Gives(DescendText(LaidOut(WordsOf(imports \o defs), layout)), imports, defs)
=============================================================================
