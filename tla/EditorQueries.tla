--------------------------- MODULE EditorQueries ---------------------------
(***************************************************************************)
(* The queries an editor asks about one place of a grammar (go/query_lsp.go*)
(* and go/lsp/engine.go): what is under the cursor, where it is defined,   *)
(* where it is used, what to show, complete and highlight.  They work on   *)
(* the resolved grammar, a sequence of definitions each with the file it   *)
(* is from; a cursor or a span means nothing outside its file.             *)
(***************************************************************************)
EXTENDS GrammarText

Located(file, n) == [file |-> file, s |-> n.s, e |-> n.e]
Nowhere == [file |-> "", s |-> 0, e |-> 0]
NameLength(name) == 1                  \* names are one token long
ContainsCursor(span, cursor) == span.s <= cursor /\ cursor < span.e

\* Inspect: a node and what is below it, in the order of the text.
RECURSIVE Inspect(_)
Inspect(n) == <<n>> \o FlattenSeq([i \in DOMAIN n.kids |-> Inspect(n.kids[i])])
BodyOf(d) == Inspect(d.def.kids[1])

\* DefinitionLocations: a map, in which a later definition replaces a former.
DefinitionOf(r, name) ==
    LET same == {i \in DOMAIN r : r[i].def.v = name}
    IN IF same = {} THEN Nowhere ELSE Located(r[Max(same)].file, r[Max(same)].def)

\* IdentifierLocations and LabelLocations.
LocationsOf(r, kind) ==
    FlattenSeq([i \in DOMAIN r |->
        LET found == SelectSeq(BodyOf(r[i]), LAMBDA n : n.k = kind)
        IN [j \in DOMAIN found |-> [name |-> found[j].v, loc |-> Located(r[i].file, found[j])]]])
LocationsNamed(r, kind, name) ==
    LET found == SelectSeq(LocationsOf(r, kind), LAMBDA l : l.name = name)
    IN [i \in DOMAIN found |-> found[i].loc]

\* RecoveryRules: where a label is thrown; DefinitionOf is what recovers.
UsageLocs(r, label) == LocationsNamed(r, "lbl", label)
HasRecovery(r, label) == DefinitionOf(r, label) # Nowhere

(***************************************************************************)
(* SymbolAtCursor: of what contains the cursor the smallest, and of those  *)
(* the first.  A definition counts up to the end of its name and a label   *)
(* after the end of the expression it labels.                              *)
(***************************************************************************)
Symbol(name, kind, loc, size, def) ==
    [name |-> name, kind |-> kind, loc |-> loc, size |-> size, def |-> def]
NoSymbol == Symbol("", "None", Nowhere, 0, Nowhere)

SymbolOf(r, file, n) ==
    LET Sym(kind, def) == Symbol(n.v, kind, Located(file, n), n.e - n.s, def)
    IN CASE n.k = "id" -> Sym("Identifier", DefinitionOf(r, n.v))
         [] n.k = "lbl" -> Sym("Label", DefinitionOf(r, n.v))
         [] n.k = "lit" -> Sym("Literal", Nowhere)
         [] OTHER -> Sym("Class", Nowhere)
IsSymbolAt(n, cursor) ==
    /\ ContainsCursor(n, cursor)
    /\ n.k \in {"id", "lit", "class", "range"} \/ (n.k = "lbl" /\ cursor > n.kids[1].e)

SymbolsOf(r, d, cursor) ==
    LET body == SelectSeq(BodyOf(d), LAMBDA n : IsSymbolAt(n, cursor))
        here == Located(d.file, d.def)
    IN (IF ContainsCursor(d.def, cursor) /\ cursor <= d.def.s + NameLength(d.def.v)
        THEN <<Symbol(d.def.v, "Definition", here, NameLength(d.def.v), here)>> ELSE <<>>)
       \o [i \in DOMAIN body |-> SymbolOf(r, d.file, body[i])]
InAnyFile(r, file) == r         \* mutation: the cursor is looked for in every file
InFile(r, file) == SelectSeq(r, LAMBDA d : d.file = file)
FirstSmallest(found) ==
    LET smallest == {i \in DOMAIN found : \A j \in DOMAIN found : found[i].size <= found[j].size}
    IN IF found = <<>> THEN NoSymbol ELSE found[Min(smallest)]
SymbolAtCursor(r, file, cursor) ==
    LET own == InFile(r, file)
    IN FirstSmallest(FlattenSeq([i \in DOMAIN own |-> SymbolsOf(r, own[i], cursor)]))

\* HoverInfo: what is said of a symbol, and of which piece of the text.
HoverOf(r, s) ==
    [kind |-> s.kind, name |-> s.name, range |-> s.loc, defined |-> s.def # Nowhere,
     recovers |-> IF s.kind = "Definition" THEN Len(UsageLocs(r, s.name)) ELSE 0]
HoverInfo(r, file, cursor) == HoverOf(r, SymbolAtCursor(r, file, cursor))

\* CompletionItems, which are sorted: the same wherever the cursor is.
Item(label, kind, recovery) == [label |-> label, kind |-> kind, recovery |-> recovery]
CompletionItems(r) ==
    {Item(r[i].def.v, "Rule", UsageLocs(r, r[i].def.v) # <<>>) : i \in DOMAIN r}
        \cup {Item(l.name, "Label", HasRecovery(r, l.name)) : l \in ToSet(LocationsOf(r, "lbl"))}
        \cup {Item(w, "Keyword", FALSE) : w \in {"@import", "from"}}
        \cup {Item(w, "Snippet", FALSE) : w \in {"rule", "import", "choice", "labeled"}}

References(r, name) ==
    (IF DefinitionOf(r, name) = Nowhere THEN <<>> ELSE <<DefinitionOf(r, name)>>)
        \o LocationsNamed(r, "id", name) \o UsageLocs(r, name)

\* DocumentSymbols: the definitions, and each label once.
DocumentSymbols(r) ==
    LET labels == LocationsOf(r, "lbl")
        firsts == SelectSeq([i \in DOMAIN labels |-> i],
                            LAMBDA i : \A j \in 1..i - 1 : labels[j].name # labels[i].name)
    IN [i \in DOMAIN r |-> [name |-> r[i].def.v, kind |-> "Definition", loc |-> Located(r[i].file, r[i].def)]]
       \o [i \in DOMAIN firsts |-> [name |-> labels[firsts[i]].name, kind |-> "Label",
                                    loc |-> labels[firsts[i]].loc]]
\* DocumentSymbol of the engine: those of the parsed file alone.
OutlineOf(g) == [i \in DOMAIN g.defs |-> [name |-> g.defs[i].v, s |-> g.defs[i].s, e |-> g.defs[i].e]]

-----------------------------------------------------------------------------
(***************************************************************************)
(* SemanticTokens: pieces of text with a type, sorted by where they start. *)
(* The token of a label is looked for one after the end of the expression  *)
(* it labels, where the ^ is when nothing encloses that expression.        *)
(***************************************************************************)
Token(file, from, to, type, name, modifiers) ==
    [file |-> file, s |-> from, e |-> to, type |-> type, name |-> name, modifiers |-> modifiers]
Marked(mark, holds) == IF holds THEN {mark} ELSE {}
RecoveryMark(r, name) == Marked("recovery", UsageLocs(r, name) # <<>>)

TokenOf(r, file, n) ==
    LET unresolved == Marked("unresolved", DefinitionOf(r, n.v) = Nowhere)
        at == n.kids[1].e + 1
    IN CASE n.k = "id" ->
                Token(file, n.s, n.e, "identifier", n.v,
                      IF unresolved # {} THEN unresolved ELSE RecoveryMark(r, n.v))
         [] n.k = "lbl" ->
                Token(file, at, at + NameLength(n.v), "label", n.v, unresolved)
         [] OTHER -> Token(file, n.s, n.e, IF n.k = "lit" THEN "string" ELSE "class", n.v, {})
RECURSIVE Highlighted(_)
Highlighted(n) ==
    CASE n.k \in {"id", "lit", "class", "range"} -> <<n>>
      [] OTHER -> (IF n.k = "lbl" THEN <<n>> ELSE <<>>)
                    \o FlattenSeq([i \in DOMAIN n.kids |-> Highlighted(n.kids[i])])
SemanticTokens(r) ==
    LET Body(d) == Highlighted(d.def.kids[1])
        Of(d) == <<Token(d.file, d.def.s, d.def.s + NameLength(d.def.v), "definition", d.def.v,
                         {"definition"} \cup RecoveryMark(r, d.def.v))>>
                 \o [i \in DOMAIN Body(d) |-> TokenOf(r, d.file, Body(d)[i])]
    IN SortSeq(FlattenSeq([i \in DOMAIN r |-> Of(r[i])]), LAMBDA t, u : t.s < u.s)

-----------------------------------------------------------------------------
(***************************************************************************)
(* The engine: all of an import statement, and the place after it, is the  *)
(* imported file; anything else is a symbol.                               *)
(***************************************************************************)
ImportAt(imports, cursor) ==
    LET at == {i \in DOMAIN imports : imports[i].s <= cursor /\ cursor <= imports[i].e}
    IN IF at = {} THEN Nowhere
       ELSE Located(Last(imports[Min(at)].kids).v[1], imports[Min(at)])
GoToDefinition(imports, r, file, cursor) ==
    LET import == ImportAt(imports, cursor)
    IN IF import # Nowhere THEN [file |-> import.file, s |-> 0, e |-> 0]
       ELSE SymbolAtCursor(r, file, cursor).def
HoverAt(imports, r, file, cursor) ==
    LET import == ImportAt(imports, cursor)
    IN IF import # Nowhere
       THEN [kind |-> "Import", name |-> import.file, range |-> [import EXCEPT !.file = file],
             defined |-> TRUE, recovers |-> 0]
       ELSE HoverInfo(r, file, cursor)

-----------------------------------------------------------------------------
\* The names written in a definition, and where.
Written(d) ==
    {[name |-> d.def.v, at |-> d.def.s]}
        \cup {[name |-> n.v, at |-> n.s] : n \in {m \in ToSet(BodyOf(d)) : m.k = "id"}}
        \cup {[name |-> n.v, at |-> n.e - 1] : n \in {m \in ToSet(BodyOf(d)) : m.k = "lbl"}}

(***************************************************************************)
(* On every name of a file the editor finds that name, goes to its         *)
(* definition wherever that is, and lists the place among the references;  *)
(* and every reference it lists in the file has the name.  (A name that    *)
(* touches the import before it is taken for the import.)                  *)
(***************************************************************************)
NamesAreFound(in, imports, r, file) ==
    \A d \in ToSet(InFile(r, file)) : \A w \in Written(d) :
        /\ in[w.at + 1] = w.name
        /\ SymbolAtCursor(r, file, w.at).name = w.name
        /\ \/ GoToDefinition(imports, r, file, w.at) = DefinitionOf(r, w.name)
           \/ \E i \in DOMAIN imports : imports[i].e = w.at
        /\ HoverAt(imports, r, file, w.at).defined <=> DefinitionOf(r, w.name) # Nowhere
        /\ \E loc \in ToSet(References(r, w.name)) : loc.file = file /\ ContainsCursor(loc, w.at)
        /\ \A loc \in ToSet(References(r, w.name)) :
              loc.file = file => \E v \in UNION {Written(x) : x \in ToSet(InFile(r, file))} :
                                    v.name = w.name /\ ContainsCursor(loc, v.at)

\* The tokens of a file do not overlap, and each is where its name is, but for
\* labels of what is quoted or in parentheses.
TokensAreNames(in, r, file) ==
    LET tokens == SelectSeq(SemanticTokens(r), LAMBDA t : t.file = file)
        Misses(t) == t.type = "label" /\ in[t.s + 1] = "^"
    IN \A i \in DOMAIN tokens :
          /\ i < Len(tokens) => tokens[i].e <= tokens[i + 1].s
          /\ tokens[i].type \in {"definition", "identifier", "label"} =>
                in[tokens[i].s + 1] = tokens[i].name \/ Misses(tokens[i])
=============================================================================
