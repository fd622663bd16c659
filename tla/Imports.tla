------------------------------ MODULE Imports ------------------------------
(***************************************************************************)
(* Import resolution and the diagnostics of a grammar with imports         *)
(* (go/query_grammar.go, go/grammar_import.go, go/query_errors.go,         *)
(* go/query_analysis.go): what the queries return when nothing is cached,  *)
(* given the contents of all files.  A file has definitions, imports and   *)
(* the codes of its parse errors; an import names its file by the resolved *)
(* path, or by BadPath when GetPath refuses it.                            *)
(***************************************************************************)
EXTENDS GrammarAnalysis

CONSTANTS
    Paths,      \* the user's files
    Builtins,   \* BuiltinsPath
    BadPath,    \* an import path that is not relative to the importing file
    NoFile      \* the content of a file that cannot be loaded

File(imports, defs, errors) == [imports |-> imports, defs |-> defs, errors |-> errors]
Import(path, names) == [path |-> path, names |-> names]

\* The embedded file of the builtins.
BuiltinNames == {"EOF"}
BuiltinFile == File(<<>>, <<Def("EOF", Not(Dot))>>, {})
IsBuiltin(d) == d.file = Builtins

Content(files, path) == IF path = Builtins THEN BuiltinFile ELSE files[path]
Loads(files, path) == path # BadPath /\ Content(files, path) # NoFile
ImportsOf(files, path) == IF Loads(files, path) THEN ToSet(Content(files, path).imports) ELSE {}

-----------------------------------------------------------------------------
(***************************************************************************)
(* findDefinitionDeps: the rules an expression needs, in the order they    *)
(* are met.  A rule that was met is not entered again, the recovery rule   *)
(* of a label always is, and an expression with a precedence is not looked *)
(* into.  `entered` holds the recovery rules being followed, with what had *)
(* been met when each was entered: one entered twice alike is entered for  *)
(* ever.                                                                   *)
(***************************************************************************)
NoDeps == [names |-> <<>>, loops |-> FALSE]
Met(acc) == ToSet(acc.names)
WithDep(acc, name) == [acc EXCEPT !.names = Append(@, name)]
Descends == {"opt", "star", "plus", "and", "not", "lex"}

RECURSIVE Deps(_, _, _, _)
Deps(g, e, entered, acc) ==
    CASE acc.loops -> acc
      [] e.k = "id" /\ ~acc.loops ->
            IF e.name \in Met(acc) \/ e.name \notin DefNames(g) THEN acc
            ELSE Deps(g, DefExpr(g, e.name), entered, WithDep(acc, e.name))
      [] e.k = "lbl" /\ ~acc.loops ->
            LET entry == <<e.label, Met(acc)>>
                recovery ==
                    CASE e.label \notin DefNames(g) -> acc
                      [] entry \in entered -> [acc EXCEPT !.loops = TRUE]
                      [] OTHER -> Deps(g, DefExpr(g, e.label), entered \cup {entry},
                                       WithDep(acc, e.label))
            IN Deps(g, e.e, entered, recovery)
      [] e.k = "cat" /\ ~acc.loops -> FoldLeft(LAMBDA a, x : Deps(g, x, entered, a), acc, e.items)
      [] e.k = "alt" /\ ~acc.loops -> Deps(g, e.r, entered, Deps(g, e.l, entered, acc))
      [] e.k \in Descends /\ ~acc.loops -> Deps(g, e.e, entered, acc)
      [] OTHER -> acc

DefinitionDeps(g, name) == Deps(g, DefExpr(g, name), {}, NoDeps)

-----------------------------------------------------------------------------
(***************************************************************************)
(* resolveImportsRecursive.  The first definition of a name wins, wherever *)
(* it comes from; an import that cannot be resolved and a name the file    *)
(* does not have are passed over.  Files that import each other are        *)
(* entered for ever: `trail` holds those being resolved.                   *)
(***************************************************************************)
Resolved(ok, loops, defs) == [ok |-> ok, loops |-> loops, defs |-> defs]
AddDefinition(defs, d) == IF d.name \in DefNames(defs) THEN defs ELSE Append(defs, d)
DefinitionOf(defs, name) == CHOOSE d \in ToSet(defs) : d.name = name
Tagged(defs, path) ==
    [i \in DOMAIN defs |-> [name |-> defs[i].name, expr |-> defs[i].expr, file |-> path]]

\* What importing `name` from a resolved grammar adds to another.
NameAlone(child, name) == [names |-> <<name>>, loops |-> FALSE]     \* mutation
NameWithDeps(child, name) ==
    LET deps == DefinitionDeps(child, name)
    IN [deps EXCEPT !.names = <<name>> \o @]
ImportName(r, child, name) ==
    IF r.loops \/ name \notin DefNames(child) THEN r
    ELSE LET added == NameWithDeps(child, name)
         IN [r EXCEPT !.loops = added.loops,
                      !.defs = FoldLeft(LAMBDA defs, n : AddDefinition(defs, DefinitionOf(child, n)),
                                        @, added.names)]

RECURSIVE Resolve(_, _, _)
Resolve(files, path, trail) ==
    CASE ~Loads(files, path) -> Resolved(FALSE, FALSE, <<>>)
      [] Loads(files, path) /\ path \in trail -> Resolved(TRUE, TRUE, <<>>)
      [] OTHER ->
            FoldLeft(
                LAMBDA r, imp :
                    LET child == Resolve(files, imp.path, trail \cup {path})
                    IN CASE r.loops \/ ~child.ok -> r
                         [] child.loops /\ ~r.loops -> child
                         [] OTHER -> FoldLeft(LAMBDA q, n : ImportName(q, child.defs, n),
                                              r, imp.names),
                Resolved(TRUE, FALSE, Tagged(Content(files, path).defs, path)),
                Content(files, path).imports)

\* ResolvedImports, with the builtins that the grammar does not define itself.
ResolvedImports(files, path) ==
    LET r == Resolve(files, path, {})
    IN IF ~r.ok \/ r.loops THEN r
       ELSE [r EXCEPT !.defs = FoldLeft(AddDefinition, @, Tagged(BuiltinFile.defs, Builtins))]

(***************************************************************************)
(* An imported rule comes with every rule it calls, and every recovery     *)
(* rule of its labels, that its own file could use, except for what it     *)
(* calls with a precedence only: findDefinitionDeps "finds all identifiers *)
(* within" a rule, but has no case for a PrecedenceNode.                   *)
(***************************************************************************)
RECURSIVE Followed(_)
Followed(e) ==
    CASE e.k = "id" -> {e.name}
      [] e.k = "lbl" -> {e.label} \cup Followed(e.e)
      [] e.k = "prec" -> {}
      [] OTHER -> UNION {Followed(c) : c \in Children(e)}
CallsResolved(files, path) ==
    LET defs == ResolvedImports(files, path).defs
    IN \A d \in ToSet(defs) : d.file \in Paths =>
          Followed(d.expr) \cap DefNames(ResolvedImports(files, d.file).defs)
              \subseteq DefNames(defs)

-----------------------------------------------------------------------------
\* The files that imports lead to from a file, itself included, whether they
\* can be loaded or not.
Reachable(files, path) ==
    LET R[n \in Nat] ==
            IF n = 0 THEN {path}
            ELSE LET r == R[n - 1]
                 IN r \cup {imp.path : imp \in UNION {ImportsOf(files, p) : p \in r}}
    IN R[Cardinality(Paths) + 1]
Parsed(files, path) == {p \in Reachable(files, path) : Loads(files, p)}

Diagnostic(file, code, about) == [file |-> file, code |-> code, about |-> about]
Fatal == {"syntax-error", "parse-error"}

ParseErrors(files, path) ==
    {Diagnostic(path, code, NoName) : code \in Content(files, path).errors}
\* AllParseErrors: of the file alone when its errors are fatal or when some
\* import, at any depth, cannot be loaded.
AllParseErrors(files, path) ==
    IF Content(files, path).errors \cap Fatal # {} \/ Parsed(files, path) # Reachable(files, path)
    THEN ParseErrors(files, path)
    ELSE UNION {ParseErrors(files, p) : p \in Parsed(files, path)}

\* A name counts as declared when the imported file itself defines it.
ImportErrors(files, path) ==
    UNION {UNION {
        IF ~Loads(files, imp.path) THEN {Diagnostic(p, "import-not-found", imp.path)}
        ELSE {Diagnostic(p, "missing-import", n) :
                 n \in ToSet(imp.names) \ DefNames(Content(files, imp.path).defs)} :
        imp \in ImportsOf(files, p)} : p \in Parsed(files, path)}

\* RecoveryRules, and the callers of CallGraphData, of a resolved grammar.
LabelsOf(d) == {e.label : e \in {x \in SubExprs(d.expr) : x.k = "lbl"}}
Called(g) == UNION {Identifiers(g[i].expr) : i \in DOMAIN g}

UndefinedReferences(g) ==
    UNION {{Diagnostic(d.file, "undefined-rule", n) : n \in Identifiers(d.expr) \ DefNames(g)} :
           d \in ToSet(g)}
\* The first definition is where a match starts.
Entry(g) == IF g = <<>> THEN {} ELSE {g[1]}
UnusedRules(g) ==
    {Diagnostic(d.file, "unused-rule", d.name) :
        d \in {x \in ToSet(g) \ Entry(g) :
                 x.name \notin BuiltinNames \cup Called(g) \cup ErrorLabels(g)}}
MissingRecoveryRules(g) ==
    UNION {{Diagnostic(d.file, "missing-recovery-rule", l) : l \in LabelsOf(d) \ DefNames(g)} :
           d \in ToSet(g)}
LoopRisks(g) ==
    {Diagnostic(DefinitionOf(g, r.def).file, "infinite-loop", r.def) : r \in InfiniteLoopRisks(g)}

\* The files a root's diagnostics are computed from.
UserFilesRead(files, path) == Reachable(files, path) \cap Paths

Refused(path) == {Diagnostic(path, "check_failed", NoName)}     \* the query fails
(***************************************************************************)
(* DiagnosticsQuery.  The file a location belongs to is found by its       *)
(* FileID, which never changes once it is given out.                       *)
(***************************************************************************)
GrammarDiagnostics(files, path) ==
    IF ~Loads(files, path) THEN Refused(path)
    ELSE LET g == ResolvedImports(files, path).defs
         IN AllParseErrors(files, path) \cup ImportErrors(files, path)
            \cup UndefinedReferences(g) \cup UnusedRules(g)
            \cup MissingRecoveryRules(g) \cup LoopRisks(g)
=============================================================================
