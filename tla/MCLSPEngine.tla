---------------------------- MODULE MCLSPEngine ----------------------------
(***************************************************************************)
(* Three files that import from each other, app from main and both from    *)
(* lib, with the contents a user goes through while editing them.          *)
(***************************************************************************)
EXTENDS LSPEngine
CONSTANTS Char, Names, NoName, NameOrder, Builtins, BadPath, NoFile
INSTANCE Imports

Alphabetical == <<"A", "B", "EOF", "L", "P", "S">>
a == Lit(<<"a">>)
A(e) == Def("A", e)
B(e) == Def("B", e)
S(e) == Def("S", e)

\* The texts, by the names the states hold them under.
Text == [
    \* lib: complete, with a rule missing, without the rule imported, broken
    lib_full |-> File(<<>>, <<A(Id("B")), B(Star(Opt(a)))>>, {}),
    lib_undefined |-> File(<<>>, <<A(Id("B"))>>, {"recovered"}),
    lib_other |-> File(<<>>, <<B(a)>>, {}),
    \* lib: a rule called with a precedence, and one that recovers
    lib_prec |-> File(<<>>, <<A(Cat(<<Prec(Id("B"), 1), Lbl(a, "L")>>)), B(a),
                              Def("L", Star(Dot))>>, {}),
    lib_broken |-> File(<<>>, <<>>, {"syntax-error"}),
    \* main: importing from lib, doing without it, asking for what is not there
    main_disk |-> File(<<Import("lib", <<"A">>)>>, <<S(Id("A"))>>, {}),
    main_imports |-> File(<<Import("lib", <<"A">>)>>,
                          <<S(Cat(<<Id("A"), Id("EOF")>>)), B(Lbl(a, "L"))>>, {}),
    main_alone |-> File(<<>>, <<S(Id("A"))>>, {}),
    main_bad |-> File(<<Import(BadPath, <<"A">>), Import("lib", <<"B">>)>>,
                      <<S(Lbl(Id("B"), "A"))>>, {}),
    \* app: importing a rule that main has, and one that main imports itself
    app_both |-> File(<<Import("main", <<"S">>), Import("lib", <<"B">>)>>,
                      <<Def("P", Cat(<<Id("S"), Id("B")>>))>>, {}),
    app_reexport |-> File(<<Import("main", <<"A">>)>>, <<Def("P", Id("A"))>>, {}),
    missing |-> NoFile]

FileTexts == [app |-> {"app_both", "app_reexport"},
              main |-> {"main_imports", "main_alone", "main_bad"},
              lib |-> {"lib_full", "lib_undefined", "lib_other", "lib_prec", "lib_broken"}]
OnDisk == [app |-> "missing", main |-> "main_disk", lib |-> "missing"]

MayHold(p) == FileTexts[p] \cup {OnDisk[p]}

\* The queries, computed once for each text of all the files.
Answers == [x \in MayHold("app") |-> [y \in MayHold("main") |-> [z \in MayHold("lib") |->
    LET files == [app |-> Text[x], main |-> Text[y], lib |-> Text[z]]
    IN [r \in Paths |-> [says |-> GrammarDiagnostics(files, r),
                         reads |-> UserFilesRead(files, r),
                         closed |-> CallsResolved(files, r)]]]]]
AnswersIn(files) == Answers[files["app"]][files["main"]][files["lib"]]
DiagnosticsOf(files, root) == AnswersIn(files)[root].says
ReadBy(files, root) == AnswersIn(files)[root].reads

\* Resolving the imports of a file, whatever has been typed into the others,
\* leaves no rule without the rules it needs (query_grammar.go:123).
ImportsAreClosed == \A r \in Paths : AnswersIn(Loaded(overlay))[r].closed
AllContents == DOMAIN Text

\* What ImportsAreClosed leaves out: A comes without B, which it calls as B^1, and
\* an error is shown in a file that has none.
ASSUME PrecedencesAreNotFollowed ==
    LET files == [app |-> NoFile, main |-> Text["main_disk"], lib |-> Text["lib_prec"]]
        imported == ResolvedImports(files, "main").defs
    IN /\ "B" \in Identifiers(DefExpr(imported, "A")) \ DefNames(imported)
       /\ Diagnostic("lib", "undefined-rule", "B") \in GrammarDiagnostics(files, "main")
       /\ GrammarDiagnostics(files, "lib") = {}
=============================================================================
