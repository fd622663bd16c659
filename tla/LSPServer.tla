----------------------------- MODULE LSPServer -----------------------------
(***************************************************************************)
(* What the language server (go/lsp/engine.go) promises an editor, as if   *)
(* it computed everything anew: which diagnostics each notification makes  *)
(* the editor show, given the text of all files.  The text of a file is    *)
(* that of the editor while the document is open, and the one the base     *)
(* loader has otherwise.                                                   *)
(***************************************************************************)
CONSTANTS
    Paths,              \* the user's files
    Contents,           \* what a file may hold, or that it cannot be loaded
    Disk,               \* what the base loader has for a path
    Texts,              \* the contents a document may be given, by path
    NoOverlay,          \* the editor has not given the text of a file
    Diagnostics(_, _),  \* DiagnosticsQuery of a root, given the files
    FilesRead(_, _)     \* the files it asks the loader for

\* The text of every file, as the loader may have it.
Files == {f \in [Paths -> Contents] : \A p \in Paths : f[p] \in Texts[p] \cup {Disk[p]}}

VARIABLES
    open, overlay,
    shown       \* what the editor shows: the last publish for each path
svars == <<open, overlay, shown>>

\* LSPImportLoader.GetContent.
Loaded(over) == [p \in Paths |-> IF over[p] = NoOverlay THEN Disk[p] ELSE over[p]]

-----------------------------------------------------------------------------
(***************************************************************************)
(* Publishing.  `said` gives what the diagnostics query says of each root. *)
(* A publish replaces what is shown for its path, and every path that some *)
(* diagnostic is about is published, with the paths in `also`.             *)
(***************************************************************************)
About(path, diagnostics) == {d \in diagnostics : d.file = path}
Publish(before, diagnostics, also) ==
    [p \in Paths |->
        IF p \in also \/ About(p, diagnostics) # {} THEN About(p, diagnostics) ELSE before[p]]
\* PublishDiagnosticsAllOpen and PublishDiagnosticsForFile.
AllOpen(before, docs, said) == Publish(before, UNION {said[r] : r \in docs}, docs)
ForFile(before, uri, said) == Publish(before, said[uri], {uri})
Cleared(before, uri) == [before EXCEPT ![uri] = {}]

Says(files) == [r \in Paths |-> Diagnostics(files, r)]

-----------------------------------------------------------------------------
Init ==
    /\ open = {}
    /\ overlay = [p \in Paths |-> NoOverlay]
    /\ shown = [p \in Paths |-> {}]

DidOpen(uri, c) ==
    /\ open' = open \cup {uri}
    /\ overlay' = [overlay EXCEPT ![uri] = c]
    /\ shown' = AllOpen(shown, open', Says(Loaded(overlay')))

\* The document counts as open, whether it was opened or not.
DidChange(uri, c) ==
    /\ open' = open \cup {uri}
    /\ overlay' = [overlay EXCEPT ![uri] = c]
    /\ shown' = ForFile(shown, uri, Says(Loaded(overlay')))

\* Not exactly one change: nothing is changed, and nothing is shown.
DidChangeInParts(uri) ==
    /\ shown' = Cleared(shown, uri)
    /\ UNCHANGED <<open, overlay>>

DidClose(uri) ==
    /\ open' = open \ {uri}
    /\ overlay' = [overlay EXCEPT ![uri] = NoOverlay]
    /\ shown' = Cleared(AllOpen(shown, open', Says(Loaded(overlay'))), uri)

Next ==
    \E uri \in Paths :
        \/ \E c \in Texts[uri] : DidOpen(uri, c) \/ DidChange(uri, c)
        \/ DidChangeInParts(uri)
        \/ DidClose(uri)
Spec == Init /\ [][Next]_svars
=============================================================================
