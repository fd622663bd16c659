----------------------------- MODULE LSPEngine -----------------------------
(***************************************************************************)
(* The language server as it is (go/lsp/engine.go): the diagnostics of a   *)
(* root are a cached value of the query database, which a notification     *)
(* drops when the root was computed from the file it is about.  Module     *)
(* QueryDB has the database in detail; here a value depends on the files   *)
(* it read, and dependencies are never forgotten (rdeps is only added to). *)
(***************************************************************************)
CONSTANTS Paths, Contents, Disk, Texts, NoOverlay, Diagnostics(_, _), FilesRead(_, _),
          NotCached
VARIABLES
    open, overlay, shown,
    cached,     \* the value of DiagnosticsQuery for each root, or NotCached
    readers,    \* the roots whose value has ever read a file
    edited      \* documents that DidChange was about since the last
                \* notification that published all open documents
evars == <<open, overlay, shown, cached, readers, edited>>

Server == INSTANCE LSPServer
Files == Server!Files
Loaded(over) == Server!Loaded(over)

ASSUME ContentsAssumption ==
    /\ Disk \in [Paths -> Contents] /\ Texts \in [Paths -> SUBSET Contents]
    /\ NoOverlay \notin Contents

(***************************************************************************)
(* The diagnostics of a root are a function of the files it reads, and so  *)
(* is the choice of those files: a file that cannot be loaded is read, too. *)
(***************************************************************************)
Same(f, g, paths) == \A p \in paths : f[p] = g[p]
ASSUME ReadsAssumption ==
    \A f, g \in Files : \A r \in Paths :
        Same(f, g, FilesRead(f, r)) =>
            FilesRead(f, r) = FilesRead(g, r) /\ Diagnostics(f, r) = Diagnostics(g, r)
ASSUME FilesReadAssumption == \A f \in Files : \A r \in Paths : FilesRead(f, r) \subseteq Paths

-----------------------------------------------------------------------------
\* InvalidateFile.
DropsItself(uri) == [cached EXCEPT ![uri] = NotCached]  \* mutation
Invalidated(uri) ==
    [r \in Paths |-> IF r \in readers[uri] THEN NotCached ELSE cached[r]]

\* What the queries made for a value leave behind.  Mutation: a file that
\* cannot be loaded is not a dependency.
ReadersThatLoad(files, asked) ==
    [p \in Paths |-> readers[p] \cup {r \in asked : p \in FilesRead(files, r) /\ files[p] \in Texts[p]}]
ReadersWith(files, asked) ==
    [p \in Paths |-> readers[p] \cup {r \in asked : p \in FilesRead(files, r)}]

\* QueryDiagnostics for some roots, one after the other, after a notification.
Ask(uri, files, roots) ==
    LET kept == Invalidated(uri)
        missing == {r \in roots : kept[r] = NotCached}
    IN /\ cached' = [r \in Paths |-> IF r \in missing THEN Diagnostics(files, r) ELSE kept[r]]
       /\ readers' = ReadersWith(files, missing)

-----------------------------------------------------------------------------
EngineInit ==
    /\ Server!Init
    /\ cached = [p \in Paths |-> NotCached]
    /\ readers = [p \in Paths |-> {}]
    /\ edited = {}

EngineDidOpen(uri, c) ==
    /\ open' = open \cup {uri}
    /\ overlay' = [overlay EXCEPT ![uri] = c]
    /\ Ask(uri, Loaded(overlay'), open')
    /\ shown' = Server!AllOpen(shown, open', cached')
    /\ edited' = {}

NotReopened(uri, c) ==      \* mutation: the document is not taken for open
    /\ UNCHANGED open
    /\ overlay' = [overlay EXCEPT ![uri] = c]
ChangedDocument(uri, c) ==
    /\ open' = open \cup {uri}
    /\ overlay' = [overlay EXCEPT ![uri] = c]
EngineDidChange(uri, c) ==
    /\ ChangedDocument(uri, c)
    /\ Ask(uri, Loaded(overlay'), {uri})
    /\ shown' = Server!ForFile(shown, uri, cached')
    /\ edited' = edited \cup {uri}

EngineDidChangeInParts(uri) ==
    /\ shown' = Server!Cleared(shown, uri)
    /\ edited' = edited \cup {uri}
    /\ UNCHANGED <<open, overlay, cached, readers>>

EngineDidClose(uri) ==
    /\ open' = open \ {uri}
    /\ overlay' = [overlay EXCEPT ![uri] = NoOverlay]
    /\ Ask(uri, Loaded(overlay'), open')
    /\ shown' = Server!Cleared(Server!AllOpen(shown, open', cached'), uri)
    /\ edited' = {}

EngineNext ==
    \E uri \in Paths :
        \/ \E c \in Texts[uri] : EngineDidOpen(uri, c) \/ EngineDidChange(uri, c)
        \/ EngineDidChangeInParts(uri)
        \/ EngineDidClose(uri)
EngineSpec == EngineInit /\ [][EngineNext]_evars

-----------------------------------------------------------------------------
\* The types of the variables; the loader has the text of the open documents
\* and of no other, so that what is closed is read from the disk again.
EngineTypeOK ==
    /\ open \in SUBSET Paths
    /\ DOMAIN overlay = Paths
    /\ \A p \in Paths : overlay[p] \in Texts[p] \cup {NoOverlay}
    /\ open = {p \in Paths : overlay[p] # NoOverlay}
    /\ DOMAIN shown = Paths
    /\ DOMAIN cached = Paths
    /\ readers \in [Paths -> SUBSET Paths]
    /\ edited \in SUBSET Paths

\* What Get leaves in the cache is what it would compute now, and the database
\* knows every file a cached value was computed from.
CacheIsTrue ==
    \A r \in Paths : cached[r] # NotCached =>
        /\ cached[r] = Diagnostics(Loaded(overlay), r)
        /\ \A p \in FilesRead(Loaded(overlay), r) : r \in readers[p]

\* The engine with its cache shows what it would show without one, whatever was
\* opened, changed or closed and whichever files were missing at the time.
Implements == Server!Spec

\* What the open documents say of one of them.
Says(uri) ==
    UNION {Server!About(uri, Diagnostics(Loaded(overlay), r)) : r \in open}

\* PublishDiagnosticsAllOpen: until something is changed, each open document
\* shows what all the open documents say of it now, in whatever order they were
\* opened, before or after the files they import.
OpenOrderDoesNotMatter == edited = {} => \A uri \in open : shown[uri] = Says(uri)

\* engine.go:23-26: "We use this to recompute diagnostics for all open docs on
\* each change so import-related diagnostics don't get stuck due to open order."
OpenDocumentsAreCurrent == \A uri \in open : shown[uri] = Says(uri)
=============================================================================
