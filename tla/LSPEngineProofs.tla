--------------------------- MODULE LSPEngineProofs ---------------------------
(***************************************************************************)
(* The engine with its cache implements the server that computes anew, for *)
(* any files, contents and diagnostics: what makes it so is that the       *)
(* diagnostics of a root are a function of the files it reads, which is    *)
(* the assumption ReadsAssumption, and that those are its dependencies.    *)
(***************************************************************************)
EXTENDS LSPEngine, TLAPS

IInv == EngineTypeOK /\ CacheIsTrue

LEMMA LoadedIsFiles ==
    ASSUME EngineTypeOK
    PROVE  Loaded(overlay) \in Files
BY ContentsAssumption DEF EngineTypeOK, Loaded, Files, Server!Loaded, Server!Files

(***************************************************************************)
(* One file gets another text, and some roots are asked for: the cache is  *)
(* true of the new text, and has what was asked for.                       *)
(***************************************************************************)
LEMMA AskAnew ==
    ASSUME IInv, NEW uri \in Paths, NEW files \in Files, NEW roots \in SUBSET Paths,
           \A p \in Paths \ {uri} : files[p] = Loaded(overlay)[p],
           Ask(uri, files, roots)
    PROVE  /\ DOMAIN cached' = Paths
           /\ readers' \in [Paths -> SUBSET Paths]
           /\ \A r \in roots : cached'[r] = Diagnostics(files, r)
           /\ \A r \in Paths : cached'[r] # NotCached =>
                 /\ cached'[r] = Diagnostics(files, r)
                 /\ \A p \in FilesRead(files, r) : r \in readers'[p]
<1> DEFINE kept == Invalidated(uri)
           missing == {r \in roots : kept[r] = NotCached}
<1>1. cached' = [r \in Paths |-> IF r \in missing THEN Diagnostics(files, r) ELSE kept[r]]
  BY DEF Ask
<1>2. readers' = [p \in Paths |-> readers[p] \cup {r \in missing : p \in FilesRead(files, r)}]
  BY DEF Ask, ReadersWith
<1>3. readers \in [Paths -> SUBSET Paths]
  BY DEF IInv, EngineTypeOK
<1>4. readers' \in [Paths -> SUBSET Paths]
  BY <1>2, <1>3
<1>5. ASSUME NEW r \in Paths, kept[r] # NotCached
      PROVE  /\ kept[r] = Diagnostics(files, r)
             /\ \A p \in FilesRead(files, r) : r \in readers[p]
  <2>1. r \notin readers[uri] /\ kept[r] = cached[r]
    BY <1>5 DEF Invalidated
  <2>2. /\ cached[r] = Diagnostics(Loaded(overlay), r)
        /\ \A p \in FilesRead(Loaded(overlay), r) : r \in readers[p]
    BY <1>5, <2>1 DEF IInv, CacheIsTrue
  <2>3. Loaded(overlay) \in Files
    BY LoadedIsFiles DEF IInv
  <2>4. Same(Loaded(overlay), files, FilesRead(Loaded(overlay), r))
    BY <2>1, <2>2, <2>3, FilesReadAssumption DEF Same
  <2>5. /\ FilesRead(Loaded(overlay), r) = FilesRead(files, r)
        /\ Diagnostics(Loaded(overlay), r) = Diagnostics(files, r)
    BY <2>3, <2>4, ReadsAssumption
  <2> QED
    BY <2>1, <2>2, <2>5
<1>6. ASSUME NEW r \in roots
      PROVE  cached'[r] = Diagnostics(files, r)
  <2>1. CASE kept[r] = NotCached
    BY <1>1, <2>1
  <2>2. CASE kept[r] # NotCached
    <3> HIDE DEF kept
    <3>1. cached'[r] = kept[r]
      BY <1>1, <2>2
    <3> QED
      BY <1>5, <2>2, <3>1
  <2> QED
    BY <2>1, <2>2
<1>7. ASSUME NEW r \in Paths, cached'[r] # NotCached
      PROVE  /\ cached'[r] = Diagnostics(files, r)
             /\ \A p \in FilesRead(files, r) : r \in readers'[p]
  <2> FilesRead(files, r) \subseteq Paths
    BY FilesReadAssumption
  <2>1. CASE r \in missing
    BY <1>1, <1>2, <2>1
  <2>2. CASE r \notin missing
    <3> HIDE DEF kept
    <3>1. cached'[r] = kept[r]
      BY <1>1, <2>2
    <3> QED
      BY <1>2, <1>3, <1>5, <1>7, <3>1
  <2> QED
    BY <2>1, <2>2
<1> QED
  BY <1>1, <1>4, <1>6, <1>7

-----------------------------------------------------------------------------
LEMMA InitOK == EngineInit => IInv
BY ContentsAssumption
   DEF EngineInit, Server!Init, IInv, EngineTypeOK, CacheIsTrue

\* What a notification that gives a document another text, or takes it away,
\* leaves: the roots that are asked for have the answers for the new texts.
LEMMA TextChanges ==
    ASSUME IInv, NEW uri \in Paths, NEW c \in Texts[uri] \cup {NoOverlay},
           overlay' = [overlay EXCEPT ![uri] = c],
           open' = IF c = NoOverlay THEN open \ {uri} ELSE open \cup {uri},
           NEW roots \in SUBSET Paths, Ask(uri, Loaded(overlay'), roots),
           DOMAIN shown' = Paths, edited' \in SUBSET Paths
    PROVE  /\ IInv'
           /\ \A r \in roots : cached'[r] = Diagnostics(Loaded(overlay'), r)
<1> DEFINE over == overlay'
           files == Loaded(over)
<1>1. /\ DOMAIN over = Paths
      /\ \A p \in Paths : over[p] \in Texts[p] \cup {NoOverlay}
      /\ \A p \in Paths \ {uri} : over[p] = overlay[p]
      /\ over[uri] = c
  BY DEF IInv, EngineTypeOK
<1>2. files \in Files
  BY <1>1, ContentsAssumption DEF Loaded, Files, Server!Loaded, Server!Files
<1>3. \A p \in Paths \ {uri} : files[p] = Loaded(overlay)[p]
  BY <1>1 DEF Loaded, Server!Loaded
<1>4. /\ DOMAIN cached' = Paths
      /\ readers' \in [Paths -> SUBSET Paths]
      /\ \A r \in roots : cached'[r] = Diagnostics(files, r)
      /\ \A r \in Paths : cached'[r] # NotCached =>
            /\ cached'[r] = Diagnostics(files, r)
            /\ \A p \in FilesRead(files, r) : r \in readers'[p]
  BY <1>2, <1>3, AskAnew
<1>5. CacheIsTrue'
  BY <1>4 DEF CacheIsTrue, Loaded, Server!Loaded
<1>6. open' \in SUBSET Paths /\ open' = {p \in Paths : over[p] # NoOverlay}
  <2>1. open \in SUBSET Paths /\ open = {p \in Paths : overlay[p] # NoOverlay}
    BY DEF IInv, EngineTypeOK
  <2> HIDE DEF over
  <2> QED
    BY <1>1, <2>1
<1>7. EngineTypeOK'
  BY <1>1, <1>4, <1>6 DEF EngineTypeOK
<1> QED
  BY <1>4, <1>5, <1>7 DEF IInv

LEMMA StepOK == IInv /\ [EngineNext]_evars => IInv'
<1> SUFFICES ASSUME IInv, [EngineNext]_evars PROVE IInv'
  OBVIOUS
<1>0. EngineTypeOK
  BY DEF IInv
<1>1. ASSUME NEW uri \in Paths, NEW c \in Texts[uri], EngineDidOpen(uri, c)
      PROVE  IInv'
  <2>1. DOMAIN shown' = Paths
    BY <1>1 DEF EngineDidOpen, Server!AllOpen, Server!Publish
  <2>2. c # NoOverlay
    BY ContentsAssumption
  <2>3. open' \in SUBSET Paths
    BY <1>0, <1>1 DEF EngineDidOpen, EngineTypeOK
  <2> QED
    BY <1>1, <2>1, <2>2, <2>3, TextChanges DEF EngineDidOpen
<1>2. ASSUME NEW uri \in Paths, NEW c \in Texts[uri], EngineDidChange(uri, c)
      PROVE  IInv'
  <2>1. DOMAIN shown' = Paths
    BY <1>2 DEF EngineDidChange, Server!ForFile, Server!Publish
  <2>2. c # NoOverlay
    BY ContentsAssumption
  <2>3. {uri} \in SUBSET Paths /\ edited' \in SUBSET Paths
    BY <1>0, <1>2 DEF EngineDidChange, EngineTypeOK
  <2> QED
    BY <1>2, <2>1, <2>2, <2>3, TextChanges DEF EngineDidChange, ChangedDocument
<1>3. ASSUME NEW uri \in Paths, EngineDidChangeInParts(uri)
      PROVE  IInv'
  <2>1. EngineTypeOK'
    BY <1>0, <1>3 DEF EngineDidChangeInParts, EngineTypeOK, Server!Cleared
  <2>2. CacheIsTrue'
    BY <1>3 DEF IInv, EngineDidChangeInParts, CacheIsTrue, Loaded, Server!Loaded
  <2> QED
    BY <2>1, <2>2 DEF IInv
<1>4. ASSUME NEW uri \in Paths, EngineDidClose(uri)
      PROVE  IInv'
  <2>1. DOMAIN shown' = Paths
    BY <1>4 DEF EngineDidClose, Server!AllOpen, Server!Publish, Server!Cleared
  <2>2. open' \in SUBSET Paths
    BY <1>0, <1>4 DEF EngineDidClose, EngineTypeOK
  <2> QED
    BY <1>4, <2>1, <2>2, TextChanges DEF EngineDidClose
<1>5. CASE UNCHANGED evars
  BY <1>5 DEF evars, IInv, EngineTypeOK, CacheIsTrue, Loaded, Server!Loaded
<1> QED
  BY <1>1, <1>2, <1>3, <1>4, <1>5 DEF EngineNext

LEMMA Invariant == EngineSpec => []IInv
BY InitOK, StepOK, PTL DEF EngineSpec

\* The variables keep their types, and the loader has the text of the open
\* documents only (engine.go:97-128), for any files and any editor.
THEOREM EngineTypes == EngineSpec => []EngineTypeOK
BY Invariant, PTL DEF IInv

\* A value of the database's cache is what would be computed from the texts as
\* they are, and every file it was computed from will drop it (query.go:185).
THEOREM CachedDiagnostics == EngineSpec => []CacheIsTrue
BY Invariant, PTL DEF IInv

-----------------------------------------------------------------------------
(***************************************************************************)
(* Refinement.  A notification shows what the server that computes anew    *)
(* would show, since the roots it publishes were asked for.                *)
(***************************************************************************)
LEMMA SameUnion ==
    ASSUME NEW said, NEW files, NEW docs \in SUBSET Paths, NEW before,
           \A r \in docs : said[r] = Diagnostics(files, r)
    PROVE  Server!AllOpen(before, docs, said) = Server!AllOpen(before, docs, Server!Says(files))
<1> UNION {said[r] : r \in docs} = UNION {Server!Says(files)[r] : r \in docs}
  BY DEF Server!Says
<1> QED
  BY DEF Server!AllOpen

LEMMA StepRefines == IInv /\ [EngineNext]_evars => [Server!Next]_Server!svars
<1> SUFFICES ASSUME IInv, [EngineNext]_evars PROVE [Server!Next]_Server!svars
  OBVIOUS
<1>0. EngineTypeOK
  BY DEF IInv
<1>1. ASSUME NEW uri \in Paths, NEW c \in Texts[uri], EngineDidOpen(uri, c)
      PROVE  Server!DidOpen(uri, c)
  <2>1. open' \in SUBSET Paths
    BY <1>0, <1>1 DEF EngineDidOpen, EngineTypeOK
  <2>2. DOMAIN shown' = Paths
    BY <1>1 DEF EngineDidOpen, Server!AllOpen, Server!Publish
  <2>3. c # NoOverlay
    BY ContentsAssumption
  <2>4. \A r \in open' : cached'[r] = Diagnostics(Loaded(overlay'), r)
    BY <1>1, <2>1, <2>2, <2>3, TextChanges DEF EngineDidOpen
  <2> QED
    BY <1>1, <2>1, <2>4, SameUnion DEF EngineDidOpen, Server!DidOpen, Loaded
<1>2. ASSUME NEW uri \in Paths, NEW c \in Texts[uri], EngineDidChange(uri, c)
      PROVE  Server!DidChange(uri, c)
  <2>1. DOMAIN shown' = Paths
    BY <1>2 DEF EngineDidChange, Server!ForFile, Server!Publish
  <2>2. {uri} \in SUBSET Paths /\ edited' \in SUBSET Paths
    BY <1>0, <1>2 DEF EngineDidChange, EngineTypeOK
  <2>3. c # NoOverlay
    BY ContentsAssumption
  <2>4. cached'[uri] = Diagnostics(Loaded(overlay'), uri)
    BY <1>2, <2>1, <2>2, <2>3, TextChanges DEF EngineDidChange, ChangedDocument
  <2>5. Server!ForFile(shown, uri, cached')
        = Server!ForFile(shown, uri, Server!Says(Server!Loaded(overlay')))
    BY <2>4 DEF Server!ForFile, Server!Says, Loaded
  <2> QED
    BY <1>2, <2>5 DEF EngineDidChange, ChangedDocument, Server!DidChange
<1>3. ASSUME NEW uri \in Paths, EngineDidChangeInParts(uri)
      PROVE  Server!DidChangeInParts(uri)
  BY <1>3 DEF EngineDidChangeInParts, Server!DidChangeInParts
<1>4. ASSUME NEW uri \in Paths, EngineDidClose(uri)
      PROVE  Server!DidClose(uri)
  <2>1. open' \in SUBSET Paths
    BY <1>0, <1>4 DEF EngineDidClose, EngineTypeOK
  <2>2. DOMAIN shown' = Paths
    BY <1>4 DEF EngineDidClose, Server!AllOpen, Server!Publish, Server!Cleared
  <2>3. \A r \in open' : cached'[r] = Diagnostics(Loaded(overlay'), r)
    BY <1>4, <2>1, <2>2, TextChanges DEF EngineDidClose
  <2> QED
    BY <1>4, <2>1, <2>3, SameUnion DEF EngineDidClose, Server!DidClose, Loaded
<1>5. CASE UNCHANGED evars
  BY <1>5 DEF evars, Server!svars
<1> QED
  BY <1>1, <1>2, <1>3, <1>4, <1>5 DEF EngineNext, Server!Next

\* Caching does not show (query.go:183-250, lsp/engine.go:97-241): every step
\* of the engine is a step of the server that computes all diagnostics anew.
THEOREM EngineImplementsServer == EngineSpec => Implements
<1>1. EngineInit => Server!Init
  BY DEF EngineInit
<1> QED
  BY <1>1, Invariant, StepRefines, PTL DEF EngineSpec, Server!Spec, Implements

-----------------------------------------------------------------------------
\* What a publish for all open documents shows for one of them.
LEMMA ShowsWhatIsSaid ==
    ASSUME NEW said, NEW docs \in SUBSET Paths, NEW before, NEW uri \in docs
    PROVE  Server!AllOpen(before, docs, said)[uri] = UNION {Server!About(uri, said[r]) : r \in docs}
<1>1. Server!AllOpen(before, docs, said)[uri] = Server!About(uri, UNION {said[r] : r \in docs})
  BY DEF Server!AllOpen, Server!Publish
<1>2. Server!About(uri, UNION {said[r] : r \in docs})
      = UNION {Server!About(uri, said[r]) : r \in docs}
  BY DEF Server!About
<1> QED
  BY <1>1, <1>2

LEMMA AfterAllOpen ==
    ASSUME NEW docs \in SUBSET Paths, docs = open', NEW said, NEW uri \in docs,
           \A r \in docs : said[r] = Diagnostics(Loaded(overlay'), r),
           shown'[uri] = Server!AllOpen(shown, docs, said)[uri]
    PROVE  shown'[uri] = UNION {Server!About(uri, Diagnostics(Loaded(overlay'), r)) : r \in docs}
<1>1. shown'[uri] = UNION {Server!About(uri, said[r]) : r \in docs}
  BY ShowsWhatIsSaid
<1>2. {Server!About(uri, said[r]) : r \in docs}
      = {Server!About(uri, Diagnostics(Loaded(overlay'), r)) : r \in docs}
  OBVIOUS
<1> QED
  BY <1>1, <1>2

LEMMA OrderStep ==
    IInv /\ OpenOrderDoesNotMatter /\ [EngineNext]_evars => OpenOrderDoesNotMatter'
<1> SUFFICES ASSUME IInv, OpenOrderDoesNotMatter, [EngineNext]_evars
             PROVE  OpenOrderDoesNotMatter'
  OBVIOUS
<1>0. EngineTypeOK
  BY DEF IInv
<1>1. ASSUME NEW uri \in Paths, NEW c \in Texts[uri], EngineDidOpen(uri, c)
      PROVE  OpenOrderDoesNotMatter'
  <2>1. open' \in SUBSET Paths
    BY <1>0, <1>1 DEF EngineDidOpen, EngineTypeOK
  <2>2. DOMAIN shown' = Paths
    BY <1>1 DEF EngineDidOpen, Server!AllOpen, Server!Publish
  <2>3. c # NoOverlay
    BY ContentsAssumption
  <2>4. \A r \in open' : cached'[r] = Diagnostics(Loaded(overlay'), r)
    BY <1>1, <2>1, <2>2, <2>3, TextChanges DEF EngineDidOpen
  <2>5. ASSUME NEW other \in open'
        PROVE  shown'[other] =
                 UNION {Server!About(other, Diagnostics(Loaded(overlay'), r)) : r \in open'}
    <3>1. shown'[other] = Server!AllOpen(shown, open', cached')[other]
      BY <1>1 DEF EngineDidOpen
    <3> QED
      BY <2>1, <2>4, <3>1, AfterAllOpen
  <2> QED
    BY <2>5 DEF OpenOrderDoesNotMatter, Says, Loaded, Server!Loaded, Server!About
<1>2. ASSUME NEW uri \in Paths, EngineDidClose(uri)
      PROVE  OpenOrderDoesNotMatter'
  <2>1. open' \in SUBSET Paths /\ uri \notin open'
    BY <1>0, <1>2 DEF EngineDidClose, EngineTypeOK
  <2>2. DOMAIN shown' = Paths
    BY <1>2 DEF EngineDidClose, Server!AllOpen, Server!Publish, Server!Cleared
  <2>3. \A r \in open' : cached'[r] = Diagnostics(Loaded(overlay'), r)
    BY <1>2, <2>1, <2>2, TextChanges DEF EngineDidClose
  <2>4. ASSUME NEW other \in open'
        PROVE  shown'[other] =
                 UNION {Server!About(other, Diagnostics(Loaded(overlay'), r)) : r \in open'}
    <3>1. shown'[other] = Server!AllOpen(shown, open', cached')[other]
      BY <1>2, <2>1 DEF EngineDidClose, Server!Cleared, Server!AllOpen, Server!Publish
    <3> QED
      BY <2>1, <2>3, <3>1, AfterAllOpen
  <2> QED
    BY <2>4 DEF OpenOrderDoesNotMatter, Says, Loaded, Server!Loaded, Server!About
<1>3. ASSUME NEW uri \in Paths, edited' = edited \cup {uri}
      PROVE  OpenOrderDoesNotMatter'
  BY <1>3 DEF OpenOrderDoesNotMatter
<1>4. CASE UNCHANGED evars
  BY <1>4 DEF evars, OpenOrderDoesNotMatter, Says, Loaded, Server!Loaded, Server!About
<1> QED
  BY <1>1, <1>2, <1>3, <1>4 DEF EngineNext, EngineDidChange, EngineDidChangeInParts

\* After a notification that publishes all open documents, each shows what all
\* of them say of it, whatever the order they were opened in (engine.go:130).
THEOREM OrderDoesNotMatter == EngineSpec => []OpenOrderDoesNotMatter
<1>1. EngineInit => OpenOrderDoesNotMatter
  BY DEF EngineInit, Server!Init, OpenOrderDoesNotMatter
<1> QED
  BY <1>1, Invariant, OrderStep, PTL DEF EngineSpec
=============================================================================
