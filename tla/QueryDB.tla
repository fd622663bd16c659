------------------------------ MODULE QueryDB ------------------------------
(***************************************************************************)
(* The query database (go/query.go) and the chain of queries that makes a  *)
(* grammar ready for the compiler (go/query_grammar.go and the first       *)
(* queries of go/query_pipeline.go).  Get returns a cached value or        *)
(* computes it, which asks for other queries; it records who asked for     *)
(* what, so that an edit of a file can drop everything computed from it.   *)
(*                                                                         *)
(* A file defines one rule, named after it, that calls the rules of the    *)
(* files it imports; the builtins are one file with the rule Spacing.  A   *)
(* grammar refers to definitions, which are objects: `heap` holds them,    *)
(* and two grammars may share one.  The configuration adds builtins,       *)
(* charsets and captures, those of spaces included, as by default.         *)
(***************************************************************************)
EXTENDS Integers, Sequences, FiniteSets, SequencesExt

CONSTANTS
    File,           \* the user's files
    Builtins,       \* BuiltinsPath, which every grammar imports
    Missing,        \* what a file that does not exist contains
    Text,           \* what tells two versions of a rule apart
    ChoiceText,     \* the versions whose expression is a choice
    Contents,       \* the contents files may have
    HandleSpaces,   \* grammar.handle_spaces
    Asked,          \* the queries the database's owner asks for
    MaxEdits        \* bound: edits and invalidations

Path == File \cup {Builtins}
ASSUME BuiltinsAssumption == Builtins \notin File
ASSUME FileAssumption == IsFiniteSet(File)
ASSUME ContentsAssumption ==
    Contents \subseteq {Missing} \cup [text : Text, imports : Seq(File)]
ASSUME ChoicesAssumption == ChoiceText \subseteq Text /\ Text # ChoiceText
ASSUME HandleSpacesAssumption == HandleSpaces \in BOOLEAN
ASSUME MaxEditsAssumption == MaxEdits \in Nat

VARIABLES
    content,    \* what the loader returns for each file
    cache, rdeps,
    heap,       \* the definitions (DefinitionNode), by reference
    calls,      \* computations in progress; the last is activeQuery
    edits
qvars == <<content, cache, rdeps, heap, calls, edits>>

-----------------------------------------------------------------------------
(***************************************************************************)
(* Queries and values.  A computation asks for the queries of `todo` in    *)
(* turn and has the value `acc` so far.                                    *)
(***************************************************************************)
Name == {"ParsedGrammar", "ResolvedImports", "WithCharsets", "WithWhitespace",
         "WithCaptures", "TransformedGrammar"}
Query(name, path) == <<name, path>>
Id == Name \X Path
ASSUME AskedAssumption == Asked \subseteq Id
Parsed(path) == Query("ParsedGrammar", path)

Ref == Nat \ {0}
\* `body` is the parsed definition whose expression it is made from.
Definition == [file : Path, text : Text, body : Ref, spaces : Nat, captures : Nat]
Value == [ok : BOOLEAN, defs : SUBSET Ref, imports : Seq(File)]
Grammar(defs, imports) == [ok |-> TRUE, defs |-> defs, imports |-> imports]
Failure == [ok |-> FALSE, defs |-> {}, imports |-> <<>>]
Call == [id : Id, todo : Seq(Id), acc : Value]

\* The query a pass of the pipeline asks for.
Source(name) ==
    CASE name = "WithCharsets" -> "ResolvedImports"
      [] name = "WithWhitespace" -> "WithCharsets"
      [] name = "WithCaptures" -> "WithWhitespace"
      [] name = "TransformedGrammar" -> "WithCaptures"

Asks(id) ==
    CASE id[1] = "ParsedGrammar" -> <<>>
      [] id[1] = "ResolvedImports" -> <<Parsed(id[2]), Parsed(Builtins)>>
      [] OTHER -> <<Query(Source(id[1]), id[2])>>

-----------------------------------------------------------------------------
Active == calls[Len(calls)]
SetActive(c) == [calls EXCEPT ![Len(calls)] = c]

\* The dependency of the active query on the one it asks for.  Mutation: it is
\* recorded when the value has to be computed only.
RecordedOnMiss(id) ==
    IF id \in DOMAIN cache THEN rdeps ELSE rdeps \cup {<<id, Active.id>>}
Recorded(id) == rdeps \cup {<<id, Active.id>>}

(***************************************************************************)
(* What a computation does with the value it asked for.  ResolvedImports   *)
(* goes into the imports of a file before the files that come after it, an *)
(* import that cannot be loaded is passed over, and a file that cannot be  *)
(* loaded has no grammar.  The other queries ask once and keep the value.  *)
(***************************************************************************)
Visit(imports) == [i \in 1..Len(imports) |-> Parsed(imports[i])]
RetriesImports(c, v) ==     \* mutation: an import that fails is not passed over
    IF v.ok THEN [c EXCEPT !.acc = Grammar(@.defs \cup v.defs, <<>>),
                           !.todo = Visit(v.imports) \o Tail(@)]
    ELSE IF Head(c.todo) = Parsed(c.id[2]) THEN [c EXCEPT !.acc = Failure, !.todo = <<>>]
    ELSE c
Resolve(c, v) ==
    IF v.ok THEN [c EXCEPT !.acc = Grammar(@.defs \cup v.defs, <<>>),
                           !.todo = Visit(v.imports) \o Tail(@)]
    ELSE IF Head(c.todo) = Parsed(c.id[2]) THEN [c EXCEPT !.acc = Failure, !.todo = <<>>]
    ELSE [c EXCEPT !.todo = Tail(@)]
Take(c, v) ==
    IF c.id[1] = "ResolvedImports" THEN Resolve(c, v)
    ELSE [c EXCEPT !.acc = v, !.todo = <<>>]

Start(id) == [id |-> id, todo |-> Asks(id), acc |-> Grammar({}, <<>>)]

-----------------------------------------------------------------------------
Init ==
    /\ content \in [File -> Contents]
    /\ cache = <<>> /\ rdeps = {} /\ heap = <<>> /\ calls = <<>> /\ edits = 0

\* Get by the database's owner.  A cached value changes nothing.
Ask(id) ==
    /\ calls = <<>>
    /\ id \notin DOMAIN cache
    /\ calls' = <<Start(id)>>
    /\ UNCHANGED <<content, cache, rdeps, heap, edits>>

\* Get by a computation: of a cached value, or of one that is to be computed
\* first.  No query asks for itself, however indirectly, so ErrQueryCycle never
\* appears: files that import each other are met in resolveImportsRecursive,
\* which asks for the same parsed grammars again and again.
GetCached ==
    /\ calls # <<>> /\ Active.todo # <<>>
    /\ LET id == Head(Active.todo)
       IN /\ id \in DOMAIN cache
          /\ rdeps' = Recorded(id)
          /\ calls' = SetActive(Take(Active, cache[id]))
    /\ UNCHANGED <<content, cache, heap, edits>>

GetMissing ==
    /\ calls # <<>> /\ Active.todo # <<>>
    /\ LET id == Head(Active.todo)
       IN /\ id \notin DOMAIN cache
          /\ rdeps' = Recorded(id)
          /\ calls' = Append(calls, Start(id))
    /\ UNCHANGED <<content, cache, heap, edits>>

-----------------------------------------------------------------------------
(***************************************************************************)
(* Results.  Parsing makes a definition; the charset pass rewrites what it *)
(* is given in place, which changes no meaning; the whitespace pass calls  *)
(* Spacing between the items of a sequence, in a copy of every definition  *)
(* but Spacing's, except that it rewrites a choice in place; the capture   *)
(* pass wraps every definition it is given in a capture, in place.         *)
(***************************************************************************)
LoadedText(path) == IF path = Builtins THEN CHOOSE t \in Text \ ChoiceText : TRUE ELSE content[path].text
Loads(path) == path = Builtins \/ content[path] # Missing
ImportsOf(path) == IF path = Builtins THEN <<>> ELSE content[path].imports

\* The references of the next n definitions.  Mutation: of one more.
RefsAndOneMore(n) == Len(heap) + 1..Len(heap) + n + 1
NewRefs(n) == Len(heap) + 1..Len(heap) + n

Parse(path) ==
    IF Loads(path)
    THEN [value |-> Grammar(NewRefs(1), ImportsOf(path)),
          heap |-> Append(heap, [file |-> path, text |-> LoadedText(path),
                                  body |-> Len(heap) + 1, spaces |-> 0, captures |-> 0])]
    ELSE [value |-> Failure, heap |-> heap]

CopiesNothing(defs) == {}   \* mutation
Copied(defs) == IF HandleSpaces THEN {d \in defs : heap[d].file # Builtins} ELSE {}
Spaced(d) == [heap[d] EXCEPT !.spaces = @ + 1]
InjectWhitespaces(v) ==
    LET copied == Copied(v.defs)
        order == SetToSeq(copied)
        shared == {heap[d].body : d \in {d \in copied : heap[d].text \in ChoiceText}}
    IN [value |-> [v EXCEPT !.defs = (@ \ copied) \cup NewRefs(Len(order))],
        heap |-> [d \in 1..Len(heap) |-> IF heap[d].body \in shared THEN Spaced(d) ELSE heap[d]]
                 \o [i \in 1..Len(order) |-> Spaced(order[i])]]

AddCaptures(v) ==
    [value |-> v,
     heap |-> [d \in 1..Len(heap) |->
                 IF d \in v.defs THEN [heap[d] EXCEPT !.captures = @ + 1] ELSE heap[d]]]

Compute(c) ==
    CASE c.id[1] = "ParsedGrammar" -> Parse(c.id[2])
      [] c.id[1] = "WithWhitespace" -> InjectWhitespaces(c.acc)
      [] c.id[1] = "WithCaptures" -> AddCaptures(c.acc)
      [] OTHER -> [value |-> c.acc, heap |-> heap]

\* The end of Get: the value is cached, and whoever asked goes on with it.
Return ==
    /\ calls # <<>> /\ Active.todo = <<>>
    /\ LET r == Compute(Active)
           callers == SubSeq(calls, 1, Len(calls) - 1)
           n == Len(callers)
       IN /\ cache' = [id \in DOMAIN cache \cup {Active.id} |->
                          IF id = Active.id THEN r.value ELSE cache[id]]
          /\ heap' = r.heap
          /\ calls' = IF callers = <<>> THEN <<>>
                      ELSE [callers EXCEPT ![n] = Take(@, r.value)]
    /\ UNCHANGED <<content, rdeps, edits>>

-----------------------------------------------------------------------------
(***************************************************************************)
(* Edits.  invalidateDependents follows rdeps as far as it leads.          *)
(***************************************************************************)
Along(edges, nodes) == nodes \cup {e[2] : e \in {x \in edges : x[1] \in nodes}}
Reached(nodes, edges) ==
    LET R[n \in Nat] == IF n = 0 THEN nodes ELSE Along(edges, R[n - 1])
    IN R[Cardinality(edges)]

DirectDependents(ids) == Along(rdeps, ids)  \* mutation
Dependents(ids) == Reached(ids, rdeps)

Without(ids) == [id \in DOMAIN cache \ ids |-> cache[id]]

\* The owner changes a file and calls InvalidateFile.  The queries about one
\* position or one definition that InvalidateFile drops as well are not here.
Edit(f, c) ==
    /\ calls = <<>> /\ edits < MaxEdits
    /\ edits' = edits + 1
    /\ c # content[f]
    /\ content' = [content EXCEPT ![f] = c]
    /\ cache' = Without(Dependents({Parsed(f)}))
    /\ UNCHANGED <<rdeps, heap, calls>>

InvalidateAll ==
    /\ calls = <<>> /\ edits < MaxEdits
    /\ edits' = edits + 1
    /\ cache' = <<>> /\ rdeps' = {}
    /\ UNCHANGED <<content, heap, calls>>

Get == GetCached \/ GetMissing \/ Return
Next ==
    \/ \E id \in Asked : Ask(id)
    \/ Get
    \/ \E f \in File, c \in Contents : Edit(f, c)
    \/ InvalidateAll

\* Get runs to its end, in the goroutine of its caller.
Spec == Init /\ [][Next]_qvars /\ WF_qvars(Get)

-----------------------------------------------------------------------------
(***************************************************************************)
(* Properties                                                              *)
(***************************************************************************)
TypeOK ==
    /\ content \in [File -> Contents]
    /\ DOMAIN cache \subseteq Id
    /\ \A id \in DOMAIN cache : cache[id] \in Value /\ cache[id].defs \subseteq DOMAIN heap
    /\ rdeps \subseteq Id \X Id
    /\ heap \in Seq(Definition)
    /\ calls \in Seq(Call)
    /\ edits \in 0..MaxEdits

\* The files that are loaded for a grammar of `path`, the builtins aside.
Imported == {e \in Path \X File : Loads(e[1]) /\ e[2] \in ToSet(ImportsOf(e[1]))}
FilesOf(path) == {p \in Reached({path}, Imported) : Loads(p)}
Acyclic == \A f \in File : Loads(f) => \A g \in ToSet(ImportsOf(f)) : f \notin FilesOf(g)

\* What a query has for its value when everything is computed now.
SourcesNow(id) ==
    LET files == IF id[1] = "ParsedGrammar" THEN {id[2]}
                 ELSE FilesOf(id[2]) \cup {Builtins}
    IN IF Loads(id[2]) THEN {<<f, LoadedText(f)>> : f \in files} ELSE {}

(***************************************************************************)
(* Get: a cached value is never stale.  It is a failure exactly when its   *)
(* file cannot be loaded now, and its rules are those that the files have  *)
(* now, reached through the imports they have now: whatever was edited,    *)
(* removed or created meanwhile, at any depth.                             *)
(***************************************************************************)
FreshCache ==
    \A id \in DOMAIN cache :
        /\ cache[id].ok = Loads(id[2])
        /\ {<<heap[d].file, heap[d].text>> : d \in cache[id].defs} = SourcesNow(id)
        /\ id[1] = "ParsedGrammar" /\ cache[id].ok => cache[id].imports = ImportsOf(id[2])

(***************************************************************************)
(* AddCaptures: with grammar.handle_spaces, which copies the definitions   *)
(* of the user's files, a rule has its capture once in every grammar that  *)
(* went through the pass and none in the others, however many grammars     *)
(* import its file.  (The pass returns the grammar it rewrites: the value  *)
(* of WithWhitespace is the one of WithCaptures once that is computed.)    *)
(***************************************************************************)
UserRulesCapturedOnce ==
    HandleSpaces =>
        \A id \in DOMAIN cache : \A d \in cache[id].defs :
            heap[d].file \in File =>
                heap[d].captures =
                    IF /\ id[1] \in {"WithWhitespace", "WithCaptures", "TransformedGrammar"}
                       /\ Query("WithCaptures", id[2]) \in DOMAIN cache
                    THEN 1 ELSE 0

(***************************************************************************)
(* Get returns: files whose imports do not lead back to themselves are     *)
(* resolved in finitely many steps (resolveImportsRecursive has no check   *)
(* for the others).                                                        *)
(***************************************************************************)
GetReturns == (calls # <<>> /\ Acyclic) ~> calls = <<>>
=============================================================================
