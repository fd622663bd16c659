# langlang in TLA+

A verification project for langlang, a parser generator for parsing expression
grammars: a grammar is parsed, rewritten, compiled to bytecode and run by a virtual
machine. The product is the Go module under `go/`; a playground and a language
server for browsers are built from it under `js/`.

- [The system](#the-system)
- [Modules](#modules)
- [What the runs check](#what-the-runs-check)
- [What is proved](#what-is-proved)
- [Disagreements between the code and its documents](#disagreements-between-the-code-and-its-documents)
- [Not modelled](#not-modelled)
- [Plan](#plan)

## The system

| component | state | operations | hard behaviour | correct when |
|---|---|---|---|---|
| virtual machine (`go/vm.go`, `go/vm_stack.go`) | pc, cursor, frame stack with one arena of captures, tree, farthest failure, predicate flag, memo table of left-recursive calls; kept from one match to the next | `Match`, `MatchRule`, forty opcodes, the fail path | backtracking through frames that share an arena; left recursion by growing a memo; labels thrown inside predicates; state left from an earlier match | it ends with what the grammar means; each instruction finds the frame it is meant for; nothing refers to a dropped capture |
| parsers of grammars (`go/grammar_parser.go`, `go/grammar_parser_v2.go`) | none that outlives a call | `Parse` | recovery while the user types; spans that the editor relies on | what is written down comes back, with its places |
| transformations (`go/grammar_*_handler.go`) | the AST, rewritten in place | charsets, whitespace, captures | order of the passes; sharing of definitions | the language is unchanged and every rule is captured once |
| compiler, encoder (`go/grammar_compiler.go`, `go/vm_encoder.go`) | code, labels, inlining decisions | one `Visit` per node, backpatching, encoding, source maps | combinations of inlining, optimization, captures; operands of one and two bytes | every way of compiling one grammar parses alike; the machine reads what was encoded |
| analyses (`go/query_pipeline.go`) | call graphs, fixed points | recursive and left-recursive sets, nullable rules, loop risks | cycles that share rules, rules in any order | inlining ends, left recursion is guarded, no hang is missed |
| query database (`go/query.go`, `go/query_grammar.go`) | cache, dependencies and their reverse, active query | `Get`, `InvalidateFile`, `InvalidateAll`, `SetInput` | an edit between two queries; values that share definitions | a cached answer is what computing it anew would give |
| language server (`go/lsp/engine.go`, `go/query_lsp.go`) | open documents, overlays | `didOpen`, `didChange`, `didClose`, requests about a place | diagnostics of a file depend on others; places mean nothing outside their file | what is shown of an open file is current; every name is found |
| worker and client (`js/web/src/worker/`, `js/wasm/lib/`) | pending requests, readiness, matcher numbers | `start`, `request`, `compile`, `match`, `freeMatcher`, `terminate` | calls during initialization, its failure and time limit, termination with requests pending | every call is carried out at most once and settles |
| playground (`js/web/src/App.tsx`) | debounced compile and match | effects of edits | late answers to earlier requests | the tree shown is that of the text shown; no matcher leaks |
| junctions (`go/junction/`) | hits, pieces, a pool of workers | analyse, scan, cut, parse in parallel | unbalanced delimiters, quoting | the pieces are the bracketed rules, parsed as by one worker |
| positions (`go/pos.go`) | checkpoints | offsets to lines, columns and units, and back | characters of several bytes or units | exact |
| code generation, command line, corpus | none that outlives a call | | | |

How they interact: the front ends (command line, generated parsers, language
server, worker) ask the query database for a program. The database computes it by
a chain of queries: parse, resolve imports, charsets, whitespace, captures,
compile, encode. The compiler asks the database for the recursive and
left-recursive sets, which come from the grammar before the passes. The machine is
given the bytecode and nothing else. One machine runs one match at a time, in one
goroutine; the machine and the database have no concurrency of their own. In the
browser the Go code runs in a worker, and messages and promises interleave; the
playground compiles and matches through the worker's client. The only goroutines
the library itself starts are those of `junction.ParsePartitions`.

`PROJECT.json` lists the hazards, each at its line, and the properties about them.

## Modules

State machines, with the code's state as variables and an action per operation:

| module | models | state and actions |
|---|---|---|
| `VM` (with `VMStack`, `Symbols`) | `vm.go`, `vm_stack.go` | the variables are the machine's fields and `MatchRule`'s locals; one action per opcode or outcome of an opcode (`MatchChar`, `MismatchChar`), one per turn of the fail loop (`FailResume`, `FailResumeLR`, `FailPop`, `FailEmpty`), and `Panic` for the cases in which Go's runtime stops the program. `VMStack` has the operators on a stack record: `frames`, `arena`, `nodes` |
| `VMFrames` | nothing of the code: which programs respect the frames of the machine | a check of the code alone: the shapes the stack may have at each instruction |
| `Parse` | composes `VM`, `Compiler` and `PEG` | `VM`'s steps on compiled code; `meaning` is what `PEG` says the match should end with |
| `CallGraph` | `getIsRecursive` | its depth-first search one step at a time: `Start`, `Descend`, `Back`, `Leave` |
| `QueryDB` | `query.go`, the queries of `query_grammar.go` and the passes of `query_pipeline.go` | the loader's files, the cache, the reverse dependencies, the calls in progress (`activeQuery` is the last), and the definitions as objects of a heap; `Ask`, `GetCached`, `GetMissing`, `Return`, `Edit`, `InvalidateAll` |
| `LSPServer` | what the language server promises | the open documents, their text, what the editor shows, as if every answer were computed anew; one action per notification |
| `LSPEngine` | `lsp/engine.go` | the same with the cache, and which roots have read which files; implements `LSPServer` |
| `MatcherService` | what the worker and its client promise | the calls with how far each is, and the matchers; a call is carried out in one step or refused |
| `WorkerClient` | `lsp.client.ts`, `lsp.worker.ts`, `wasm.go` | readiness, calls, pending ids, a queue each way, the runtime, its matchers; one action per task of either event loop; implements `MatcherService` |
| `Playground` | the effects of `App.tsx` over `WorkerClient` | versions of the project and the input, timers, `matcherIdRef`, `compileSeqRef`, what is shown; one action per event with the renders it leads to |
| `ParsePool` | `junction/parallel.go` | the channel, the index each worker is at, the results |

Algorithms, as operators:

| module | models |
|---|---|
| `Grammar`, `Spacing` | `grammar_ast*.go`, the charset, capture and whitespace handlers, `isSyntactic`: expressions are records, `Transformed` is the query of that name |
| `GrammarAnalysis` | the fixed points and graph searches of `query_pipeline.go` |
| `Compiler` | `grammar_compiler.go` and label resolution: `CompileGrammar` gives the code record that `VM` runs |
| `Algorithms` | nothing of its own: one step picks a text or a program, for `Positions` and `Bytecode` |
| `Bytecode` | `vm_encoder.go`, what the machine reads at an address, and `query_source_map.go`: why `VM` may take instructions for addresses |
| `PEG` | nothing of the code: the meaning of an expression at a position, with trees, labels and left recursion |
| `GrammarText` | `langlang.peg` run by `PEG`, `grammar_parser_v2.go` on the tree that gives, and the older recursive descent of `grammar_parser.go` with `parser.go` |
| `GrammarLayout` | nothing of the code: the texts an AST may be written as |
| `Imports` | `resolveImportsRecursive`, the dependencies it copies, parse errors and diagnostics, with nothing cached |
| `EditorQueries` | `query_lsp.go` and the request handlers of `lsp/engine.go` |
| `Positions` | `pos.go` |
| `Junction` | `junction/analyze.go`, `scan.go`, `partition.go` |

`MCParse` and `MCFindings` (over the catalogue `MCGrammars`), `MCVM`, `MCCallGraph`,
`MCQueryDB`, `MCLSPEngine`, `MCWorkerClient`, `MCPlayground` and `MCAlgorithms` are the
instances; `VMProofs`, `VMFramesProofs`, `CallGraphProofs`, `LSPEngineProofs`,
`QueryDBProofs`, `WorkerClientProofs`, `PlaygroundProofs` and `AlgorithmsProofs` hold the proofs.

The correspondence is close enough to be read side by side: an action's guard is
the `case` of the opcode with its condition, and `PROJECT.json`'s `map` names the
lines of every definition. What is abstracted: an address is the index of an
instruction where the code has a byte offset (`Bytecode` has the bytes); a set of
characters is a set where the code has a bitmap, which makes the opcodes that test
one character one opcode with different sets; a name is a string that is never taken
apart; the text of a grammar is a sequence of tokens of one unit each; a recursive
Go call that always runs to its end is an operator; in `LSPEngine` a diagnostic
query is one value with the files it reads, since `QueryDB` has the chain of
queries below it.

JavaScript runs one task at a time, and what awaits a promise goes on before the
next task. So a step of `WorkerClient` is a task with everything its promises wake
up, and a step of `Playground` is an event with the renders and effects it leads to.
Messages between a page and its worker are neither lost nor reordered; they vanish
when the worker is terminated.

Definitions marked as mutations are changed forms of their neighbours. No
specification uses them; each stands for a plausible bug, and the run that checks
a property must find it violated when the mutation replaces the definition.

## What the runs check

| run | instance | shows |
|---|---|---|
| `parse` | 35 grammars (plain, with labels, left-recursive), four that may loop and three that loop and are not reported. Default configuration, inputs of up to 4 characters over two letters, then a second match on the same machine with inputs of up to 2; without inlining, without optimization, without captures, without charset merging: inputs of up to 3. Started at the first rule and at every rule that is not left-recursive | `ResultAgrees`, `TreeAgrees`, `FfpAgrees`: outcome, tree and farthest failure are what `PEG` says; `FrameKindExpected`, `MatchLeavesNothing`, `NoPanic`, `LRFramesHaveMemo`, `LRResultGrows`: how the machine gets there; `Terminates`, `NoRiskTerminates`. Its assumption `CompiledCodeFits`: every program compiled here fits its frames, which is what `VMFramesProofs` assumes |
| `vm_assembled` | every program of three instructions out of those of `MCVM!Tried`, most of which no compiler emits; two longer ones for what three instructions cannot reach | `TypeOK`, `SlicesNested`, `NoDangling`, `CursorInInput`, `FfpNeverMovesBack` |
| `call_graph` | every call graph over four names | `MarkedIsRecursive`, `UnmarkedIsWellFounded` |
| `query_db` | two user files and the builtins; contents: missing, a sequence, a choice that imports either file (itself included); two edits or invalidations between and after queries | `TypeOK`, `FreshCache`, `UserRulesCapturedOnce`, `GetReturns` |
| `lsp_engine` | `app` imports from `main` and both from `lib`; eleven contents, from complete to broken, rules missing, rules called with a precedence, imports by a bad path, labels with recovery rules elsewhere; any sequence of notifications, with `app` and `lib` missing on disk | `EngineTypeOK`, `CacheIsTrue`, `Implements` (refines `LSPServer`), `OpenOrderDoesNotMatter`, `ImportsAreClosed` |
| `worker_client` | a grammar that compiles and one that does not, an input on which its match never ends, a download that may never end, three calls, two workers | `AnswersInOrder`, `Serves` (refines `MatcherService`), `Settles` |
| `playground` | three versions of the project, the second of which does not compile, three of the input, edited at any moment, one at a time or together; unmounting at any moment; the last project's match of the second input never ends | `MatchersHeld`, `NoUseAfterFree`, `NeverGoesBack`, `ShowsCurrent`, `BecomesQuiet` |
| `algorithms` | one case a behaviour, see below | `PositionsAreExact`, `ProgramsAreRead`, `GrammarsRoundTrip`, `EditorFindsNames`, `BracketsAreFound`, `PoolKeepsOrder` |
| `throw_in_predicate`, `lr_start`, `partial_ast`, `lsp_stale` | see [below](#disagreements-between-the-code-and-its-documents) | one each, violated |

**Bounds.** The catalogue of `parse` has each operator of the language inside each
kind of context that changes its code: a repetition of a set, of a call, of a
sequence; a choice with shared prefixes; predicates nested in one another and around
calls; labels with and without recovery rules, recovered in a loop and in an
alternative; left recursion that is direct, indirect, behind a nullable prefix,
nested at one position, inside a predicate, of what matches nothing, with precedences
both ways, and with two cycles that share a rule. An input of four characters lets a
left-recursive match grow three times, and a repetition fail after having succeeded.
Two letters are enough for a set to hold one and not the other. `MaxMatches` is 2, so
that the second match meets what the first one left. The three grammars whose loop is not
reported are compiled without captures, since each turn would add a node to the tree.
In `vm_assembled` programs may
push frames and build nodes for ever; `MaxHeight` and `MaxTree` cut them. In
`call_graph` four names give two cycles that share one or two rules. In `query_db`
two edits (`MaxEdits`) let a file that was missing when another was resolved appear
and change again, with any queries answered in between. `lsp_engine` has no bound:
its states are finite. In `worker_client` three calls (`MaxCalls`) are one that is
underway, one that waits and one after either; two workers (`MaxWorkers`) let a matcher
number of the first meet the second. In `playground` nine calls are more than three
versions of each editor can lead to, so `MaxCalls` cuts nothing.

In `algorithms`: texts of up to four characters of one to four bytes and line
ends, with a checkpoint every 3 bytes (`Stride`, 64 in the code), so that characters
straddle them. Programs of three instructions and a label anywhere, a byte of 4
values (`Base`) and a varint group of 4 (`Group`), with operands and sources at the
limits, so that fields of two bytes overflow and differences change sign. Every
operator of the grammar language on every kind of operand two levels deep, in
sequences and choices, in each layout of `GrammarLayout!Layouts`. Files of two rules with
or without an import, in each layout, every cursor. Texts of up to five bytes with
brackets, separators, quotes and escapes, for three grammars and a spec with
sequences, depths of -3..2 (`DepthHalf`), closing brackets too many included;
pieces parsed by three workers, which is more than
the pieces of one text, as many as another's and fewer than a third's.

**Fairness.** `ParseSpec` has weak fairness of `Run`, the machine's steps: `MatchRule`
is a loop that returns only when the match is over. There is none for starting a
match. `Terminates` says that a match ends unless its meaning diverges, and
`NoRiskTerminates` that a grammar in which `InfiniteLoopRisks` finds nothing ends
on every input, unless it has a shape that the analysis does not judge (see below).
`QueryDB` has weak fairness of `Get`, which runs in its caller's
goroutine until it returns; the owner need not ask or edit. `GetReturns` is stated
for imports without a cycle: with one, the model goes round for ever, as the code's
recursion does until its stack is full. `WorkerClient` has weak fairness of the two event loops:
a message that is in a queue is handled (`WorkerHandles`, `ClientReceives`), unless
the worker is held by a match that never ends (`Stuck`); the start of the Go program comes
to an end, since the worker gives up on it after five seconds (`InitEnds`); and the
first worker is started, as `useLspWorker` does when it mounts. The limit of five seconds is
set after the script was fetched and instantiated, so there is no fairness of `InitLoads`:
a download may never end. Callers need not call, and nobody has to terminate. `Playground`
has the same for its timers, the messages and the start (`Responds`), none for the user.

`CHECK_DEADLOCK FALSE` is set since the models stop: when `MaxMatches` matches are
done, after a panic, when the search is over, when the owner of a database has all it
asked for and may edit no more, when the calls or the edits are used up, or when the
case that was picked has been looked at.

**What some properties leave out.** `Settles` excepts calls made to a client whose
worker is terminated (`terminate` tells nobody), and what the code sets no limit to: a
worker whose script is never loaded, and one that is held by a match that never ends. For
the latter `BecomesQuiet` makes an exception too; it starts from a client that is ready.
`NoRiskTerminates` excepts the repetitions that `isNullableWithSet` takes for
consuming though they may not (`OverlookedLoops`): of an empty literal, of a call with a
precedence, of a label whose rule may recover without consuming. The run has one grammar of each,
and its assumption `LoopsGoUnreported` says that they do loop and are not reported. It also excepts left
recursion that `collectLeftCalls` does not see (`OverlookedRecursion`), of which the run has
none. `ImportsAreClosed` excepts rules that are called with a precedence: they do not come
along (`PrecedencesAreNotFollowed`). `GetReturns` is about imports without a cycle.
`BracketsAreFound` takes for the end of a piece what the code takes for it, the byte at
which the closing delimiter begins, however long that is. `OpenOrderDoesNotMatter` speaks of states in
which nothing was changed since documents were last opened or closed; without that
it is `OpenDocumentsAreCurrent`, which does not hold. `Serves` and `Implements` are about safety.
`GrammarsRoundTrip` excepts the place of the path of an import of several names, and
empty alternatives at the end of a choice are not written down; it compares the two
parsers on the language both know.

`ResultAgrees` and `TreeAgrees` depend on three choices of `PEG` that follow the
code where documents are silent or say otherwise: a label thrown inside a predicate
is a failure (as `sketch.org` says; the catalogue leaves out the grammars of the
first finding), predicates capture nothing (as it says too; no rule is called inside `&`
in the catalogue), and a call barred by precedence counts as a failure at position 0.

## What is proved

The theorems of `VMProofs` hold for every program, input, alphabet, string table and
number of matches that meet the assumptions named in `Symbols` and `VM`: a program is a
sequence of instructions with natural addresses, nothing more. No compiler is
trusted: the theorems cover code that pops frames it did not push.

`VMProofs` proves `TypeCorrect`, `FramesKeepTheirCaptures`, `NodesExist`,
`CursorStaysInInput` and `FfpMonotone` from one inductive invariant `IInv`:

- between matches a job is legal, and during one the registers, the cursor, the
  farthest failure, the expected set and the result have their types and bounds
  (`JobOK`, `RegistersOK`, `CursorOK`, `FfpOK`, `ExpectedOK`, `ResultOK`);
- `TreeOK`: nodes refer to older nodes and to positions of the input;
- `MemoOK`: memo entries hold existing nodes and positions of the input;
- `GoodStack`: slices lie in the arena and are ordered, NodeIDs are below the length
  of the tree, positions within the input.

`SlicesNested` alone is not inductive: a commit hands captures to the frame below
by moving the slice's end, which keeps them ordered only since the popped frame's
slice was the last; a left-recursive return truncates the arena at the frame's
`lo`, which is safe only since no frame reaches past it; a capture from the memo
table needs the entry's nodes to exist, and the entry was written many steps ago.
The module has one lemma per stack operation that says what it preserves of
`GoodStack`, and one per group of actions, which cites those and never opens a sequence.

`VMFramesProofs` proves what holds of compiled code only: `FramesAreFound`, `NeverPanics`,
`NothingIsLeft`, `CallsHaveTheirEntries` and `LRResultsGrow`. A program that pops frames it did
not push violates all five, and what `Compiler` emits is computed by RECURSIVE
operators, out of the prover's reach. What the machine needs of the code can however be
seen from the code: `FitsFrames` follows the instructions from the addresses a match may
start at, with the types of the frames above the last call, and asks that each
instruction finds on top of them the frame it is for. `ProgramsFitFrames` is the one
assumption of the theorems beyond those of `VM`. TLC evaluates it, as `CompiledCodeFits`, on
every program of the run `parse`; the theorems then say of each of them, for inputs of any
length, any number of matches and any start, what the run says for its inputs. Code of
other grammars is covered in so far as it passes the same check, which runs no input. The
only programs of the project's instances that fail it are the one of `lr_start`, whose match starts at a
left-recursive rule, and those of `vm_assembled`, which are not meant to pass.

None of the five is inductive. A frame takes the machine to an address of its own, pushed
there long before, so `FInv` says of the whole stack that the address of every frame fits the
frames below it (`FramesFit`): where a call returns, where a choice goes on. With the
instruction that runs next fitting the whole stack, each step finds its frame and leaves a
stack that fits; the fail path keeps it by taking frames off, wherever it stops. For the
memo table the invariant is a one-to-one correspondence (`MemoFits`): an entry for every
left-recursive call in progress, with the result of its last iteration, two calls never
with one key, and no entry besides. Both parts need the other: an entry that a call would
leave behind is found by a later call, and a return that finds a plain frame removes none.
From `MemoFits` follows that a result only grows, since the fail path and the
returns touch the entry of their own frame and a call at a key in use starts nothing new.

`CallGraphProofs` proves both properties of the search, for any number of names.
`MarksAreSound` rests on the path being a path of the graph. `EveryCycleIsBroken`
needs more: every rule that is finished has only calls to visited rules, and a set
of unmarked rules always has, among its finished members, one that was finished
before any rule it calls in the set; the invariant keeps that as the well-foundedness
of unmarked finished rules, and a step that finishes a rule keeps it because a call
of a rule still on the path would have marked it.

`LSPEngineProofs` proves `EngineTypes`, `CachedDiagnostics`, `EngineImplementsServer` and
`OrderDoesNotMatter`, for any files, contents and diagnostics, from two assumptions: texts
are contents (`ContentsAssumption`), and the diagnostics of a root and the choice of the
files it reads are functions of those files (`ReadsAssumption`; TLC evaluates it on the
queries of `Imports`, which is the check that a file is a dependency even when it could not
be loaded). The inductive invariant is `EngineTypeOK /\ CacheIsTrue`. `CacheIsTrue` is
inductive because it has two halves: that cached values are true now, and that every
file they depend on knows it. One lemma, `AskAnew`, says what a notification leaves of
both: a root that is kept has not read the file that changed, so by `ReadsAssumption`
neither its files nor its value are different. The refinement then follows, since with
a true cache a publish of cached values is a publish of fresh ones. For
`OrderDoesNotMatter` the invariant has to say what is shown after a publish of all open
documents, which is the same whatever was shown before.

`QueryDBProofs` proves `TypeCorrect`, `NeverStale` and `CapturedOnce`, for any finite set of
files, any contents (imports that lead back to themselves included), any queries of the
owner and any number of edits; what is assumed is named in `QueryDB`. `FreshCache` is not
inductive: that a value is right now does not say that the next edit drops it. The
invariant `FreshInv` adds that

- what a cached value was computed from is cached too, and leads to it in `rdeps`
  (`Rests`): a resolved grammar rests on the parsed grammar of *every* file its imports
  reach, the files that could not be loaded included, a pass on the query before it;
- `rdeps` records only what a query can ask for (`RdepsOK`), so an edit drops nothing that
  a computation in progress could need: there is none then;
- every computation in progress holds what its files contain now, and each file that these
  import is there, could not be loaded, or is still to come (`ResolvingOK`, `CallOK`), and
  each computation but the last waits for the next (`CallsOK`).

An edit then keeps the invariant because the queries it leaves do not rest on the file:
what they reach, and so what they should be, is the same before and after. That needs the
two closures of the model, of `rdeps` and of the imports, to be the least closed sets
(`ReachedLeast`, `ReachedClosed`), which is proved from the recursive function they are
defined by. `CapturedOnce` needs three more facts (`CopiesOK`): what is parsed is never
captured, grammars that went through the whitespace pass share no definition of the user,
and a grammar's definitions have a capture exactly when its capture pass is cached. The
last survives an edit because the two queries of one file are dropped together.

`WorkerClientProofs` proves `InOrderAlways` and `Refines` (with `TypeCorrect` and `Invariant`), for any
grammars, calls and workers. The invariant `IInv` says where calls may be given the state
of `readyPromise` (`CallsFollowReady`), that a message with an id is about a call that was
sent and still waits (`QueuesFollowCalls`), and the order of the ids across both queues
(`QueuesInOrder`). For `Refines`, the stage of a call in `MatcherService` is read off the queues
(`StageOf`), so each step is shown to move at most one message of one call from place to
place; a termination drops both queues, and what was underway is refused or lost there.
The proof is of the safety part of the service, which is all it states.

`PlaygroundProofs` builds on that: every step of the playground contains a step of the client
and its worker, so `IInv` is a part of its invariants. `AppInv` gives `NoneForgotten` and
`NoneUsedAfterFree`: a matcher that the application has or will get is in the runtime with no
`freeMatcher` underway (`ArrivingHeld`, `CurrentHeld`); compilations are numbered in order and
no match is timed while one is to come (`CompilationsInOrder`), which is why a result that is
late frees its own matcher and never the current one. `LineInv` gives `ResultsAdvance` and
`CurrentShown`. It puts every call whose end is not known yet on one line, answers first,
and says that along it versions never go back (`LineInOrder`), that they lie between those
the page shows and those in the editors (`LineBetween`), and that what is in the editors is
on its way: a timer runs, a call of the line is about it, or it is shown (`UpToDate`).

`AlgorithmsProofs` proves `OrderKept` of `ParsePool` for any number of goroutines and pieces: the
channel holds the indices from the next one on, and each index that was taken is at one worker
or has its result. For the two properties of `Algorithms` it states a specification that may pick
any text, and any program the compiler may leave (`AlgorithmsSpec`); that what was picked is one
of these is its invariant (`CaseIsKept`), and the rest is about the operators.

- `ProgramsRead`, the machine (`EveryProgramIsRead`): for every sequence of instructions with the
  operands the compiler may give them, a location each, and each label once (`IsCode`, which TLC
  evaluates on every program of the run). The code has the length the first pass of `Encode` counts,
  every instruction's bytes are at the address that pass gave it (`CodeHolds`), and from them the
  machine gets the operation, the operands and the target back (`ReadsAnInstruction`). That last
  part asks that the program fits, `ProgramFits`: that labels lie within two bytes, that ids and
  offsets do, that a precedence is a byte, and that there are no more than 65536 different
  charsets, since `addSet` cuts an index to 16 bits. No code checks any of these.
- `ProgramsRead`, the source map (`EverySourceIsFound`), of the same programs, whether they fit or
  not. A number of varying length is read wherever it stands in the data (`ReadsAVarint`, by the
  bytes it is made of, `UvarintIsVarint`); the numbers of the entries stand one after the other
  (`NumberIsRead`), so the entries come back, with differences of either sign (`MapIsReadBack`).
  `Mapped` is the invariant of the loop that collects them: offsets do not go back and lie before
  the next instruction, the last entry is the last location, and the search finds the location of
  every instruction so far. What makes it hold is that a label takes no byte and leaves `lastSrc`
  alone. Numbers are not bounded: in the code they are offsets, lines and columns in 64 bits.
- `PositionsExact` (`EveryPositionIsExact`), of every text and every distance of the checkpoints.
  Each checkpoint is at the end of a rune, with the units up to there (`IsAfter`); a scan from the
  last one before the cursor ends with the runes that are complete there (`ScanCounts`). Lines
  start after newlines, in order, and end where the next one starts (`LinesAreInOrder`,
  `LineBounds`), which gives the way back (`BackToCursor`, `LineIsKept`).

**Induction.** The library's induction rules take an operator as a parameter, which the
installed provers cannot instantiate. `QueryDBProofs` goes around that where it is needed:
every nonempty set of natural numbers has a least one (from `NatLessThanWellFounded`), which
gives induction over sets of numbers (`FromZero`) and that a function defined by recursion
over the natural numbers exists (`Iterates`). `AlgorithmsProofs` has the same up to a bound (`UpTo`,
`Recursion`), for the functions on `0..Len(p)` that `Bytecode` and `Positions` are written with, and
`Uvarint`, a function on all numbers that calls itself with a smaller one, is put together from
functions on `0..n` (`VarintsExist`, `UvarintUnfolds`). So recursive functions can be reasoned
about; RECURSIVE operators cannot.

TLC only:

- The agreements of `Parse` (`ResultAgrees`, `TreeAgrees`, `FfpAgrees`), which speak of what the RECURSIVE
  operators of `PEG` and `Compiler` compute; and, for the same reason, that every grammar compiles to
  a program that fits its frames (`ProgramsFitFrames`).
- The algorithms `GrammarsRoundTrip`, `EditorFindsNames` and `BracketsAreFound`, and `ImportsAreClosed`:
  their modules use RECURSIVE operators, or are used by one with a parser in it.
- Liveness, which the prover does not do: `Terminates`, `NoRiskTerminates`, `GetReturns`, `Settles`,
  `BecomesQuiet`.

## Disagreements between the code and its documents

With a run that shows each:

- **A label in a predicate** (`throw_in_predicate`). `sketch.org` says that within
  predicates a throw just backtracks. The machine pops the labelled expression's
  choice first and takes the predicate flag from that frame, which is down. In
  `S <- !(a^L) b / a` the label ends the match.
- **Starting at a left-recursive rule** (`lr_start`). `stack.lr` is documented to be valid
  for frames of a left-recursive call only. A match that starts at such a rule's
  address returns through a plain call frame and indexes the LR data at -1.
- **An import that is being typed** (`partial_ast`). The parser of grammars builds a partial
  AST "even if parsing fails"; the path of an import whose text was recovered has no
  quotes to take off, and taking them off panics.
- **Diagnostics of other documents** (`lsp_stale`). The engine keeps the set of open documents
  to recompute the diagnostics of all of them "on each change"; a change recomputes
  those of the changed document.

Noticed while modelling, with no run of their own:

- `sketch.org` says that predicates produce no captures. The commit of `&` is emitted
  after `withinPredicate` has been restored, so it hands the node of a rule called
  inside to the frame below (`grammar_compiler.go:361`).
- `RecursiveSetQuery` promises all recursive definitions and marks only those on a path
  that is on the stack when a cycle closes. What the compiler needs of the set still
  holds: see `EveryCycleIsBroken`.
- `copyGrammarNode` is there "to avoid mutating cached values" and copies the references
  to definitions, which the passes rewrite. What saves the user's rules is that the
  whitespace pass copies them (`UserRulesCapturedOnce`); Spacing it keeps as it is.
- A precedence on a call of a rule that is not left-recursive and not inlined emits a
  left-recursive call (`grammar_compiler.go:478`), and the rule ends in a plain return, which
  pops that frame and leaves its memo entry, so that a second call at the same position is barred:
  `S <- A^1 a / A^1 b`, `A <- a A / b` does not match `bb`. Such code does not fit its frames.
- `isNullableWithSet` "returns true if the expression can match the empty string"
  (`query_pipeline.go:335`). It does not for an empty literal, for a call with a precedence
  and for a label whose rule matches it, so `''*`, `(A^1)*` and `(a^L)*` may loop with no
  risk reported.
- `findDefinitionDeps` "finds all identifiers within" a definition (`grammar_import.go:20`) and
  has no case for a call with a precedence: importing `A <- B^1` leaves `B` undefined.
- The five seconds after which the worker reports that it could not start do not cover the
  download of the WASM file (`lsp.worker.ts:87`), and no request has a limit: calls wait for ever for
  a download that does not end, and behind a match that loops.
- In the text `S <- '` the literal is one byte long when `parseLiteral` takes its quotes off
  (`grammar_parser_v2.go:591`), which panics as the path of an import does.
- A piece of the junction scanner ends one byte after its closing sequence begins
  (`partition.go:20`), so a longer sequence is cut in two.
- An empty last alternative (`A <- a /`) leaves no node in the tree, and
  `grammar_parser_v2.go` drops it.
- `List` in `langlang.peg` repeats an `Expression` that may be empty, up to a `}`: without one
  it repeats for ever. `optionalHasRepetition` of the junction analysis and the labels of
  `findDefinitionDeps` recurse without end on rules that lead back to themselves.

## Not modelled

- Code generation (`gen.go`, `binary/gen.go`, `tomlcst/`, `extract/`): text output from a program
  or a grammar, no state. The command line and the corpus runner: flags and files.
- The Rust implementation, which the Go one replaced.
- `grammar_parser_bootstrap.go` and the examples' parsers: generated.
- In `QueryDB`: `SetInput` and `Invalidate`, which only tests call; queries about one
  position; a rule of the user with the name of a builtin; how often an edge of the
  reverse dependencies is followed.
- In `EditorQueries`: the marks of recursion and of unused rules on tokens, the nesting of
  document symbols, the wording of hovers. In `Imports`: path arithmetic and the wording
  of diagnostics. In the language server: decoding JSON.
- In the worker: `notify`, and notifications of the language server, which settle nothing. In
  the playground: debounced saves, the editor's language features, layout, colours.
- Error messages, expected-value hints beyond where they are collected, tree printing.
- The 512 string ids of recovery labels, and `inline.max_size`: beyond the instances. So is code
  of more than 0xFFFF bytes, at which `CompileWithDB` starts again without inlining; what it
  then leaves is what the run `parse` has for `inline |-> FALSE`.
- A class whose range has its ends the wrong way round, at which the charset pass stops with
  "range out of bounds": a class is a set of characters in `Grammar`.
- Pointers: the pieces of `Junction` are values, while `BuildPartitions` keeps pointers into
  slices that grow.
- Left recursion that the analysis does not see (in a choice below the top of an
  alternative, in a predicate): the machine then pushes frames without end; no
  grammar of the catalogue has it.
- Name bindings and counted repetitions beyond parsing them: only the binary grammars'
  code generator takes them, and the compiler refuses them.

## Plan

1. Done: the machine, the compiler with the analyses, their agreement with `PEG`, and
   the first proofs.
2. Done: `QueryDB`; `Imports` and `LSPEngine` over `LSPServer`, with proofs.
3. Done: `WorkerClient` over `MatcherService`, and `Playground` on top of it.
4. Done: the parsers of grammars, whitespace, the encoder's bytes, positions, the editor's
   queries, junctions and their pool.
5. Done, proofs: `WorkerClient` and its refinement of `MatcherService`, `Playground`, the freshness
   and the copies of `QueryDB`, `ParsePool`; the frames and the left recursion of the machine, for
   programs that fit their frames; the encoder, what the machine reads and the source maps;
   positions.
6. Not planned, for what it would take: the agreements of `Parse` and the round trips of the
   grammar parsers, which are about recursive operators.
