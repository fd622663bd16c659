------------------------------ MODULE Junction ------------------------------
(***************************************************************************)
(* Cutting an input into pieces that can be parsed at the same time        *)
(* (go/junction): which bytes of a grammar open, close and separate, and   *)
(* which quote (analyze.go); where an input has them (scan.go); and the    *)
(* tree of what they enclose (partition.go).                               *)
(***************************************************************************)
EXTENDS Spacing, FiniteSetsExt

CONSTANTS
    DepthHalf       \* the depth of a hit is in -DepthHalf..DepthHalf - 1 (int16)

-----------------------------------------------------------------------------
(***************************************************************************)
(* analyze.go.  A spec says what each byte does, which longer sequences    *)
(* do, and what quotes, with or without an escape.                         *)
(***************************************************************************)
EmptySpec == [junctions |-> <<>>, sequences |-> <<>>, quotes |-> <<>>]
AddJunction(spec, b, kind) ==
    IF b \in DOMAIN spec.junctions THEN spec ELSE [spec EXCEPT !.junctions = (b :> kind) @@ @]

RECURSIVE Unwrapped(_)
Unwrapped(e) == IF e.k \in {"lex", "lbl", "cap"} THEN Unwrapped(e.e) ELSE e
UnwrappedItems(seq) == [i \in DOMAIN seq.items |-> Unwrapped(seq.items[i])]
RECURSIVE IsLexWrapped(_)
IsLexWrapped(e) == e.k = "lex" \/ (e.k \in {"lbl", "cap"} /\ IsLexWrapped(e.e))
BodyNamed(g, name) == Unwrapped(DefExpr(g, name))

\* singleByteFromNode, singleByteFromItem: a set of one byte, or of none.
SingleByte(e) == CASE e.k = "lit" /\ Len(e.s) = 1 -> {e.s[1]}
                   [] e.k = "set" /\ Cardinality(e.cs) = 1 -> e.cs
                   [] OTHER -> {}
BytesAmong(items) == FlattenSeq([i \in DOMAIN items |-> SetToSeq(SingleByte(items[i]))])
FirstByte(items) == {b \in ToSet(BytesAmong(items)) : b = BytesAmong(items)[1]}
SingleByteOfItem(g, e) ==
    IF e.k = "id" /\ e.name \in DefNames(g)
    THEN IF BodyNamed(g, e.name).k = "cat" THEN FirstByte(UnwrappedItems(BodyNamed(g, e.name)))
         ELSE SingleByte(BodyNamed(g, e.name))
    ELSE SingleByte(e)

\* sequenceHasRepetition and what it calls; an optional rule is looked into.
Repeats(e) == e.k \in {"star", "plus"}
RECURSIVE HasRepetition(_, _)
HasRepetition(g, seq) ==
    LET Body(e) == IF e.k = "id" /\ e.name \in DefNames(g) THEN BodyNamed(g, e.name) ELSE e
    IN \E item \in ToSet(UnwrappedItems(seq)) :
          \/ Repeats(item)
          \/ /\ item.k = "opt"
             /\ LET body == Body(Unwrapped(item.e))
                IN Repeats(body) \/ (body.k = "cat" /\ HasRepetition(g, body))

\* Pass 1: the first byte of a sequence with a repetition opens, the last
\* closes, and those between separate.
Brackets(g, spec, seq) ==
    LET items == UnwrappedItems(seq)
        at == SetToSortSeq({i \in DOMAIN items : SingleByteOfItem(g, items[i]) # {}}, <)
        Kind(k) == CASE k = 1 -> "Open" [] k = Len(at) -> "Close" [] OTHER -> "Separator"
        Classify(s, k) == AddJunction(s, CHOOSE b \in SingleByteOfItem(g, items[at[k]]) : TRUE, Kind(k))
    IN IF HasRepetition(g, seq) /\ Len(at) >= 2
       THEN FoldLeft(Classify, spec, [k \in DOMAIN at |-> k]) ELSE spec

\* Pass 2: the bytes inside repetitions and options, and those of the rules
\* called there, separate.
RECURSIVE SeparatorsIn(_, _)
SeparatorsIn(g, e) ==
    CASE e.k \in {"star", "plus", "opt"} -> SeparatorsIn(g, Unwrapped(e.e))
      [] e.k = "cat" ->
            LET items == UnwrappedItems(e)
            IN FlattenSeq([i \in DOMAIN items |->
                  IF SingleByte(items[i]) # {} THEN SetToSeq(SingleByte(items[i]))
                  ELSE SeparatorsIn(g, items[i])])
      [] e.k = "id" /\ e.name \in DefNames(g) ->
            IF BodyNamed(g, e.name).k = "cat" THEN BytesAmong(UnwrappedItems(BodyNamed(g, e.name)))
            ELSE <<>>
      [] OTHER -> <<>>
Separators(g, spec, seq) ==
    LET items == UnwrappedItems(seq)
        found == FlattenSeq([i \in DOMAIN items |-> SeparatorsIn(g, items[i])])
    IN IF HasRepetition(g, seq)
       THEN FoldLeft(LAMBDA s, b : AddJunction(s, b, "Separator"), spec, found) ELSE spec

\* Quoting: a byte that comes again after a repetition; findEscapePrefix
\* follows five calls.
MaxEscapeDepth == 5
RECURSIVE HasEscape(_, _, _)
HasEscape(g, e, depth) ==
    /\ depth <= MaxEscapeDepth
    /\ \/ SingleByte(e) = {"\\"}
       \/ Repeats(e) /\ HasEscape(g, Unwrapped(e.e), depth)
       \/ e.k = "alt" /\ \E side \in {e.l, e.r} : HasEscape(g, Unwrapped(side), depth)
       \/ e.k = "cat" /\ \E item \in ToSet(UnwrappedItems(e)) : HasEscape(g, item, depth)
       \/ e.k = "id" /\ e.name \in DefNames(g) /\ HasEscape(g, BodyNamed(g, e.name), depth + 1)
RECURSIVE ContainsRepetition(_)
ContainsRepetition(e) ==
    \/ Repeats(e)
    \/ e.k = "cat" /\ \E item \in ToSet(UnwrappedItems(e)) : ContainsRepetition(item)
    \/ e.k = "opt" /\ ContainsRepetition(Unwrapped(e.e))
RECURSIVE ContainsByte(_, _)
ContainsByte(e, b) ==
    \/ SingleByte(e) = {b}
    \/ e.k \in {"cat", "alt", "star", "plus", "opt"}
       /\ \E c \in Children(e) : ContainsByte(Unwrapped(c), b)
Quoting(g, spec, seq) ==
    LET items == UnwrappedItems(seq)
        at == {i \in DOMAIN items : SingleByte(items[i]) # {}}
        first == Min(at)
        delim == CHOOSE b \in SingleByte(items[first]) : TRUE
        rest == {items[i] : i \in {j \in DOMAIN items : j > first}}
    IN IF /\ Len(items) >= 2 /\ at # {}
          /\ \E e \in rest : ContainsRepetition(e)
          /\ \E e \in rest : ContainsByte(e, delim)
          /\ delim \notin DOMAIN spec.quotes
       THEN [spec EXCEPT !.quotes = @ @@
                (delim :> \E i \in DOMAIN items \ {1} : HasEscape(g, items[i], 0))]
       ELSE spec

AnalyzeForJunctions(g) ==
    LET sequences == SelectSeq([i \in DOMAIN g |-> g[i].expr],
                               LAMBDA e : ~IsLexWrapped(e) /\ Unwrapped(e).k = "cat")
        Pass1(spec, e) == Brackets(g, spec, Unwrapped(e))
        Pass2(spec, e) == Quoting(g, Separators(g, spec, Unwrapped(e)), Unwrapped(e))
    IN FoldLeft(Pass2, FoldLeft(Pass1, EmptySpec, sequences), sequences)

-----------------------------------------------------------------------------
(***************************************************************************)
(* scan.go: the delimiters of an input that are not quoted, each with the  *)
(* depth it is at.                                                         *)
(***************************************************************************)
Hit(pos, depth, kind, len) == [pos |-> pos, depth |-> depth, kind |-> kind, len |-> len]
Int16(d) == ((d + DepthHalf) % (2 * DepthHalf)) - DepthHalf

\* The longest sequence that starts at a byte, or the byte itself.
DelimitersAt(in, i, spec) ==
    LET There(seq) == seq.pattern = SubSeq(in, i, Min({Len(in), i + Len(seq.pattern) - 1}))
        found == {[kind |-> s.kind, len |-> Len(s.pattern)] : s \in {x \in ToSet(spec.sequences) : There(x)}}
    IN IF found # {} THEN {d \in found : \A o \in found : o.len <= d.len}
       ELSE {[kind |-> spec.junctions[b], len |-> 1] : b \in {in[i]} \cap DOMAIN spec.junctions}
NeverBelowZero(depth, kind) ==     \* mutation
    CASE kind = "Open" -> Int16(depth + 1) [] kind = "Close" -> Max({depth - 1, 0}) [] OTHER -> depth
DepthAfter(depth, kind) ==
    CASE kind = "Open" -> Int16(depth + 1) [] kind = "Close" -> Int16(depth - 1) [] OTHER -> depth
WithHit(s, i, d) ==
    LET after == DepthAfter(s.depth, d.kind)
        at == IF d.kind = "Close" THEN after ELSE s.depth
    IN [s EXCEPT !.hits = Append(@, Hit(i - 1, at, d.kind, d.len)),
                 !.depth = after, !.skip = d.len - 1]
NoQuote == ""
IgnoresEscapes(spec, s, b) == FALSE     \* mutation
Escapes(spec, s, b) == s.quote # NoQuote /\ spec.quotes[s.quote] /\ b = "\\"
ScanJunctions(in, spec) ==
    LET Step(s, i) ==
            CASE s.skip > 0 -> [s EXCEPT !.skip = @ - 1]
              [] s.skip = 0 /\ Escapes(spec, s, in[i]) -> [s EXCEPT !.skip = 1]
              [] s.skip = 0 /\ s.quote # NoQuote /\ ~Escapes(spec, s, in[i]) ->
                    IF in[i] = s.quote THEN [s EXCEPT !.quote = NoQuote] ELSE s
              [] s.skip = 0 /\ s.quote = NoQuote /\ in[i] \in DOMAIN spec.quotes ->
                    [s EXCEPT !.quote = in[i]]
              [] OTHER -> LET ds == DelimitersAt(in, i, spec)
                          IN IF ds = {} THEN s ELSE WithHit(s, i, CHOOSE d \in ds : TRUE)
    IN FoldLeft(Step, [hits |-> <<>>, depth |-> 0, quote |-> NoQuote, skip |-> 0],
                [i \in DOMAIN in |-> i]).hits

(***************************************************************************)
(* partition.go: what is open is on a stack, the whole input at its bottom;*)
(* a closing delimiter too many is passed over.                            *)
(***************************************************************************)
Partition(start, end, depth, children) ==
    [start |-> start, end |-> end, depth |-> depth, children |-> children]
ClosedAt(stack, end) ==
    LET child == [Last(stack) EXCEPT !.end = end]
        rest == Front(stack)
    IN [rest EXCEPT ![Len(rest)].children = Append(@, child)]
BuildPartitions(hits, inputLen) ==
    LET Step(stack, h) ==
            CASE h.kind = "Open" -> Append(stack, Partition(h.pos, 0, h.depth, <<>>))
              [] h.kind = "Close" /\ Len(stack) > 1 -> ClosedAt(stack, h.pos + 1)
              [] OTHER -> stack
        open == FoldLeft(Step, <<Partition(0, inputLen, -1, <<>>)>>, hits)
    IN FoldLeft(LAMBDA stack, i : ClosedAt(stack, inputLen), open, [i \in 1..Len(open) - 1 |-> i])[1]

-----------------------------------------------------------------------------
\* What brackets mean: how many are open after some of the hits, and the close
\* that belongs to an open.
Net(hits, from, to) ==
    LET Count(kind) == Cardinality({i \in from..to : hits[i].kind = kind})
    IN Count("Open") - Count("Close")
ClosesOf(hits, k) == {j \in k + 1..Len(hits) : hits[j].kind = "Close" /\ Net(hits, k, j) = 0}
RECURSIVE Inner(_)
Inner(p) == UNION {{p.children[i]} \cup Inner(p.children[i]) : i \in DOMAIN p.children}

(***************************************************************************)
(* The partitions are what the brackets outside quotes enclose, from the   *)
(* opening one to the byte where the closing one begins, or to the end of  *)
(* the input; siblings come one after the other inside their parent.  This *)
(* holds with closing brackets too many as well: they end nothing, but the *)
(* depth counts them, in 16 bits.  Only where there are none and the depth *)
(* fits is a partition one deeper than its parent.                         *)
(***************************************************************************)
AreBrackets(in, hits, root) ==
    LET opens == {k \in DOMAIN hits : hits[k].kind = "Open"}
        EndOf(k) == IF ClosesOf(hits, k) = {} THEN Len(in) ELSE hits[Min(ClosesOf(hits, k))].pos + 1
        nesting == {Net(hits, 1, k) : k \in DOMAIN hits}
    IN /\ {<<p.start, p.end, p.depth>> : p \in Inner(root)} =
             {<<hits[k].pos, EndOf(k), Int16(Net(hits, 1, k - 1))>> : k \in opens}
       /\ \A p \in {root} \cup Inner(root) : \A i \in DOMAIN p.children :
             /\ p.children[i].start >= p.start /\ p.children[i].end <= p.end
             /\ nesting \subseteq 0..DepthHalf - 1 => p.children[i].depth = p.depth + 1
             /\ i < Len(p.children) => p.children[i].end <= p.children[i + 1].start
PartitionsAreBrackets(in, spec) ==
    LET hits == ScanJunctions(in, spec)
    IN AreBrackets(in, hits, BuildPartitions(hits, Len(in)))
=============================================================================
