------------------------------ MODULE Grammar ------------------------------
(***************************************************************************)
(* Grammars and the rewritings a grammar goes through before compilation:  *)
(* charsets (go/grammar_charset_handler.go) and captures                   *)
(* (go/grammar_capture_handler.go).  An expression is a record whose field *)
(* k says what it is; a grammar is a sequence of definitions, the first of *)
(* which is the one Match starts with.                                     *)
(***************************************************************************)
EXTENDS Symbols, Integers, SequencesExt

Dot == [k |-> "any"]
Lit(s) == [k |-> "lit", s |-> s]
\* A charset node; wide when it holds bytes that are not ASCII.
Set(cs, wide) == [k |-> "set", cs |-> cs, wide |-> wide]
Rng(cs) == [k |-> "range", cs |-> cs]
Class(items) == [k |-> "class", items |-> items]
Cat(items) == [k |-> "cat", items |-> items]
Alt(l, r) == [k |-> "alt", l |-> l, r |-> r]
Opt(e) == [k |-> "opt", e |-> e]
Star(e) == [k |-> "star", e |-> e]
Plus(e) == [k |-> "plus", e |-> e]
Not(e) == [k |-> "not", e |-> e]
And(e) == [k |-> "and", e |-> e]
Lex(e) == [k |-> "lex", e |-> e]
Lbl(e, label) == [k |-> "lbl", e |-> e, label |-> label]
Prec(e, level) == [k |-> "prec", e |-> e, level |-> level]
Id(name) == [k |-> "id", name |-> name]
Cap(name, e) == [k |-> "cap", name |-> name, e |-> e]

Def(name, e) == [name |-> name, expr |-> e]
DefNames(g) == {g[i].name : i \in DOMAIN g}
DefExpr(g, name) == g[CHOOSE i \in DOMAIN g : g[i].name = name].expr
MapExprs(g, F(_)) == [i \in DOMAIN g |-> [g[i] EXCEPT !.expr = F(@)]]

Terminals == {"any", "lit", "set", "range", "class"}
Unary == {"opt", "star", "plus", "not", "and", "lex", "lbl", "prec", "cap"}

Children(e) ==
    CASE e.k = "cat" -> ToSet(e.items)
      [] e.k = "alt" -> {e.l, e.r}
      [] e.k \in Unary -> {e.e}
      [] OTHER -> {}

\* Inspect: the expression and everything below it.
RECURSIVE SubExprs(_)
SubExprs(e) == {e} \cup UNION {SubExprs(c) : c \in Children(e)}

Identifiers(e) == {s.name : s \in {x \in SubExprs(e) : x.k = "id"}}
ErrorLabels(g) ==
    {s.label : s \in {x \in UNION {SubExprs(g[i].expr) : i \in DOMAIN g} : x.k = "lbl"}}

-----------------------------------------------------------------------------
(***************************************************************************)
(* Charsets.                                                               *)
(***************************************************************************)
Items(e) == [i \in DOMAIN e.items |-> IF e.items[i].k = "lit" THEN {e.items[i].s[1]}
                                      ELSE e.items[i].cs]
IsComplement(items) ==
    Len(items) = 2 /\ items[1].k = "not" /\ items[1].e.k = "set" /\ items[2].k = "any"

\* (A class is a set of characters here.  In the code a range whose ends are the
\* wrong way round stops the compilation with an error.)
RECURSIVE AddCharset(_)
AddCharset(e) ==
    CASE e.k = "cat" /\ Len(e.items) = 1 -> AddCharset(e.items[1])
      [] e.k = "cat" /\ Len(e.items) # 1 ->
            LET items == [i \in DOMAIN e.items |-> AddCharset(e.items[i])]
            IN IF IsComplement(items) THEN Set(Char \ items[1].e.cs, TRUE)
               ELSE Cat(items)
      [] e.k = "class" -> Set(UNION ToSet(Items(e)), FALSE)
      [] e.k = "alt" ->
            LET l == AddCharset(e.l)
                r == AddCharset(e.r)
            IN IF l.k = "set" /\ r.k = "set"
               THEN Set(l.cs \cup r.cs, l.wide \/ r.wide) ELSE Alt(l, r)
      [] e.k = "lit" /\ Len(e.s) = 1 -> Set({e.s[1]}, FALSE)
      [] e.k \in Unary \ {"prec"} -> [e EXCEPT !.e = AddCharset(@)]
      [] OTHER -> e

-----------------------------------------------------------------------------
(***************************************************************************)
(* Captures.  Each rule's expression becomes a capture named after the     *)
(* rule; in a rule that calls others, the text between the calls gets      *)
(* captures of its own, as few as the rewritings below can do with.        *)
(***************************************************************************)
RECURSIVE IsSyntactic(_, _)
IsSyntactic(e, isCapture) ==
    CASE e.k \in Terminals \cup {"and", "not"} -> TRUE
      [] e.k = "id" -> FALSE
      [] e.k = "lbl" -> isCapture /\ IsSyntactic(e.e, isCapture)
      [] OTHER -> \A c \in Children(e) : IsSyntactic(c, isCapture)

Unnamed(e) == e.k = "cap" /\ e.name = NoName
\* (!x Cap(y)), the body of a repetition that becomes Cap((!x y)*).
IsUntil(e) == e.k = "cat" /\ Len(e.items) = 2 /\ e.items[1].k = "not"
              /\ Unnamed(e.items[2])

RECURSIVE AddUnnamedCaptures(_)
AddUnnamedCaptures(e) ==
    CASE e.k = "cat" ->
            [e EXCEPT !.items = [i \in DOMAIN @ |-> AddUnnamedCaptures(@[i])]]
      [] e.k = "alt" ->
            LET l == AddUnnamedCaptures(e.l)
                r == AddUnnamedCaptures(e.r)
            IN IF Unnamed(l) /\ Unnamed(r) THEN Cap(NoName, e) ELSE Alt(l, r)
      [] e.k \in {"opt", "plus", "lex", "lbl"} ->
            [e EXCEPT !.e = AddUnnamedCaptures(@)]
      [] e.k = "star" ->
            LET body == AddUnnamedCaptures(e.e)
            IN CASE body.k = "cap" /\ IsSyntactic(body.e, FALSE) ->
                        [body EXCEPT !.e = Star(@)]
                 [] body.k # "cap" /\ IsUntil(body) ->
                        Cap(NoName, Star(Cat(<<body.items[1], body.items[2].e>>)))
                 [] OTHER -> Star(body)
      [] e.k \in {"not", "and"} -> e
      [] OTHER -> IF IsSyntactic(e, FALSE) /\ e.k # "cap" THEN Cap(NoName, e) ELSE e

CapturedDef(d) ==
    [d EXCEPT !.expr = Cap(d.name, IF IsSyntactic(@, FALSE) THEN @
                                   ELSE AddUnnamedCaptures(@))]

(***************************************************************************)
(* The grammar the compiler is given, under a configuration (config.go).   *)
(***************************************************************************)
Config == [charsets : BOOLEAN, captures : BOOLEAN, inline : BOOLEAN, optimize : {0, 1}]

Transformed(g, cfg) ==
    LET withSets == IF cfg.charsets THEN MapExprs(g, AddCharset) ELSE g
    IN IF cfg.captures THEN [i \in DOMAIN withSets |-> CapturedDef(withSets[i])]
       ELSE withSets
=============================================================================
