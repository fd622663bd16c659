----------------------------- MODULE MCQueryDB -----------------------------
(***************************************************************************)
(* Two user files that may import one another, the builtins, and two       *)
(* versions of a rule, one of them a choice.  The owner compiles either    *)
(* file, or asks for the diagnostics of A (its resolved grammar).          *)
(***************************************************************************)
EXTENDS QueryDB

CONSTANTS A, B

Files == {A, B}
Texts == {"sequence", "choice"}
Only(t) == [text |-> t, imports |-> <<>>]
Importing(f) == [text |-> "choice", imports |-> <<f>>]
MCContents == {Missing, Only("sequence"), Importing(A), Importing(B)}
MCAsked == ({"TransformedGrammar"} \X Files) \cup {Query("ResolvedImports", A)}
=============================================================================
