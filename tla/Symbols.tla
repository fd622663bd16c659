------------------------------ MODULE Symbols ------------------------------
(***************************************************************************)
(* What the modules about grammars and the modules about the machine share:*)
(* the alphabet of the input and the string table of a grammar (the names  *)
(* of its rules and error labels).                                         *)
(***************************************************************************)
CONSTANTS
    Char,       \* the alphabet: every character takes one unit of input
    Names,      \* names of rules and error labels
    NoName      \* index 0 of the string table: an unnamed capture

ASSUME NamesAssumption == NoName \notin Names

NameOrNone == Names \cup {NoName}
=============================================================================
