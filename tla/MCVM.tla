-------------------------------- MODULE MCVM --------------------------------
(***************************************************************************)
(* The machine on its own, with assembled programs: every program of three  *)
(* instructions over a small instruction set, legal or not.                *)
(***************************************************************************)
EXTENDS VM

\* The code of a program: `call 3; halt`, as the compiler begins every one,
\* then the instructions that are tried, and a return.
Targets == {3, 5}
Tried ==
    [op : {"any", "failTwice", "return", "capReturn", "capReturnLR", "capEnd", "capEndOffset"}]
    \cup [op : {"span"}, cs : {{"a"}}]
    \cup [op : {"choice", "choicePred", "backCommit", "capCommit", "capPartialCommit", "jump"},
          to : Targets]
    \cup [op : {"callLR"}, to : {4}, prec : {0, 1}]
    \cup [op : {"throw"}, label : Names]
    \cup [op : {"capBegin", "capBeginOffset"}, id : Names]
    \cup [op : {"capTerm"}, id : NameOrNone, size : {1}]
Assembled ==
    {[code |-> <<[op |-> "call", to |-> 3], [op |-> "halt"]>> \o rest,
      rules |-> {4}, rxps |-> [l \in {"L"} |-> 4]] :
         rest \in {<<i, j, k, [op |-> "return"]>> : i, j, k \in Tried}}

\* What those cannot show: a left-recursive call that fails after it grew
\* (A <- !A .), and a label without a recovery rule (S <- . throw L).
Growing ==
    [code |-> <<[op |-> "call", to |-> 3], [op |-> "halt"],
                [op |-> "callLR", to |-> 5, prec |-> 0], [op |-> "return"],
                [op |-> "choicePred", to |-> 8], [op |-> "callLR", to |-> 5, prec |-> 1],
                [op |-> "failTwice"], [op |-> "any"], [op |-> "capReturnLR"]>>,
     rules |-> {3}, rxps |-> <<>>]
Labelled ==
    [code |-> <<[op |-> "call", to |-> 3], [op |-> "halt"],
                [op |-> "any"], [op |-> "throw", label |-> "L"], [op |-> "return"]>>,
     rules |-> {3}, rxps |-> <<>>]
TriedPrograms == Assembled \cup {Growing, Labelled}

Texts == {<<>>, <<"a">>, <<"a", "b">>}

CONSTANTS MaxHeight, MaxTree
\* Programs may push frames and build nodes forever; these bounds stop them.
Bounded == Height(stack) <= MaxHeight /\ Len(tree) <= MaxTree
=============================================================================
