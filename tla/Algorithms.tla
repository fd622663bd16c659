----------------------------- MODULE Algorithms -----------------------------
(***************************************************************************)
(* The pure algorithms that work on positions and bytes: one step picks an *)
(* input, and a property for each algorithm looks at it.  The worker pool  *)
(* of go/junction, which has steps of its own, runs beside them.           *)
(***************************************************************************)
EXTENDS Positions, Bytecode, ParsePool

VARIABLE given      \* [kind, case]: which algorithm, and its input
vars == <<given, poolVars>>

Init == given = [kind |-> "none", case |-> <<>>] /\ PoolInit
Pick(kind, cases) ==
    /\ given.kind = "none"
    /\ \E c \in cases : given' = [kind |-> kind, case |-> c]
    /\ UNCHANGED poolVars
Given(kind) == given.kind = kind

-----------------------------------------------------------------------------
\* UnitsAt and LocationAt of go/pos.go find what counting from the start of
\* the text would, wherever the checkpoints are, in runes and in UTF-16 units.
PositionsAreExact ==
    Given("text") => UnitsAreCounted(given.case) /\ LocationsInvert(given.case)

\* vm_encoder.go and the loop of vm.go agree about every instruction, and
\* query_source_map.go gives the source of every byte of it.
ProgramsAreRead ==
    Given("program") => MachineReadsProgram(given.case) /\ SourcesAreFound(given.case)
=============================================================================
