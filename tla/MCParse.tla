------------------------------ MODULE MCParse ------------------------------
(***************************************************************************)
(* What Parse is checked on: the grammars of MCGrammars, compiled in every *)
(* way and matched with short inputs.                                      *)
(***************************************************************************)
EXTENDS MCGrammars, VMFrames

AllGrammars == PlainGrammars \o LabelGrammars \o LRGrammars
\* The other ways of compiling: no inlining, no optimization, no captures,
\* classes and literals left as they are.
OtherWays(gs, cfg) == Every(gs, cfg, UpTo(3), {})
\* The loops that are not reported are compiled without captures: with them each
\* turn adds a node, and the states have no end.
ParseSources ==
    Every(AllGrammars, Default, UpTo(4), UpTo(2))
    \o Every(LoopGrammars, Default, UpTo(2), UpTo(2))
    \o Every(UnreportedLoops, Cfg(FALSE, TRUE, 1), UpTo(2), UpTo(2))
    \o OtherWays(AllGrammars, Cfg(TRUE, FALSE, 1))
    \o OtherWays(AllGrammars, Cfg(TRUE, TRUE, 0))
    \o OtherWays(PlainGrammars \o LRGrammars, Cfg(FALSE, TRUE, 1))
    \o OtherWays(PlainGrammars, [Default EXCEPT !.charsets = FALSE])

\* Each of these grammars loops on some input, and no risk is reported.
ASSUME LoopsGoUnreported ==
    \A i \in DOMAIN Sources :
        Sources[i].g \in ToSet(UnreportedLoops) =>
            /\ InfiniteLoopRisks(Sources[i].g) = {} /\ OverlookedLoops(Sources[i].g) # {}
            /\ \E in \in Sources[i].inputs : Meaning(Sources[i], in, 0).kind = "diverge"

\* The code of these grammars fits its frames, however they are compiled: what
\* VMFramesProofs proves of the machine holds of their parsers on every input.
ASSUME CompiledCodeFits == ProgramsFitFrames
=============================================================================
