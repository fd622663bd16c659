---------------------------- MODULE MCPlayground ----------------------------
(***************************************************************************)
(* Three versions of the project, the second of which does not compile,    *)
(* and three of the input.  The last project never ends on the second      *)
(* input.                                                                  *)
(***************************************************************************)
EXTENDS Playground

MCLoops == {<<3, 2>>}
=============================================================================
