--------------------------- MODULE MCWorkerClient ---------------------------
(***************************************************************************)
(* A grammar that compiles and one that does not, an input whose match     *)
(* ends and one whose match does not, three calls and two workers: calls   *)
(* before the worker is ready, a worker that is terminated and replaced    *)
(* while calls are underway, matchers of a worker that is gone, downloads  *)
(* that fail or never end.                                                 *)
(***************************************************************************)
EXTENDS WorkerClient

MCLoops == {<<"good", "j">>}
=============================================================================
