--------------------------- MODULE MCJobExecution ---------------------------
(***************************************************************************)
(* Three batches, as for a package with three objects and a cached one:    *)
(* the compilations beside the copy of the cached object, no command for a *)
(* switched-off step, the linker.                                          *)
(***************************************************************************)
EXTENDS JobExecution, TLC

MCCommandList == <<<<"llc1", "copy", "llc2", "llc3">>, <<>>, <<"ld">>>>
=============================================================================
