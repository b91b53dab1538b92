--------------------------- MODULE MCOpteeClientMem ---------------------------
(*****************************************************************************)
(* Model checking of OpteeClientMem: a shared block of a few pages of four   *)
(* cells, headers of two cells, every service may fail.                      *)
(*****************************************************************************)
EXTENDS OpteeClientMem, TLC

\* The images link the same library.
ImageSymmetry == Permutations(Images)
===============================================================================
