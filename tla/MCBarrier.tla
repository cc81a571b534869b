----------------------------- MODULE MCBarrier -----------------------------
(***************************************************************************)
(* The fallback barrier with four threads that come three times each, the *)
(* generation wrapping at its smallest modulus.                            *)
(***************************************************************************)
EXTENDS Barrier
=============================================================================
