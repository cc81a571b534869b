----------------------------- MODULE MCReference -----------------------------
(***************************************************************************)
(* Every range of up to 6 messages on up to 4 threads, and every kernel of *)
(* up to 4 lanes and 4 streams on 2 and on 4 of them.                     *)
(***************************************************************************)
EXTENDS Verification

MCCounts       == 0 .. 6
MCThreadCounts == 0 .. 4
MCShape        == {1, 2, 4}
MCSizes        == {2, 4}
MCLadder       == {1, 3}
=============================================================================
