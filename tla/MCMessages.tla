----------------------------- MODULE MCMessages -----------------------------
(***************************************************************************)
(* Small instances of Messages for TLC.                                    *)
(***************************************************************************)
EXTENDS Messages

(* Negative counts, the limit and its neighbours, and counts that int can   *)
(* only hold after losing its high bits, with IntRange for 2^32.            *)
EdgeCounts == {-1, 0, 1, 8, 9, IntRange, IntRange + 1}
=============================================================================
