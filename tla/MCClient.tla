------------------------------ MODULE MCClient ------------------------------
(***************************************************************************)
(* Small instances of Client for TLC.                                      *)
(***************************************************************************)
EXTENDS Client

CONSTANTS
    Streamed,        \* ids with two replies: a chunk and a final answer, ...
    Single           \* ids with one reply

RepliesFor == [i \in Ids |-> IF i \in Streamed THEN 2
                             ELSE IF i \in Single THEN 1 ELSE 0]
=============================================================================
