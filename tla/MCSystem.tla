------------------------------ MODULE MCSystem ------------------------------
(***************************************************************************)
(* Small instances of System for TLC: performs of one effect.              *)
(***************************************************************************)
EXTENDS System

CONSTANT Effect

OneEffect    == {Effect}
AllOneEffect == [p \in Performs |-> Effect]

(* More replies than the router can send: the bound never binds.            *)
ManyReplies == [i \in Ids |-> 2 * MaxChunks + 3]
=============================================================================
