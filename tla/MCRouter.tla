------------------------------ MODULE MCRouter ------------------------------
(***************************************************************************)
(* Small instances of Router for TLC: one effect, so that a perform has a  *)
(* handler or has none as the application registers and unregisters it.    *)
(***************************************************************************)
EXTENDS Router, TLC

CONSTANT Effect

OneEffect    == {Effect}
AllOneEffect == [p \in Performs |-> Effect]

Symmetry == Permutations(Performs \ Malformed)
=============================================================================
