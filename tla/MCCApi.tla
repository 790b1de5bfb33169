------------------------------- MODULE MCCApi -------------------------------
(***************************************************************************)
(* Small instances of CApi for TLC.                                        *)
(***************************************************************************)
EXTENDS CApi

CONSTANT Effect

OneEffect    == {Effect}
AllOneEffect == [p \in Performs |-> Effect]
=============================================================================
