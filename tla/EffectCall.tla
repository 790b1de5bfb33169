----------------------------- MODULE EffectCall -----------------------------
(***************************************************************************)
(* What client::perform promises its caller, with no thread, queue or      *)
(* socket in sight.  A perform is answered through its callback: any       *)
(* number of streaming chunks, then at most one final result (a value, an  *)
(* error or a timeout), then nothing.  close() abandons the performs that  *)
(* have no final result yet: their callbacks are never invoked.  That is   *)
(* what the code does; TESTCASES.md:136 has them called, which is          *)
(* CalledOnClose in Client.tla.                                            *)
(*                                                                         *)
(* Client.tla implements this module; see EffectCallSpec there.            *)
(***************************************************************************)
EXTENDS Naturals, Sequences

CONSTANT Performs        \* one element for each perform() the program makes

VARIABLES
    status,              \* where each perform is in its life
    results,             \* the kinds of result its callback was given, in order
    open                 \* close() has not completed

callVars == <<status, results, open>>

Status     == {"idle", "pending", "done", "abandoned"}
FinalKinds == {"ok", "error", "timeout"}
Kinds      == {"chunk"} \cup FinalKinds

Init ==
    /\ status  = [p \in Performs |-> "idle"]
    /\ results = [p \in Performs |-> <<>>]
    /\ open    = TRUE

Perform(p) ==
    /\ open
    /\ status[p] = "idle"
    /\ status' = [status EXCEPT ![p] = "pending"]
    /\ UNCHANGED <<results, open>>

Stream(p) ==
    /\ status[p] = "pending"
    /\ results' = [results EXCEPT ![p] = Append(@, "chunk")]
    /\ UNCHANGED <<status, open>>

Finish(p, kind) ==
    /\ status[p] = "pending"
    /\ status'  = [status EXCEPT ![p] = "done"]
    /\ results' = [results EXCEPT ![p] = Append(@, kind)]
    /\ UNCHANGED open

Close ==
    /\ open
    /\ open'   = FALSE
    /\ status' = [p \in Performs |->
                    IF status[p] = "pending" THEN "abandoned" ELSE status[p]]
    /\ UNCHANGED results

Next ==
    \/ \E p \in Performs :
          \/ Perform(p)
          \/ Stream(p)
          \/ \E kind \in FinalKinds : Finish(p, kind)
    \/ Close

Spec == Init /\ [][Next]_callVars
=============================================================================
