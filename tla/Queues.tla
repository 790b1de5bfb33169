------------------------------- MODULE Queues -------------------------------
(***************************************************************************)
(* What the properties of clients and routers ask about a queue.           *)
(***************************************************************************)
EXTENDS Naturals, Sequences, FiniteSets

(* How often e is in s.                                                     *)
Count(e, s) == Cardinality({i \in DOMAIN s : s[i] = e})

(* The messages of s that are for p, in their order.  This is SelectSeq by  *)
(* the id, as a function that can be unfolded in a proof.                   *)
For(p, s) ==
    LET upTo[n \in 0..Len(s)] ==
            IF n = 0 THEN <<>>
            ELSE IF s[n].id = p THEN Append(upTo[n - 1], s[n]) ELSE upTo[n - 1]
    IN  upTo[Len(s)]
=============================================================================
