--------------------------- MODULE PerformContext ---------------------------
(***************************************************************************)
(* One perform_context (include/zmqae/perform_context.hpp) shared by the   *)
(* threads of a handler.  The context promises the client one final frame: *)
(* whoever flips resumed_ from false to true owes it, and when nobody did  *)
(* before the last shared_ptr went, the destructor does.                   *)
(*                                                                         *)
(* A call is two steps, because resumed_ and the send queue are two        *)
(* objects: first the compare-exchange (or, for a streaming resume, the    *)
(* load) on resumed_, then serialisation and the push.  Serialisation may  *)
(* throw: json::dump rejects text that is not UTF-8.                       *)
(***************************************************************************)
EXTENDS Naturals, Sequences, FiniteSets

CONSTANTS
    Threads,         \* the threads that may come to hold the context
    First,           \* the one poll() hands it to
    MaxCalls,        \* bound: resumes, errors and copies of one thread
    MayThrow         \* some values cannot be serialised

ASSUME ConstantsAssumption ==
    /\ First \in Threads
    /\ MaxCalls \in Nat
    /\ MayThrow \in BOOLEAN

VARIABLES
    resumed,         \* resumed_
    holders,         \* the threads that own a shared_ptr to the context
    pc,              \* what each thread is doing with it
    calls,           \* resumes, errors and copies each thread has made
    sendQueue,       \* the frames pushed, oldest first, with their thread
    lost             \* history: a final frame was claimed and never pushed

vars == <<resumed, holders, pc, calls, sendQueue, lost>>

Finals == {"ok", "error"}        \* resume(final) and error()
Kinds  == Finals \cup {"chunk"}
Frames == [kind : Kinds, by : Threads]
Steps  == {"idle", "destroy"} \cup Kinds  \* a kind: past resumed_, before the push

(* The destructor's frame is an error like any other.                       *)
DropError_Empty(t) == [kind |-> "none", by |-> t] \* mutant: neither value nor error
DropError(t) == [kind |-> "error", by |-> t]

Init ==
    /\ resumed = FALSE
    /\ holders = {First}
    /\ pc = [t \in Threads |-> "idle"]
    /\ calls = [t \in Threads |-> 0]
    /\ sendQueue = <<>>
    /\ lost = FALSE

CanCall(t) == t \in holders /\ pc[t] = "idle" /\ calls[t] < MaxCalls

-----------------------------------------------------------------------------
(* resume(value, bins, true) and error(message): the compare-exchange.      *)

FinalAllowed_Unchecked == TRUE                 \* mutant: store() for the exchange
FinalAllowed == ~resumed

Claim(t, kind) ==
    /\ CanCall(t)
    /\ calls' = [calls EXCEPT ![t] = @ + 1]
    /\ IF FinalAllowed
       THEN resumed' = TRUE /\ pc' = [pc EXCEPT ![t] = kind]
       ELSE UNCHANGED <<resumed, pc>>
    /\ UNCHANGED <<holders, sendQueue, lost>>

(* resume(value, bins, false): only the load.                               *)
ChunkAllowed_Always == TRUE                    \* mutant: the load left out
ChunkAllowed == ~resumed

StreamCheck(t) ==
    /\ CanCall(t)
    /\ calls' = [calls EXCEPT ![t] = @ + 1]
    /\ pc' = IF ChunkAllowed THEN [pc EXCEPT ![t] = "chunk"] ELSE pc
    /\ UNCHANGED <<resumed, holders, sendQueue, lost>>

(* serialize_resume or serialize_error, then send_frame.                    *)
Push(t) ==
    /\ pc[t] \in Kinds
    /\ sendQueue' = Append(sendQueue, [kind |-> pc[t], by |-> t])
    /\ pc' = [pc EXCEPT ![t] = "idle"]
    /\ UNCHANGED <<resumed, holders, calls, lost>>

SerializeThrows(t) ==
    /\ MayThrow
    /\ pc[t] \in Kinds
    /\ lost' = (lost \/ pc[t] \in Finals)
    /\ pc' = [pc EXCEPT ![t] = "idle"]
    /\ UNCHANGED <<resumed, holders, calls, sendQueue>>

-----------------------------------------------------------------------------
(* The shared_ptr: copied to another thread, and let go.  The last owner    *)
(* runs the destructor.                                                     *)

Share(t, u) ==
    /\ CanCall(t)
    /\ u \notin holders
    /\ calls' = [calls EXCEPT ![t] = @ + 1]
    /\ holders' = holders \cup {u}
    /\ UNCHANGED <<resumed, pc, sendQueue, lost>>

Release(t) ==
    /\ t \in holders /\ pc[t] = "idle"
    /\ holders' = holders \ {t}
    /\ pc' = IF holders = {t} THEN [pc EXCEPT ![t] = "destroy"] ELSE pc
    /\ UNCHANGED <<resumed, calls, sendQueue, lost>>

(* Nobody else can reach the context: exchange and push are one step.       *)
DropFrames_Silent(t) == <<>>                   \* mutant: nothing is sent
DropFrames(t) == IF resumed THEN <<>> ELSE <<DropError(t)>>

Destroy(t) ==
    /\ pc[t] = "destroy"
    /\ resumed' = TRUE
    /\ sendQueue' = sendQueue \o DropFrames(t)
    /\ pc' = [pc EXCEPT ![t] = "idle"]
    /\ UNCHANGED <<holders, calls, lost>>

-----------------------------------------------------------------------------
Destroyed == holders = {} /\ \A t \in Threads : pc[t] = "idle"

Done == Destroyed /\ UNCHANGED vars

Step(t) ==
    \/ \E kind \in Finals : Claim(t, kind)
    \/ StreamCheck(t)
    \/ Push(t)
    \/ SerializeThrows(t)
    \/ \E u \in Threads : Share(t, u)
    \/ Release(t)
    \/ Destroy(t)

Next == (\E t \in Threads : Step(t)) \/ Done

Spec == Init /\ [][Next]_vars

(* A thread inside a call leaves it, and every owner lets go in the end.    *)
Fairness ==
    \A t \in Threads : /\ WF_vars(Push(t))
                       /\ WF_vars(Destroy(t))
                       /\ WF_vars(Release(t))

FairSpec == Spec /\ Fairness
-----------------------------------------------------------------------------
(* Properties.                                                              *)

TypeOK ==
    /\ resumed \in BOOLEAN /\ lost \in BOOLEAN
    /\ holders \subseteq Threads
    /\ pc \in [Threads -> Steps]
    /\ calls \in [Threads -> Nat]
    /\ sendQueue \in Seq(Frames)

FinalAt(i) == i \in DOMAIN sendQueue /\ sendQueue[i].kind \in Finals
Answered   == \E i \in DOMAIN sendQueue : FinalAt(i)
Claimed(t) == pc[t] \in Finals

(* The client is sent at most one final frame, however many threads resume, *)
(* fail or drop the context at once.                                        *)
OneFinalFrame == \A i, j \in DOMAIN sendQueue : FinalAt(i) /\ FinalAt(j) => i = j

(* resumed_ says that the final frame is taken care of: it is in the queue, *)
(* or exactly one thread is about to push it, or its serialisation failed.  *)
(* One of the three, never two.                                             *)
ResumedMeansOwed ==
    /\ resumed <=> (Answered \/ lost \/ \E t \in Threads : Claimed(t))
    /\ ~(Answered /\ lost)
    /\ \A t \in Threads : Claimed(t) =>
          /\ ~Answered /\ ~lost
          /\ \A u \in Threads : Claimed(u) => t = u

(* A streaming resume that read resumed_ before the final resume flipped it *)
(* may push its chunk behind the final frame; a thread does that at most    *)
(* once, and the thread that sent the final frame never does.               *)
OneLateChunkEach ==
    \A f, i \in DOMAIN sendQueue :
        FinalAt(f) /\ f < i =>
            /\ sendQueue[i].by # sendQueue[f].by
            /\ \A j \in DOMAIN sendQueue :
                  f < j /\ sendQueue[j].by = sendQueue[i].by => i = j

(* A context that is gone answered its client, unless a final value could   *)
(* not be serialised.                                                       *)
AnsweredOrLost == Destroyed => Answered \/ lost

(* Every context answers: when its last owner is gone the client has been   *)
(* sent a final frame.                                                      *)
AnsweredWhenDestroyed == Destroyed => Answered

(* A context is answered in the end, by a call or by its destructor, or its *)
(* final value could not be serialised.                                     *)
EventuallyAnswered == <>(Answered \/ lost)
=============================================================================
