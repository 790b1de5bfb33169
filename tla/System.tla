------------------------------- MODULE System -------------------------------
(***************************************************************************)
(* A client and the router it performs on.  Client.tla is extended, except *)
(* for its peer, and Router.tla is instantiated, except for its clients: in*)
(* their place stands the connection, which carries the performs from the  *)
(* DEALER socket to the ROUTER socket and the answers back, in order and   *)
(* once, as TCP and inproc do.  A socket that is closed loses what has not *)
(* left it.  The router is one that is not moved, whose handlers neither   *)
(* reconfigure nor close it and make no value that cannot be serialised;   *)
(* and the client's performs are all well formed.                          *)
(***************************************************************************)
EXTENDS Client

CONSTANTS
    Effects, EffectOf,     \* effect names, and the effect of each perform
    MaxChunks,             \* bound: chunks sent for each perform
    Uses                   \* what the application sets up on the router

(* The router sends at most MaxChunks chunks and a final frame for each     *)
(* perform, which MaxReplies leaves room for.                               *)
ASSUME SystemAssumption ==
    /\ EffectOf \in [Performs -> Effects]
    /\ MaxChunks \in Nat
    /\ \A p \in Performs : MaxChunks < MaxReplies[p]
    /\ Uses \subseteq {"handlers", "unregistered", "parent", "nested"}

VARIABLES
    rAlive, rMainPc, rRet, rItems, at, client, handlers, unregistered, parent,
    nested, rRunning, rSendQueue, rRecvQueue, rZpc, owners, resumed, lost,
    inbox, arrived, out, owed,
    carried                \* how much of out has left the ROUTER socket

R == INSTANCE Router
     WITH Malformed <- {}, Generated <- Stray, MayFail <- FALSE,
          MayMove <- FALSE, Reentrant <- FALSE,
          alive <- rAlive, mainPc <- rMainPc, ret <- rRet, items <- rItems,
          running <- rRunning, sendQueue <- rSendQueue,
          recvQueue <- rRecvQueue, zpc <- rZpc

rVars   == <<rAlive, rMainPc, rRet, rItems, at, client, handlers, unregistered,
             parent, nested, rRunning, rSendQueue, rRecvQueue, rZpc, owners,
             resumed, lost, inbox, arrived, out, owed>>
allVars == <<vars, rVars, carried>>

SystemInit == Init /\ R!Init /\ carried = 0

-----------------------------------------------------------------------------
ClientStep == OwnNext /\ UNCHANGED <<rVars, carried>>

(* What the ROUTER socket still holds when it is closed is dropped.         *)
RouterStep ==
    /\ R!OwnNext
    /\ carried' = IF rAlive /\ ~rAlive' THEN Len(out) ELSE carried
    /\ UNCHANGED vars

(* A perform arrives at the ROUTER socket.                                  *)
CarryPerform ==
    /\ PeerTake
    /\ R!ClientSends(Head(wireOut))
    /\ UNCHANGED carried

(* A frame arrives at the DEALER socket, if that is still there.  A final   *)
(* one is a value or an error, between which only the callback tells: "ok"  *)
(* stands for both.                                                         *)
AnswerKinds(f) == IF f.kind = "final" THEN {"ok"} ELSE {"chunk", "long"}

CarryAnswer ==
    /\ carried < Len(out)
    /\ carried' = carried + 1
    /\ LET f == out[carried + 1] IN
       \/ /\ alive
          /\ \E kind \in AnswerKinds(f) :
                LET reply == [id |-> f.id, kind |-> kind, n |-> Len(sent[f.id]) + 1] IN
                /\ wireIn' = Append(wireIn, reply)
                /\ sent'   = [sent EXCEPT ![f.id] = Append(@, reply)]
          /\ UNCHANGED <<mainVars, running, sendQueue, recvQueue, zpc, wireOut, asked>>
       \/ /\ ~alive
          /\ UNCHANGED vars
    /\ UNCHANGED rVars

SystemNext == ClientStep \/ RouterStep \/ CarryPerform \/ CarryAnswer

(* Both programs poll in a loop, and the connection delivers.               *)
SystemFairness ==
    /\ Fairness /\ R!Fairness
    /\ WF_allVars(CarryPerform) /\ WF_allVars(CarryAnswer)

SystemSpec == SystemInit /\ [][SystemNext]_allVars /\ SystemFairness
-----------------------------------------------------------------------------
(* Properties.                                                              *)

(* The router is the peer that Client takes for granted: it answers nothing *)
(* it was not asked and sends at most one final frame for each perform.     *)
RouterIsPeer == Spec

(* While both ends are open no perform that waits for its final result is   *)
(* forgotten, whoever lets go of its context and whichever client of the    *)
(* router is replaced: either the request is still on its way, or the       *)
(* router has a context for it that somebody holds, or the final answer is  *)
(* on its way back.                                                         *)
RequestOnItsWay(p) == \E s \in {sendQueue, wireOut, inbox} :
                        \E i \in DOMAIN s : s[i] = p
AnswerOnItsWay(p) ==
    \/ \E i \in DOMAIN rSendQueue : rSendQueue[i] = R!Final(p)
    \/ \E i \in (carried + 1)..Len(out) : out[i] = R!Final(p)
    \/ \E s \in {wireIn, recvQueue, items} : HasFinal(For(p, s))

NotForgotten ==
    alive /\ rAlive =>
        \A p \in pending :
            \/ RequestOnItsWay(p)
            \/ AnswerOnItsWay(p)
            \/ p \notin resumed /\ owners[p] # {}

(* A perform that sets no timeout ends with a final result in its callback  *)
(* while both ends are open, handler or no handler, parent or no parent, if *)
(* the parents' clients the application replaces close.                     *)
PerformFinishes ==
    R!ClientsClose =>
        \A p \in Performs \ Timed :
            p \in issued ~> (HasFinal(callbacks[p]) \/ ~running \/ ~rRunning)
=============================================================================
