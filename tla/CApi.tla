-------------------------------- MODULE CApi --------------------------------
(***************************************************************************)
(* The C API of src/c_api.cpp: handles around a client, a router and the   *)
(* contexts of its performs, and functions that turn what the C++ objects  *)
(* do into return codes.  The router is Router.tla, step by step; the      *)
(* client is taken at what it promises, EffectCall.tla.  What is new is    *)
(* the C layer's own state: the table of C handlers beside the router's,   *)
(* the c_ctx a handler must release, the return codes, and the check of    *)
(* is_resumed() that comes a step before the call it is meant to protect.  *)
(* Left out are the texts zmqae_last_error() returns and the functions that *)
(* only read a context's perform: its id, effect, payload and binaries.     *)
(***************************************************************************)
EXTENDS Router

CONSTANTS
    Threads, Main,   \* the program's threads, and the one that polls
    Fns,             \* the ctx functions the program calls
    Calls,           \* the performs of the C program on its own client
    MaxCalls,        \* bound: ctx functions each thread calls
    MaxResults       \* bound: results for one perform of the client

ASSUME CConstantsAssumption ==
    /\ Main \in Threads
    /\ Fns \subseteq {"resume", "error", "streamFinal", "streamChunk"}
    /\ MaxCalls \in Nat /\ MaxResults \in Nat

VARIABLES
    table,           \* the keys of c_router::handlers
    destroyed,       \* zmqae_router_destroy() has returned
    handle,          \* the c_ctx of each perform
    call,            \* the ctx function each thread is in
    calls,           \* how many it has called
    told,            \* the code that the function which just returned told
    oks,             \* history: how many final calls on it were told OK, or 2
    status, results, open   \* the client, as EffectCall has it

E == INSTANCE EffectCall WITH Performs <- Calls

clientVars == <<status, results, open>>
routerVars == <<vars, table, destroyed>>
ctxCVars   == <<handle, call, calls, oks>>
allVars    == <<routerVars, ctxCVars, told, clientVars>>

None   == "none"
NoCall == [fn |-> None, ctx |-> None]
Codes  == {"OK", "ERROR", "INVALID", "CLOSED", "ALREADY", "NULL"}

(* c_ctx calls that end in a final frame, and those that ask first whether  *)
(* the context was resumed.                                                 *)
FinalFns   == Fns \ {"streamChunk"}
CheckedFns == Fns \cap {"resume", "error"}

CInit ==
    /\ Init
    /\ table = {} /\ destroyed = FALSE
    /\ handle = [p \in Performs |-> None]
    /\ call = [t \in Threads |-> NoCall]
    /\ calls = [t \in Threads |-> 0]
    /\ told = None
    /\ oks = [p \in Performs |-> 0]
    /\ E!Init

-----------------------------------------------------------------------------
(* Returning from a C function, and a step that returns from none.          *)

Return(code) == told' = code
Silent       == told' = None

(* Where the polling thread may call a function: outside poll(), and in a C *)
(* handler.                                                                 *)
InCHandler == mainPc = "handler" /\ handle[Current] # None
MainMay    == call[Main] = NoCall /\ (Idle \/ InCHandler)
MayCall(t) == mainPc # "crashed" /\ call[t] = NoCall /\ (t = Main => MainMay)

-----------------------------------------------------------------------------
(* A null handle is refused by every function; a constructor that throws    *)
(* gives none.                                                              *)
NullHandle(t) ==
    /\ MayCall(t)
    /\ Return("INVALID")
    /\ UNCHANGED <<routerVars, ctxCVars, clientVars>>

NewFails(t) ==
    /\ MayCall(t)
    /\ Return("NULL")
    /\ UNCHANGED <<routerVars, ctxCVars, clientVars>>

-----------------------------------------------------------------------------
(* The client's functions.                                                  *)

ClientPerform(c) ==
    /\ MainMay
    /\ status[c] = "idle"
    /\ \/ ~open /\ Return("CLOSED") /\ UNCHANGED clientVars
       \/ open /\ Return("ERROR") /\ UNCHANGED clientVars
       \/ E!Perform(c) /\ Return("OK")
    /\ UNCHANGED <<routerVars, ctxCVars>>

(* A poll that finds one result, or none; on a closed client, nothing.      *)
ClientPoll ==
    /\ MainMay
    /\ \/ UNCHANGED clientVars
       \/ /\ open
          /\ \E c \in Calls :
                \/ Len(results[c]) < MaxResults /\ E!Stream(c)
                \/ \E kind \in E!FinalKinds : E!Finish(c, kind)
    /\ Return("OK")
    /\ UNCHANGED <<routerVars, ctxCVars>>

ClientClose ==
    /\ MainMay
    /\ IF open THEN E!Close ELSE UNCHANGED clientVars
    /\ Return("OK")
    /\ UNCHANGED <<routerVars, ctxCVars>>
-----------------------------------------------------------------------------
(* The router's functions.  Registration and polling do not ask whether it  *)
(* is open: they are told OK, and do nothing that matters.                  *)

RouterCall == MainMay /\ ~destroyed

RouterOn(e) ==
    /\ RouterCall
    /\ table' = table \cup {e} /\ On(e)
    /\ Return("OK")
    /\ UNCHANGED <<alive, mainPc, ret, items, at, client, parent, nested, running,
                   sendQueue, recvQueue, zpc, ctxVars, inbox, arrived, out, owed,
                   destroyed, ctxCVars, clientVars>>

OffTable_Kept(e) == table                 \* mutant: only the router forgets it
OffTable(e) == table \ {e}

RouterOff(e) ==
    /\ RouterCall
    /\ table' = OffTable(e) /\ Off(e)
    /\ Return("OK")
    /\ UNCHANGED <<alive, mainPc, ret, items, at, client, parent, nested, running,
                   sendQueue, recvQueue, zpc, ctxVars, inbox, arrived, out, owed,
                   destroyed, ctxCVars, clientVars>>

(* set_parent and set_nested_endpoint.  A null endpoint is refused before   *)
(* anything else is asked, a bad one by the constructor of the client.  The *)
(* function returns at once, or when the client it replaces is gone.        *)
Returned == IF mainPc' \in {"app", "handler"} THEN Return("OK") ELSE Silent

RouterSet(fn) ==
    /\ RouterCall
    /\ \/ Return("INVALID") /\ UNCHANGED vars
       \/ ~alive /\ Return("CLOSED") /\ UNCHANGED vars
       \/ alive /\ Return("ERROR") /\ UNCHANGED vars
       \/ /\ alive
          /\ IF fn = "set_parent" THEN SetParent ELSE SetNested
          /\ Returned
    /\ UNCHANGED <<table, destroyed, ctxCVars, clientVars>>

RouterPollBegin ==
    /\ RouterCall
    /\ \/ /\ PollBegin
          /\ Silent
       \/ /\ Idle /\ ~alive
          /\ Return("OK")
          /\ UNCHANGED vars
    /\ UNCHANGED <<table, destroyed, ctxCVars, clientVars>>

(* The wrapper that zmqae_router_on() registered: it looks its effect up    *)
(* again, and when it is still there makes a c_ctx and calls the C handler. *)
InWrapper == mainPc = "handler" /\ handle[Current] = None

WrapperCalls ==
    /\ InWrapper
    /\ IF EffectOf[Current] \in table
       THEN HandlerKeep /\ handle' = [handle EXCEPT ![Current] = "held"]
       ELSE HandlerReturn /\ UNCHANGED handle
    /\ UNCHANGED <<table, destroyed, call, calls, oks, clientVars>>
    /\ Silent

CHandlerReturns ==
    /\ InCHandler /\ call[Main] = NoCall
    /\ HandlerReturn
    /\ UNCHANGED <<table, destroyed, ctxCVars, clientVars>>
    /\ Silent

RouterPollStep ==
    /\ \/ DispatchHandler \/ DispatchForward \/ DispatchNone
       \/ DispatchEnd \/ NestedPollEnd
       \/ \E p \in Performs : ParentFinal(p) \/ ParentChunk(p)
    /\ UNCHANGED <<table, destroyed, ctxCVars, clientVars>>
    /\ Silent

RouterPollEnd ==
    /\ PollEnd
    /\ Return("OK")
    /\ UNCHANGED <<table, destroyed, ctxCVars, clientVars>>

RouterClose ==
    /\ RouterCall
    /\ \/ CloseBegin /\ Silent
       \/ ~alive /\ Return("OK") /\ UNCHANGED vars
    /\ UNCHANGED <<table, destroyed, ctxCVars, clientVars>>

RouterCloseState ==
    /\ CloseState /\ Silent
    /\ UNCHANGED <<table, destroyed, ctxCVars, clientVars>>

RouterClientGoes ==
    /\ ClientGoes /\ Returned
    /\ UNCHANGED <<table, destroyed, ctxCVars, clientVars>>

(* The destructor of the router closes it first; contexts outlive it.       *)
RouterDestroy ==
    /\ RouterCall /\ Idle /\ ~alive
    /\ destroyed' = TRUE /\ table' = {}
    /\ UNCHANGED <<vars, ctxCVars, clientVars>>
    /\ Silent

-----------------------------------------------------------------------------
(* The functions on a context.                                              *)

CtxCall(t, p, fn) ==
    /\ MayCall(t)
    /\ handle[p] = "held"
    /\ calls[t] < MaxCalls
    /\ calls' = [calls EXCEPT ![t] = @ + 1]
    /\ IF fn \in CheckedFns /\ p \in resumed
       THEN Return("ALREADY") /\ UNCHANGED call
       ELSE Silent /\ call' = [call EXCEPT ![t] = [fn |-> fn, ctx |-> p]]
    /\ UNCHANGED <<routerVars, handle, oks, clientVars>>

Leaves(t) == call' = [call EXCEPT ![t] = NoCall]

(* A value that is no JSON is refused before the context is touched.        *)
Refused_AfterClaim(p) == resumed' = resumed \cup {p} \* mutant: parsed too late
Refused(p) == resumed' = resumed

CtxRefuse(t) ==
    /\ call[t] # NoCall /\ call[t].fn # "error"
    /\ Refused(call[t].ctx)
    /\ Return("ERROR")
    /\ Leaves(t)
    /\ UNCHANGED <<alive, mainPc, ret, items, at, client, regVars, running,
                   sendQueue, recvQueue, zpc, owners, lost, inbox, arrived, out,
                   owed, table, destroyed, handle, calls, oks, clientVars>>

(* The call: when another thread resumed the context since the check, it    *)
(* does nothing, and OK is what the caller is told all the same.            *)
CtxAct(t) ==
    /\ call[t] # NoCall
    /\ LET p == call[t].ctx IN
       /\ IF call[t].fn \in FinalFns THEN Finish(p)
          ELSE /\ sendQueue' = IF p \in resumed THEN sendQueue
                                               ELSE Append(sendQueue, Chunk(p))
               /\ UNCHANGED resumed
       /\ oks' = [oks EXCEPT ![p] = IF call[t].fn \in FinalFns /\ @ < 2
                                     THEN @ + 1 ELSE @]
    /\ Return("OK")
    /\ Leaves(t)
    /\ UNCHANGED <<alive, mainPc, ret, items, at, client, regVars, running,
                   recvQueue, zpc, owners, lost, inbox, arrived, out, owed,
                   table, destroyed, handle, calls, clientVars>>

(* error() with a text that is not UTF-8: resumed_ is set when serialising  *)
(* it throws.                                                               *)
CtxErrorFails(t) ==
    /\ call[t] # NoCall /\ call[t].fn = "error"
    /\ call[t].ctx \notin resumed
    /\ resumed' = resumed \cup {call[t].ctx}
    /\ lost'    = lost \cup {call[t].ctx}
    /\ Return("ERROR")
    /\ Leaves(t)
    /\ UNCHANGED <<alive, mainPc, ret, items, at, client, regVars, running,
                   sendQueue, recvQueue, zpc, owners, inbox, arrived, out, owed,
                   table, destroyed, handle, calls, oks, clientVars>>

(* A program releases a context once, and not under a call on it.           *)
ReleaseImpl_Leaks(p) == UNCHANGED vars      \* mutant: the shared_ptr stays
ReleaseImpl(p) == LateDrop(p, "thread")

CtxRelease(t, p) ==
    /\ MayCall(t)
    /\ handle[p] = "held"
    /\ \A u \in Threads : call[u].ctx # p
    /\ handle' = [handle EXCEPT ![p] = "released"]
    /\ ReleaseImpl(p)
    /\ UNCHANGED <<table, destroyed, call, calls, oks, clientVars>>
    /\ Silent

-----------------------------------------------------------------------------
OtherStep ==
    /\ ZNext \/ \E p \in Performs : ClientSends(p)
    /\ UNCHANGED <<table, destroyed, ctxCVars, clientVars>>
    /\ Silent

ClientFunctions == ClientPoll \/ ClientClose \/ \E c \in Calls : ClientPerform(c)

RouterFunctions ==
    \/ \E e \in Effects : RouterOn(e) \/ RouterOff(e)
    \/ \E fn \in {"set_parent", "set_nested_endpoint"} : RouterSet(fn)
    \/ RouterClose \/ RouterCloseState \/ RouterClientGoes \/ RouterDestroy

Polling ==
    \/ RouterPollBegin \/ RouterPollStep \/ RouterPollEnd
    \/ WrapperCalls \/ CHandlerReturns

CtxStep(t) == mainPc # "crashed" /\ (CtxRefuse(t) \/ CtxAct(t) \/ CtxErrorFails(t))

CNext ==
    \/ ClientFunctions \/ RouterFunctions \/ Polling
    \/ \E t \in Threads :
          \/ NullHandle(t) \/ NewFails(t)
          \/ CtxStep(t)
          \/ \E p \in Performs : \/ CtxRelease(t, p)
                                \/ \E fn \in Fns : CtxCall(t, p, fn)
    \/ OtherStep
    \/ Crashed /\ UNCHANGED allVars

CSpec == CInit /\ [][CNext]_allVars
-----------------------------------------------------------------------------
(* Properties.                                                              *)

(* The variables of the router and of the C layer are of their types.       *)
CTypeOK ==
    /\ TypeOK
    /\ table \subseteq Effects /\ destroyed \in BOOLEAN
    /\ handle \in [Performs -> {None, "held", "released"}]
    /\ call \in [Threads -> {NoCall} \cup [fn : Fns, ctx : Performs]]
    /\ calls \in [Threads -> 0..MaxCalls]
    /\ told \in Codes \cup {None}
    /\ oks \in [Performs -> 0..2]
    /\ open \in BOOLEAN

(* What the program was told is what became of the perform.  After a final  *)
(* call that was told OK there is one final frame; and while the program    *)
(* holds a context nobody answers for it but a call that was told OK: no    *)
(* call that was refused, and nothing that polls, closes or destroys the    *)
(* router.  The frame error() could not serialise is the exception, also    *)
(* for a call that is told OK after it.                                     *)
ToldWhatHappened ==
    \A p \in Performs :
        /\ oks[p] > 0 => FinalsOf(p) = 1 \/ p \in lost
        /\ handle[p] = "held" /\ p \in resumed => oks[p] > 0 \/ p \in lost

(* A context that the program has released is answered, or poll() still     *)
(* holds it and answers when it returns: what the program lets go of        *)
(* unanswered is not left to anybody who may forget it.                     *)
ReleasedIsAnswered ==
    \A p \in Performs :
        handle[p] = "released" => p \in resumed \/ "items" \in owners[p]

(* The second zmqae_ctx_resume() on a context is told ZMQAE_ALREADY.        *)
SecondToldAlready == \A p \in Performs : oks[p] <= 1

(* The two tables agree while the router is open, so the wrapper finds the  *)
(* C handler whenever the router calls it.                                  *)
TablesAgree == /\ alive => table = handlers
               /\ InWrapper => EffectOf[Current] \in table
=============================================================================
