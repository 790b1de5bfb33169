------------------------------- MODULE Router -------------------------------
(***************************************************************************)
(* The router of include/zmqae/router.hpp: the application's thread, which *)
(* registers handlers, polls, runs the handlers and closes; the ZMQ thread,*)
(* which owns the ROUTER socket and makes a perform_context of every       *)
(* perform that parses; the handlers' own threads, which may keep a        *)
(* context and answer later; the nested client, on which handlers perform   *)
(* effects of their own; and the parent router, reached through a client,  *)
(* to which performs nobody handles are forwarded.                         *)
(*                                                                         *)
(* A context lives as long as somebody holds a shared_ptr to it.  Its      *)
(* owners are the receive queue, the vector poll() drained into, a         *)
(* handler's thread and the callbacks waiting in the nested and the parent *)
(* client.  A callback is stranded when its client has lost its answer, or *)
(* when its client stayed behind in a router that was moved.  When the     *)
(* last owner lets go the destructor answers for a context nobody resumed. *)
(* A call on a context is one step here; PerformContext looks inside it.   *)
(***************************************************************************)
EXTENDS Naturals, Sequences, FiniteSets, SequencesExt, Queues

CONSTANTS
    Performs,        \* the performs clients send
    Malformed,       \* those whose message parse_perform rejects
    Effects,         \* effect names
    EffectOf,        \* the effect of each perform
    Generated,       \* the id of an answer to a message that did not parse
    MaxChunks,       \* bound: chunks sent for each perform
    MayFail,         \* serialising a value may throw, and so may a callback
    MayMove,         \* the application may move the router
    Reentrant,       \* handlers may call close(), set_parent() and so on
    Uses             \* what the application sets up on the router

ASSUME ConstantsAssumption ==
    /\ Malformed \subseteq Performs
    /\ EffectOf \in [Performs -> Effects]
    /\ Generated \notin Performs
    /\ MaxChunks \in Nat
    /\ MayFail \in BOOLEAN /\ MayMove \in BOOLEAN /\ Reentrant \in BOOLEAN
    /\ Uses \subseteq {"handlers", "unregistered", "parent", "nested"}

VARIABLES
    \* the router object and the stack of the application's thread
    alive,           \* state_ is not null
    mainPc,          \* where the application's thread is
    ret,             \* where close() or set_parent() and so on return to
    items, at,       \* what poll() drained, and the entry it is at
    client,          \* the nested client, for the handler that runs
    handlers,        \* the effects with a handler
    unregistered,    \* there is a handler for the others
    parent,          \* there is a parent client
    nested,          \* there is a nested client
    \* shared with the ZMQ thread and the handlers' threads
    running, sendQueue, recvQueue, zpc,
    \* the contexts
    owners,          \* who holds each context
    resumed,         \* the contexts whose resumed_ is set
    lost,            \* history: resumed, but the frame could not be made
    \* the socket
    inbox,           \* messages waiting in the ROUTER socket
    arrived,         \* the performs clients have sent
    out,             \* frames handed to the socket
    owed             \* history: frames queued when close() was called

ctxVars == <<owners, resumed, lost>>
regVars == <<handlers, unregistered, parent, nested>>
vars == <<alive, mainPc, ret, items, at, client, regVars, running, sendQueue,
          recvQueue, zpc, ctxVars, inbox, arrived, out, owed>>

Owners == {"queue", "items", "thread", "parent", "nested", "stranded", "moved"}
Final(p) == [id |-> p, kind |-> "final"]
Chunk(p) == [id |-> p, kind |-> "chunk"]
Frames   == [id : Performs \cup {Generated}, kind : {"final", "chunk"}]

Init ==
    /\ alive = TRUE /\ running = TRUE
    /\ mainPc = "app" /\ ret = "app"
    /\ items = <<>> /\ at = 1 /\ client = "null"
    /\ handlers = {} /\ unregistered = FALSE /\ parent = FALSE /\ nested = FALSE
    /\ sendQueue = <<>> /\ recvQueue = <<>> /\ zpc = "check"
    /\ owners = [p \in Performs |-> {}] /\ resumed = {} /\ lost = {}
    /\ inbox = <<>> /\ arrived = {} /\ out = <<>> /\ owed = {}

-----------------------------------------------------------------------------
(* Contexts.  Each operator says what becomes of owners, resumed and the    *)
(* send queue.                                                              *)

(* resume(final) or error() on a context.                                   *)
Finish_Twice(p) ==                            \* mutant: resumed_ not consulted
    /\ resumed'   = resumed \cup {p}
    /\ sendQueue' = Append(sendQueue, Final(p))
Finish(p) ==
    /\ resumed'   = resumed \cup {p}
    /\ sendQueue' = IF p \in resumed THEN sendQueue ELSE Append(sendQueue, Final(p))

(* The contexts in ps lose the owners in who; the destructor answers for    *)
(* those that had no other and were not resumed.                            *)
Dropped_Silent(ps, who) == {}                 \* mutant: no answer when dropped
Dropped(ps, who) == {p \in ps \ resumed : owners[p] # {} /\ owners[p] \subseteq who}

LetGo(ps, who) ==
    /\ owners'    = [p \in Performs |-> IF p \in ps THEN owners[p] \ who
                                                    ELSE owners[p]]
    /\ resumed'   = resumed \cup Dropped(ps, who)
    /\ sendQueue' = sendQueue \o SetToSeq({Final(p) : p \in Dropped(ps, who)})

Held(who) == {p \in Performs : who \in owners[p]}

-----------------------------------------------------------------------------
(* The application's thread, outside poll(): registration and the parent.   *)

Idle == mainPc = "app"

On(e)          == handlers' = handlers \cup {e} /\ UNCHANGED unregistered
Off(e)         == handlers' = handlers \ {e} /\ UNCHANGED unregistered
ClearHandlers  == handlers' = {} /\ UNCHANGED unregistered
OnUnregistered == unregistered' = TRUE /\ UNCHANGED handlers

Register ==
    /\ Idle
    /\ \/ "handlers" \in Uses /\ \E e \in Effects : On(e) \/ Off(e)
       \/ "handlers" \in Uses /\ ClearHandlers
       \/ "unregistered" \in Uses /\ OnUnregistered
    /\ UNCHANGED <<alive, mainPc, ret, items, at, client, parent, nested,
                   running, sendQueue, recvQueue, zpc, ctxVars, inbox,
                   arrived, out, owed>>

(* A new client replaces the old one, and clear_parent() removes it: either *)
(* way the old client goes, and with it the callbacks that hold contexts.   *)
(* Its destructor closes it, and may wait for its ZMQ thread: ParentGoes    *)
(* and NestedGoes, with close().                                            *)
Configuring == Idle \/ (mainPc = "handler" /\ Reentrant)

Waits(old, pc) == IF old THEN mainPc' = pc /\ ret' = mainPc
                         ELSE UNCHANGED <<mainPc, ret>>

ReplaceParent(new) ==
    /\ Configuring /\ "parent" \in Uses
    /\ parent' = new
    /\ Waits(parent, "dropParent")
    /\ UNCHANGED <<alive, items, at, client, handlers, unregistered, nested,
                   running, sendQueue, recvQueue, zpc, ctxVars, inbox,
                   arrived, out, owed>>

SetParent   == ReplaceParent(TRUE)
ClearParent == ReplaceParent(FALSE)

SetNested ==
    /\ Configuring /\ "nested" \in Uses
    /\ nested' = TRUE
    /\ Waits(nested, "dropNested")
    /\ UNCHANGED <<alive, items, at, client, handlers, unregistered, parent,
                   running, sendQueue, recvQueue, zpc, ctxVars, inbox,
                   arrived, out, owed>>

(* The move constructor leaves the nested client in the router moved from,  *)
(* which nobody polls: the callbacks it holds wait for its destructor.      *)
Move ==
    /\ MayMove
    /\ Idle /\ alive
    /\ nested' = FALSE
    /\ owners' = [p \in Performs |->
                     IF owners[p] \cap {"nested", "stranded"} = {} THEN owners[p]
                     ELSE (owners[p] \ {"nested", "stranded"}) \cup {"moved"}]
    /\ UNCHANGED <<alive, mainPc, ret, items, at, client, handlers,
                   unregistered, parent, running, sendQueue, recvQueue, zpc,
                   resumed, lost, inbox, arrived, out, owed>>

DestroyMoved ==
    /\ Held("moved") # {}
    /\ mainPc # "crashed"
    /\ LetGo(Performs, {"moved"})
    /\ UNCHANGED <<alive, mainPc, ret, items, at, client, regVars, running,
                   recvQueue, zpc, lost, inbox, arrived, out, owed>>

-----------------------------------------------------------------------------
(* The application's thread: poll().                                        *)

QueueAfterDrain_Copied == recvQueue         \* mutant: the queue is copied, not moved
QueueAfterDrain == <<>>

PollBegin ==
    /\ Idle
    /\ alive /\ running
    /\ mainPc'    = "dispatch"
    /\ items'     = recvQueue
    /\ at'        = 1
    /\ recvQueue' = QueueAfterDrain
    /\ owners'    = [p \in Performs |-> IF "queue" \in owners[p]
                                        THEN (owners[p] \ {"queue"}) \cup {"items"}
                                        ELSE owners[p]]
    /\ UNCHANGED <<alive, ret, client, regVars, running, sendQueue, zpc,
                   resumed, lost, inbox, arrived, out, owed>>

Current == items[at]
AtItem  == mainPc = "dispatch" /\ at <= Len(items)
Handled == EffectOf[Current] \in handlers \/ unregistered

DispatchHandler ==
    /\ AtItem /\ Handled
    /\ mainPc' = "handler"
    /\ client' = IF nested THEN "live" ELSE "null"
    /\ UNCHANGED <<alive, ret, items, at, regVars, running, sendQueue,
                   recvQueue, zpc, ctxVars, inbox, arrived, out, owed>>

(* forward_to_parent(): the callback in the parent client holds the context.*)
DispatchForward ==
    /\ AtItem /\ ~Handled
    /\ parent
    /\ owners' = [owners EXCEPT ![Current] = @ \cup {"parent"}]
    /\ at' = at + 1
    /\ UNCHANGED <<alive, mainPc, ret, items, client, regVars, running,
                   sendQueue, recvQueue, zpc, resumed, lost, inbox, arrived,
                   out, owed>>

DispatchNone ==
    /\ AtItem /\ ~Handled
    /\ ~parent
    /\ Finish(Current)
    /\ at' = at + 1
    /\ UNCHANGED <<alive, mainPc, ret, items, client, regVars, running,
                   recvQueue, zpc, owners, lost, inbox, arrived, out, owed>>

(* What a handler does with its context before it returns or throws.        *)
HandlerAnswer ==
    /\ mainPc = "handler"
    /\ Finish(Current)
    /\ UNCHANGED <<alive, mainPc, ret, items, at, client, regVars, running,
                   recvQueue, zpc, owners, lost, inbox, arrived, out, owed>>

SendChunk(p) ==
    /\ p \notin resumed
    /\ Count(Chunk(p), sendQueue) + Count(Chunk(p), out) < MaxChunks
    /\ sendQueue' = Append(sendQueue, Chunk(p))

HandlerStream ==
    /\ mainPc = "handler"
    /\ SendChunk(Current)
    /\ UNCHANGED <<alive, mainPc, ret, items, at, client, regVars, running,
                   recvQueue, zpc, ctxVars, inbox, arrived, out, owed>>

HandlerKeep ==
    /\ mainPc = "handler"
    /\ owners' = [owners EXCEPT ![Current] = @ \cup {"thread"}]
    /\ UNCHANGED <<alive, mainPc, ret, items, at, client, regVars, running,
                   sendQueue, recvQueue, zpc, resumed, lost, inbox, arrived,
                   out, owed>>

(* The handler performs on the nested client that poll() gave the context;  *)
(* its callback keeps the context.                                          *)
HandlerNests ==
    /\ mainPc = "handler" /\ client = "live"
    /\ owners' = [owners EXCEPT ![Current] = @ \cup {"nested"}]
    /\ UNCHANGED <<alive, mainPc, ret, items, at, client, regVars, running,
                   sendQueue, recvQueue, zpc, resumed, lost, inbox, arrived,
                   out, owed>>

(* A handler that replaced that client, or closed the router, has a pointer *)
(* to a client that is gone: using it may crash, or do nothing.             *)
HandlerNestsGone ==
    /\ mainPc = "handler" /\ client = "gone"
    /\ mainPc' = "crashed" /\ zpc' = "terminated"
    /\ UNCHANGED <<alive, ret, items, at, client, regVars, running, sendQueue,
                   recvQueue, ctxVars, inbox, arrived, out, owed>>

Leave_SkipOne ==                                       \* mutant: off by one
    mainPc' = "dispatch" /\ at' = at + 2 /\ client' = "null"
Leave == mainPc' = "dispatch" /\ at' = at + 1 /\ client' = "null"

HandlerReturn ==
    /\ mainPc = "handler"
    /\ Leave
    /\ UNCHANGED <<alive, ret, items, regVars, running, sendQueue, recvQueue,
                   zpc, ctxVars, inbox, arrived, out, owed>>

(* dispatch_handler() catches and answers for the handler ...               *)
HandlerThrow ==
    /\ mainPc = "handler"
    /\ Finish(Current)
    /\ Leave
    /\ UNCHANGED <<alive, ret, items, regVars, running, recvQueue, zpc,
                   owners, lost, inbox, arrived, out, owed>>

(* ... except that a final resume whose value cannot be serialised has set  *)
(* resumed_ before it throws, and the catch finds nothing to do ...         *)
HandlerResumeFails ==
    /\ MayFail
    /\ mainPc = "handler"
    /\ Current \notin resumed
    /\ resumed' = resumed \cup {Current}
    /\ lost'    = lost \cup {Current}
    /\ Leave
    /\ UNCHANGED <<alive, ret, items, regVars, running, sendQueue, recvQueue,
                   zpc, owners, inbox, arrived, out, owed>>

(* ... and that a message error() cannot serialise leaves poll() as an      *)
(* exception: the drained contexts that nobody holds are dropped.           *)
CatchFails ==
    /\ MayFail
    /\ mainPc = "handler"
    /\ Current \notin resumed
    /\ LET rest == Dropped(Performs \ {Current}, {"items"}) IN
        /\ resumed'   = resumed \cup {Current} \cup rest
        /\ sendQueue' = sendQueue \o SetToSeq({Final(p) : p \in rest})
    /\ owners' = [p \in Performs |-> owners[p] \ {"items"}]
    /\ lost'   = lost \cup {Current}
    /\ mainPc' = "app" /\ items' = <<>> /\ at' = 1 /\ client' = "null"
    /\ UNCHANGED <<alive, ret, regVars, running, recvQueue, zpc, inbox,
                   arrived, out, owed>>

(* After the dispatch loop the nested client is polled, then the parent's.  *)
DispatchEnd ==
    /\ mainPc = "dispatch"
    /\ at > Len(items)
    /\ mainPc' = IF nested THEN "nestedPoll" ELSE "parentPoll"
    /\ UNCHANGED <<alive, ret, items, at, client, regVars, running, sendQueue,
                   recvQueue, zpc, ctxVars, inbox, arrived, out, owed>>

NestedPollEnd ==
    /\ mainPc = "nestedPoll"
    /\ mainPc' = "parentPoll"
    /\ UNCHANGED <<alive, ret, items, at, client, regVars, running, sendQueue,
                   recvQueue, zpc, ctxVars, inbox, arrived, out, owed>>

(* A callback of the nested client throws, or resumes with a value that     *)
(* cannot be serialised: the exception leaves both poll()s.  The answers    *)
(* the inner one had drained are lost, and strand the callbacks they were   *)
(* for; the parent is not polled.                                           *)
NestedThrow(p) ==
    /\ MayFail
    /\ mainPc = "nestedPoll"
    /\ "nested" \in owners[p]
    /\ \E stranded \in SUBSET (Held("nested") \ {p}), failed \in SUBSET ({p} \ resumed),
          ends \in SUBSET {"nested"} :
        LET who(q) == {"items"} \cup (IF q = p THEN ends ELSE {})
            gone   == {q \in Performs \ (resumed \cup failed) :
                         owners[q] # {} /\ owners[q] \subseteq who(q)}
        IN /\ owners' = [q \in Performs |->
                            IF q \in stranded
                            THEN (owners[q] \ {"items", "nested"}) \cup {"stranded"}
                            ELSE owners[q] \ who(q)]
           /\ lost'      = lost \cup failed
           /\ resumed'   = resumed \cup failed \cup gone
           /\ sendQueue' = sendQueue \o SetToSeq({Final(q) : q \in gone})
    /\ mainPc' = "app" /\ items' = <<>> /\ at' = 1
    /\ UNCHANGED <<alive, ret, client, regVars, running, recvQueue, zpc,
                   inbox, arrived, out, owed>>

(* Each result the parent client has for a forwarded perform is passed on   *)
(* as a final resume or an error, and a final result ends the callback.     *)
ParentFinal(p) ==
    /\ mainPc = "parentPoll" /\ parent
    /\ "parent" \in owners[p]
    /\ Finish(p)
    /\ owners' = [owners EXCEPT ![p] = @ \ {"parent"}]
    /\ UNCHANGED <<alive, mainPc, ret, items, at, client, regVars, running,
                   recvQueue, zpc, lost, inbox, arrived, out, owed>>

ParentChunk(p) ==
    /\ mainPc = "parentPoll" /\ parent
    /\ "parent" \in owners[p]
    /\ Finish(p)
    /\ UNCHANGED <<alive, mainPc, ret, items, at, client, regVars, running,
                   recvQueue, zpc, owners, lost, inbox, arrived, out, owed>>

(* poll() returns: the vector it drained into lets go of its contexts.      *)
PollEnd ==
    /\ mainPc = "parentPoll"
    /\ LetGo(Performs, {"items"})
    /\ mainPc' = "app" /\ items' = <<>> /\ at' = 1
    /\ UNCHANGED <<alive, ret, client, regVars, running, recvQueue, zpc, lost,
                   inbox, arrived, out, owed>>

-----------------------------------------------------------------------------
(* The application's thread: close().                                       *)

CloseBegin ==
    /\ Configuring
    /\ alive /\ running
    /\ running' = FALSE
    /\ ret' = mainPc /\ mainPc' = "join"
    /\ owed' = {sendQueue[i] : i \in DOMAIN sendQueue}
    /\ UNCHANGED <<alive, items, at, client, regVars, sendQueue, recvQueue,
                   zpc, ctxVars, inbox, arrived, out>>

(* The state goes, with the contexts still in the receive queue, then the   *)
(* handlers ...                                                             *)
CloseState ==
    /\ mainPc = "join"
    /\ zpc = "exited"
    /\ alive' = FALSE
    /\ recvQueue' = <<>>
    /\ handlers' = {} /\ unregistered' = FALSE
    /\ LetGo(Performs, {"queue"})
    /\ mainPc' = "closeNested"
    /\ UNCHANGED <<ret, items, at, client, parent, nested, running, zpc, lost,
                   inbox, arrived, out, owed>>

(* ... and the clients, each of which joins a ZMQ thread of its own.  A     *)
(* handler that called close() was itself destroyed while it runs: it may   *)
(* crash.                                                                   *)
NestedGoes ==
    /\ mainPc \in {"dropNested", "closeNested"}
    /\ LetGo(Performs, {"nested", "stranded"})
    /\ client' = IF client = "live" THEN "gone" ELSE client
    /\ IF mainPc = "dropNested" THEN mainPc' = ret /\ UNCHANGED nested
                                ELSE mainPc' = "closeParent" /\ nested' = FALSE
    /\ UNCHANGED <<alive, ret, items, at, handlers, unregistered, parent,
                   running, recvQueue, zpc, lost, inbox, arrived, out, owed>>

ParentGoes ==
    /\ mainPc \in {"dropParent", "closeParent"}
    /\ LetGo(Performs, {"parent"})
    /\ \/ mainPc' = ret
       \/ mainPc = "closeParent" /\ ret = "handler" /\ mainPc' = "crashed"
    /\ parent' = (parent /\ mainPc = "dropParent")
    /\ UNCHANGED <<alive, ret, items, at, client, handlers, unregistered,
                   nested, running, recvQueue, zpc, lost, inbox, arrived, out,
                   owed>>

ClientGoes == NestedGoes \/ ParentGoes

-----------------------------------------------------------------------------
(* The handlers' threads, and the callbacks of the nested client, which     *)
(* poll() runs: they answer, stream and let go the same way.  A callback is *)
(* let go by the final result of its perform.                               *)
Acting(who) == mainPc # "crashed" /\ (who = "nested" => mainPc = "nestedPoll")

LateAnswer(p, who) ==
    /\ Acting(who)
    /\ who \in owners[p]
    /\ p \notin resumed
    /\ Finish(p)
    /\ UNCHANGED <<alive, mainPc, ret, items, at, client, regVars, running,
                   recvQueue, zpc, owners, lost, inbox, arrived, out, owed>>

(* A final resume that cannot be serialised throws in the handler's thread, *)
(* where nothing in this code catches it.                                   *)
LateFails(p) ==
    /\ MayFail
    /\ Acting("thread")
    /\ "thread" \in owners[p]
    /\ p \notin resumed
    /\ resumed' = resumed \cup {p}
    /\ lost'    = lost \cup {p}
    /\ \/ UNCHANGED <<mainPc, zpc>>
       \/ mainPc' = "crashed" /\ zpc' = "terminated"
    /\ UNCHANGED <<alive, ret, items, at, client, regVars, running, sendQueue,
                   recvQueue, owners, inbox, arrived, out, owed>>

LateStream(p, who) ==
    /\ Acting(who)
    /\ who \in owners[p]
    /\ SendChunk(p)
    /\ UNCHANGED <<alive, mainPc, ret, items, at, client, regVars, running,
                   recvQueue, zpc, ctxVars, inbox, arrived, out, owed>>

LateDrop(p, who) ==
    /\ Acting(who)
    /\ who \in owners[p]
    /\ LetGo({p}, {who})
    /\ UNCHANGED <<alive, mainPc, ret, items, at, client, regVars, running,
                   recvQueue, zpc, lost, inbox, arrived, out, owed>>

-----------------------------------------------------------------------------
(* The ZMQ thread.  A ROUTER socket never blocks a send: it drops what has  *)
(* nowhere to go.                                                           *)

NextRound_NoFlush == IF running THEN "drain" ELSE "exited" \* mutant: no last drain
NextRound == IF running THEN "drain" ELSE "flush"

ZCheck ==
    /\ zpc = "check"
    /\ zpc' = NextRound
    /\ UNCHANGED <<alive, mainPc, ret, items, at, client, regVars, running,
                   sendQueue, recvQueue, ctxVars, inbox, arrived, out, owed>>

ZSend ==
    /\ zpc \in {"drain", "flush"}
    /\ sendQueue # <<>>
    /\ out'       = Append(out, Head(sendQueue))
    /\ sendQueue' = Tail(sendQueue)
    /\ UNCHANGED <<alive, mainPc, ret, items, at, client, regVars, running,
                   recvQueue, zpc, ctxVars, inbox, arrived, owed>>

AfterDrain_Stay == IF zpc = "drain" THEN "poll" ELSE "flush" \* mutant: never exits
AfterDrain == IF zpc = "drain" THEN "poll" ELSE "exited"

ZDrained ==
    /\ zpc \in {"drain", "flush"}
    /\ sendQueue = <<>>
    /\ zpc' = AfterDrain
    /\ UNCHANGED <<alive, mainPc, ret, items, at, client, regVars, running,
                   sendQueue, recvQueue, ctxVars, inbox, arrived, out, owed>>

ZRecv ==
    /\ zpc = "poll"
    /\ inbox # <<>>
    /\ LET p == Head(inbox) IN
        IF p \in Malformed
        THEN /\ sendQueue' = Append(sendQueue, Final(Generated))
             /\ UNCHANGED <<recvQueue, owners>>
        ELSE /\ recvQueue' = Append(recvQueue, p)
             /\ owners'    = [owners EXCEPT ![p] = {"queue"}]
             /\ UNCHANGED sendQueue
    /\ inbox' = Tail(inbox)
    /\ zpc'   = "check"
    /\ UNCHANGED <<alive, mainPc, ret, items, at, client, regVars, running,
                   resumed, lost, arrived, out, owed>>

(* A message that does not parse may be worse than wrong.  A number that no *)
(* double can hold is an exception parse_perform() does not catch, and the  *)
(* parser's text, which quotes the message, may be no UTF-8, which          *)
(* serialize_error() does not survive: the process is terminated.           *)
ZRecvThrows ==
    /\ zpc = "poll"
    /\ inbox # <<>> /\ Head(inbox) \in Malformed
    /\ mainPc' = "crashed" /\ zpc' = "terminated"
    /\ UNCHANGED <<alive, ret, items, at, client, regVars, running, sendQueue,
                   recvQueue, ctxVars, inbox, arrived, out, owed>>

ZPollTimeout ==
    /\ zpc = "poll"
    /\ inbox = <<>>
    /\ zpc' = "check"
    /\ UNCHANGED <<alive, mainPc, ret, items, at, client, regVars, running,
                   sendQueue, recvQueue, ctxVars, inbox, arrived, out, owed>>

(* A client's perform reaches the socket.                                   *)
ClientSends(p) ==
    /\ alive /\ mainPc # "crashed"
    /\ p \notin arrived
    /\ arrived' = arrived \cup {p}
    /\ inbox'   = Append(inbox, p)
    /\ UNCHANGED <<alive, mainPc, ret, items, at, client, regVars, running,
                   sendQueue, recvQueue, zpc, ctxVars, out, owed>>

-----------------------------------------------------------------------------
PollStep ==
    \/ PollBegin
    \/ DispatchHandler \/ DispatchForward \/ DispatchNone
    \/ HandlerReturn \/ HandlerThrow \/ HandlerResumeFails \/ CatchFails
    \/ DispatchEnd \/ NestedPollEnd \/ PollEnd

HandlerStep ==
    \/ HandlerAnswer \/ HandlerStream \/ HandlerKeep
    \/ HandlerNests \/ HandlerNestsGone

ZNext == ZCheck \/ ZSend \/ ZDrained \/ ZRecv \/ ZRecvThrows \/ ZPollTimeout

(* The steps of the router, its handlers and its parent, without clients'.  *)
OwnNext ==
    \/ Register \/ SetParent \/ ClearParent \/ SetNested
    \/ Move \/ DestroyMoved
    \/ PollStep \/ HandlerStep
    \/ CloseBegin \/ CloseState \/ ClientGoes
    \/ \E p \in Performs :
          \/ NestedThrow(p) \/ LateFails(p)
          \/ ParentFinal(p) \/ ParentChunk(p)
          \/ \E who \in {"thread", "nested"} :
                LateAnswer(p, who) \/ LateStream(p, who) \/ LateDrop(p, who)
    \/ ZNext

Crashed == mainPc = "crashed" /\ UNCHANGED vars

Next ==
    \/ OwnNext
    \/ \E p \in Performs : ClientSends(p)
    \/ Crashed

Spec == Init /\ [][Next]_vars

(* The application polls, however often it registers or replaces something  *)
(* between two polls; handlers return, handlers' threads let go of their    *)
(* contexts, a nested perform and a parent are answered while their clients *)
(* are polled.                                                              *)
Fairness ==
    /\ WF_vars(PollStep) /\ SF_vars(PollBegin)
    /\ WF_vars(CloseState)
    /\ WF_vars(ZNext)
    /\ \A p \in Performs :
         /\ WF_vars(LateDrop(p, "thread"))
         /\ SF_vars(LateDrop(p, "nested"))
         /\ SF_vars(ParentFinal(p))

FairSpec == Spec /\ Fairness

(* The router's clients close, which is their CloseTerminates: a premise of *)
(* what waits for them.                                                     *)
ClientsClose == WF_vars(ClientGoes)
-----------------------------------------------------------------------------
(* Properties.                                                              *)

TypeOK ==
    /\ alive \in BOOLEAN /\ running \in BOOLEAN
    /\ mainPc \in {"app", "dispatch", "handler", "nestedPoll", "parentPoll",
                   "dropNested", "dropParent", "join", "closeNested",
                   "closeParent", "crashed"}
    /\ ret \in {"app", "handler"}
    /\ items \in Seq(Performs) /\ recvQueue \in Seq(Performs)
    /\ at \in 1..(Len(items) + 1)
    /\ client \in {"null", "live", "gone"}
    /\ handlers \subseteq Effects /\ unregistered \in BOOLEAN
    /\ parent \in BOOLEAN /\ nested \in BOOLEAN
    /\ zpc \in {"check", "drain", "poll", "flush", "exited", "terminated"}
    /\ owners \in [Performs -> SUBSET Owners]
    /\ resumed \subseteq Performs /\ lost \subseteq Performs
    /\ inbox \in Seq(Performs) /\ arrived \subseteq Performs
    /\ sendQueue \in Seq(Frames) /\ out \in Seq(Frames)
    /\ owed \subseteq Frames

FinalsOf(p) == Count(Final(p), sendQueue) + Count(Final(p), out)
Received(p) == p \in arrived \ Malformed
                 /\ \A i \in DOMAIN inbox : inbox[i] # p

(* Every perform the ZMQ thread turned into a context is answered, or      *)
(* somebody who can still answer holds it: no owner is forgotten by a       *)
(* handler that throws, an exception that leaves poll(), a client that is   *)
(* replaced or left behind, or a router that closes.                        *)
NoneForgotten ==
    \A p \in Performs : Received(p) => p \in resumed \/ owners[p] # {}

(* Whoever of a context's owners and destructors answers, one final frame   *)
(* is queued.  What a serialisation failure ate is the only exception.      *)
AnsweredOnce ==
    \A p \in Performs : FinalsOf(p) = (IF p \in resumed \ lost THEN 1 ELSE 0)

(* The parent client exists, or is being destroyed.                         *)
ParentThere == parent \/ mainPc \in {"dropParent", "crashed"}

(* The queues and the owners agree: a context in the receive queue or in    *)
(* poll()'s vector is there once, and nowhere else is it owned by it; and   *)
(* callbacks hold contexts only in clients that exist.                      *)
QueuesMatchOwners ==
    \A p \in Performs :
        /\ Count(p, recvQueue) = (IF "queue" \in owners[p] THEN 1 ELSE 0)
        /\ Count(p, items) = (IF "items" \in owners[p] THEN 1 ELSE 0)
        /\ "parent" \in owners[p] => ParentThere
        /\ owners[p] \cap {"nested", "stranded"} # {} => nested

(* What was queued before close() is handed to the socket before the ZMQ    *)
(* thread exits, whatever the handlers' threads push meanwhile.             *)
OwedIsSent ==
    zpc = "exited" => \A f \in owed : \E i \in DOMAIN out : out[i] = f

(* Everything a client sent is answered under its own id, while the router  *)
(* is open and nothing crashes it: by a handler, the parent, the catch, or  *)
(* the destructor.  A client that does not close holds up the thread.       *)
AnsweredWhileOpen ==
    ClientsClose =>
        \A p \in Performs \ Malformed :
            (p \in arrived /\ running)
                ~> (Count(Final(p), out) > 0 \/ ~running \/ mainPc = "crashed")

(* close() returns, if the clients it closes do: frames that the handlers'  *)
(* threads push while it joins keep the ZMQ thread only as long as they     *)
(* come, and MaxChunks has them end.                                        *)
Closing == {"join", "closeNested", "closeParent"}
CloseTerminates == ClientsClose => (~running ~> mainPc \notin Closing)
=============================================================================
