------------------------------ MODULE CApiProofs ------------------------------
(***************************************************************************)
(* Proofs about CApi, for any finite set of performs and any threads.  The *)
(* router inside the C API takes the steps of Router, and two of its own:  *)
(* it registers handlers while a handler runs, and the functions on a      *)
(* context act on contexts its program holds.                              *)
(***************************************************************************)
EXTENDS CApi, RouterProofs

-----------------------------------------------------------------------------
(* The steps of the C API, seen from the router.                            *)

(* A step that only registers, or only answers.                             *)
LayerStep ==
    /\ FrameStep
    /\ handlers' \subseteq Effects
    /\ UNCHANGED <<alive, mainPc, ret, items, at, client, unregistered, parent,
                   nested, running, recvQueue, zpc, owners, inbox, arrived, owed>>

CallsOK == call \in [Threads -> {NoCall} \cup [fn : Fns, ctx : Performs]]

(* What a function on a context does to the frames.                         *)
LEMMA CtxStepFrames ==
    ASSUME TypeOK, CallsOK, NEW t \in Threads,
           CtxRefuse(t) \/ CtxAct(t) \/ CtxErrorFails(t)
    PROVE  LayerStep
  <1> DEFINE p == call[t].ctx
  <1>1. call[t] # NoCall
    BY DEF CtxRefuse, CtxAct, CtxErrorFails
  <1>2. p \in Performs
    BY <1>1 DEF CallsOK
  <1>3. UNCHANGED <<alive, mainPc, ret, items, at, client, handlers, unregistered,
                    parent, nested, running, recvQueue, zpc, owners, inbox, arrived, owed>>
    BY DEF CtxRefuse, CtxAct, CtxErrorFails, regVars
  <1>4. CASE CtxRefuse(t)
    <2>1. Quiet
      BY <1>4 DEF CtxRefuse, Refused, Quiet
    <2> QED
      BY <1>3, <2>1 DEF LayerStep, FrameStep, TypeOK
  <1>5. CASE CtxAct(t)
    <2>1. /\ UNCHANGED <<out, lost>>
          /\ \/ Finish(p)
             \/ /\ resumed' = resumed
                /\ sendQueue' = IF p \in resumed THEN sendQueue
                                                 ELSE Append(sendQueue, Chunk(p))
      BY <1>5 DEF CtxAct
    <2>2. CASE Finish(p)
      <3>1. Finishes(p)
        BY <1>2, <2>1, <2>2 DEF Finishes
      <3> QED
        BY <1>2, <1>3, <3>1 DEF LayerStep, FrameStep, TypeOK
    <2>3. CASE resumed' = resumed /\ sendQueue' = sendQueue
      BY <1>3, <2>1, <2>3 DEF LayerStep, FrameStep, Quiet, TypeOK
    <2>4. CASE resumed' = resumed /\ sendQueue' = Append(sendQueue, Chunk(p))
      <3>1. Chunk(p) \in Frames /\ \A q \in Performs : Chunk(p) # Final(q)
        BY <1>2 DEF Chunk, Final, Frames
      <3>2. Pushes(Chunk(p))
        BY <2>1, <2>4, <3>1 DEF Pushes
      <3> QED
        BY <1>3, <3>1, <3>2 DEF LayerStep, FrameStep, TypeOK
    <2> QED
      BY <2>1, <2>2, <2>3, <2>4
  <1>6. CASE CtxErrorFails(t)
    <2>1. Fails(p)
      BY <1>2, <1>6 DEF CtxErrorFails, Fails
    <2>2. FrameStep
      BY <2>1, FailsIsFrameStep
    <2> QED
      BY <1>3, <2>2 DEF LayerStep, TypeOK
  <1> QED
    BY <1>4, <1>5, <1>6

LEMMA RouterSteps ==
    ASSUME TypeOK, CallsOK, [CNext]_allVars
    PROVE  [Next]_vars \/ LayerStep
  <1>1. CASE UNCHANGED vars
    BY <1>1
  <1>2. ASSUME NEW e \in Effects, RouterOn(e) \/ RouterOff(e) PROVE LayerStep
    <2>1. /\ Quiet /\ handlers' \subseteq Effects
          /\ UNCHANGED <<alive, mainPc, ret, items, at, client, unregistered, parent,
                         nested, running, recvQueue, zpc, owners, inbox, arrived, owed>>
      BY <1>2 DEF RouterOn, RouterOff, On, Off, Quiet, TypeOK, ctxVars
    <2> QED
      BY <2>1 DEF LayerStep, FrameStep
  <1>3. CASE \/ RouterPollEnd \/ RouterCloseState \/ RouterClientGoes
             \/ CHandlerReturns \/ OtherStep \/ RouterPollStep
    BY <1>3 DEF RouterPollEnd, RouterCloseState, RouterClientGoes, CHandlerReturns, OtherStep,
       RouterPollStep, Next, OwnNext, PollStep
  <1>4. CASE \/ \E fn \in {"set_parent", "set_nested_endpoint"} : RouterSet(fn)
             \/ RouterClose \/ RouterPollBegin
    <2>1. SetParent \/ SetNested \/ CloseBegin \/ PollBegin \/ UNCHANGED vars
      BY <1>4 DEF RouterSet, RouterClose, RouterPollBegin
    <2> QED
      BY <2>1 DEF Next, OwnNext, PollStep
  <1>5. CASE WrapperCalls
    <2>1. HandlerKeep \/ HandlerReturn
      BY <1>5 DEF WrapperCalls
    <2> QED
      BY <2>1 DEF Next, OwnNext, PollStep, HandlerStep
  <1>6. CASE RouterDestroy \/ ClientFunctions
    BY <1>6 DEF RouterDestroy, ClientFunctions, ClientPoll, ClientClose,
       ClientPerform, routerVars
  <1>7. ASSUME NEW t \in Threads, CtxStep(t) PROVE LayerStep
    BY <1>7, CtxStepFrames DEF CtxStep
  <1>8. ASSUME NEW t \in Threads, NEW p \in Performs,
               CtxRelease(t, p)
        PROVE  [Next]_vars
    <2>1. LateDrop(p, "thread")
      BY <1>8 DEF CtxRelease, ReleaseImpl
    <2> QED
      BY <2>1 DEF Next, OwnNext
  <1>9. ASSUME NEW t \in Threads,
               \/ NullHandle(t) \/ NewFails(t)
               \/ \E p \in Performs, fn \in Fns : CtxCall(t, p, fn)
        PROVE  UNCHANGED vars
    BY <1>9 DEF NullHandle, NewFails, CtxCall, routerVars
  <1>10. CASE Crashed \/ UNCHANGED allVars
    BY <1>10 DEF Crashed, allVars, routerVars
  <1> QED
    BY <1>1, <1>2, <1>3, <1>4, <1>5, <1>6, <1>7, <1>8, <1>9, <1>10
       DEF CNext, RouterFunctions, Polling

-----------------------------------------------------------------------------
(* What is proved of the router holds of the router inside the C API.       *)

RouterInv == OnceInv /\ QueuesInv

LEMMA RouterInvStep ==
    ASSUME IsFiniteSet(Performs), RouterInv, CallsOK, [CNext]_allVars
    PROVE  RouterInv'
  <1> USE DEF RouterInv
  <1>1. TypeInv /\ TypeOK
    BY DEF OnceInv, TypeInv
  <1>2. CASE [Next]_vars
    <2>1. OnceInv'
      BY <1>2, OnceStep
    <2>2. QueuesInv'
      BY <1>1, <1>2, QueuesStep, ItemsInPollStep, HandlersClientStep DEF QueuesInv
    <2> QED
      BY <2>1, <2>2
  <1>3. CASE LayerStep
    <2>1. FrameStep
      BY <1>3 DEF LayerStep
    <2>2. AnsweredOnce' /\ lost' \subseteq resumed'
      BY <2>1, OnceFrame
    <2>3. /\ sendQueue' \in Seq(Frames) /\ out' \in Seq(Frames)
          /\ resumed' \subseteq Performs /\ lost' \subseteq Performs
      BY <1>1, <2>1, FrameTypes
    <2>4. TypeInv'
      BY <1>1, <1>3, <2>3 DEF LayerStep, TypeInv, TypeOK, HandlerAtItem, InWait
    <2>5. QueuesInv'
      BY <1>3 DEF LayerStep, QueuesInv, Unborn, Waiting, ItemsInPoll, QueuesMatchOwners,
         HandlersClient, ParentThere, InWait
    <2> QED
      BY <2>2, <2>4, <2>5 DEF OnceInv
  <1> QED
    BY <1>1, <1>2, <1>3, RouterSteps

-----------------------------------------------------------------------------
(* The C layer's own variables.                                             *)

LEMMA LayerTypes ==
    ASSUME CTypeOK, [CNext]_allVars
    PROVE  /\ table' \subseteq Effects /\ destroyed' \in BOOLEAN
           /\ handle' \in [Performs -> {None, "held", "released"}]
           /\ CallsOK' /\ calls' \in [Threads -> 0..MaxCalls]
           /\ open' \in BOOLEAN
  <1> USE DEF CTypeOK
  <1>0. CallsOK
    BY DEF CallsOK
  <1>1. table' \subseteq Effects /\ destroyed' \in BOOLEAN
    BY ZenonT(40) DEF CNext, ClientFunctions, ClientPoll, ClientClose, ClientPerform,
       RouterFunctions, RouterOn, RouterOff, OffTable, RouterSet, RouterClose,
       RouterCloseState, RouterClientGoes, RouterDestroy, Polling, RouterPollBegin, RouterPollStep,
       RouterPollEnd, WrapperCalls, CHandlerReturns, NullHandle, NewFails, CtxStep,
       CtxRefuse, CtxAct, CtxErrorFails, CtxRelease, CtxCall, OtherStep, allVars,
       routerVars
  <1>2. handle' \in [Performs -> {None, "held", "released"}]
    <2>1. \/ handle' = handle
          \/ \E p : handle' = [handle EXCEPT ![p] = "held"]
          \/ \E p : handle' = [handle EXCEPT ![p] = "released"]
      BY Zenon DEF CNext, ClientFunctions, ClientPoll, ClientClose, ClientPerform,
         RouterFunctions, RouterOn, RouterOff, RouterSet, RouterClose,
         RouterCloseState, RouterClientGoes, RouterDestroy, Polling, RouterPollBegin, RouterPollStep,
         RouterPollEnd, WrapperCalls, CHandlerReturns, NullHandle, NewFails, CtxStep,
         CtxRefuse, CtxAct, CtxErrorFails, CtxRelease, CtxCall, OtherStep, allVars,
         ctxCVars
    <2> QED
      BY <2>1
  <1>3. CallsOK'
    <2>1. \/ call' = call
          \/ \E t \in Threads, p \in Performs, fn \in Fns :
                call' = [call EXCEPT ![t] = [fn |-> fn, ctx |-> p]]
          \/ \E t \in Threads : call' = [call EXCEPT ![t] = NoCall]
      BY Zenon DEF CNext, ClientFunctions, ClientPoll, ClientClose, ClientPerform,
         RouterFunctions, RouterOn, RouterOff, RouterSet, RouterClose,
         RouterCloseState, RouterClientGoes, RouterDestroy, Polling, RouterPollBegin, RouterPollStep,
         RouterPollEnd, WrapperCalls, CHandlerReturns, NullHandle, NewFails, CtxStep,
         CtxRefuse, CtxAct, CtxErrorFails, CtxRelease, CtxCall, OtherStep, allVars,
         ctxCVars, Leaves
    <2> QED
      BY <1>0, <2>1 DEF CallsOK
  <1>4. open' \in BOOLEAN
    BY ZenonT(40) DEF CNext, ClientFunctions, ClientPoll, ClientClose, ClientPerform,
       RouterFunctions, RouterOn, RouterOff, RouterSet, RouterClose,
       RouterCloseState, RouterClientGoes, RouterDestroy, Polling, RouterPollBegin, RouterPollStep,
       RouterPollEnd, WrapperCalls, CHandlerReturns, NullHandle, NewFails, CtxStep,
       CtxRefuse, CtxAct, CtxErrorFails, CtxRelease, CtxCall, OtherStep, allVars,
       clientVars, E!Perform, E!Stream, E!Finish, E!Close
  <1>5. calls' \in [Threads -> 0..MaxCalls]
    <2>1. \/ calls' = calls
          \/ \E t \in Threads : calls[t] < MaxCalls /\ calls' = [calls EXCEPT ![t] = @ + 1]
      BY Zenon DEF CNext, ClientFunctions, ClientPoll, ClientClose, ClientPerform,
         RouterFunctions, RouterOn, RouterOff, RouterSet, RouterClose,
         RouterCloseState, RouterClientGoes, RouterDestroy, Polling, RouterPollBegin, RouterPollStep,
         RouterPollEnd, WrapperCalls, CHandlerReturns, NullHandle, NewFails, CtxStep,
         CtxRefuse, CtxAct, CtxErrorFails, CtxRelease, CtxCall, OtherStep, allVars,
         ctxCVars
    <2> QED
      BY <2>1, CConstantsAssumption
  <1> QED
    BY <1>1, <1>2, <1>3, <1>4, <1>5

-----------------------------------------------------------------------------
(* Return codes.                                                            *)

LEMMA CodeStep ==
    ASSUME CTypeOK, [CNext]_allVars
    PROVE  told' \in Codes \cup {None} /\ oks' \in [Performs -> 0..2]
  <1> USE DEF CTypeOK
  <1>1. \/ Silent \/ \E code \in Codes : Return(code)
        \/ UNCHANGED allVars
    BY DEF CNext, ClientFunctions, ClientPoll, ClientClose, ClientPerform,
       RouterFunctions, RouterOn, RouterOff, RouterSet, RouterClose, Returned,
       RouterCloseState, RouterClientGoes, RouterDestroy, Polling, RouterPollBegin,
       RouterPollStep, RouterPollEnd, WrapperCalls, CHandlerReturns, NullHandle,
       NewFails, CtxStep, CtxRefuse, CtxAct, CtxErrorFails, CtxCall, CtxRelease,
       OtherStep, Codes
  <1>2. \/ oks' = oks
        \/ \E t \in Threads : \E p :
              oks' = [oks EXCEPT ![p] = IF call[t].fn \in FinalFns /\ @ < 2
                                        THEN @ + 1 ELSE @]
    BY Zenon DEF CNext, ClientFunctions, ClientPoll, ClientClose, ClientPerform,
       RouterFunctions, RouterOn, RouterOff, RouterSet, RouterClose,
       RouterCloseState, RouterClientGoes, RouterDestroy, Polling, RouterPollBegin,
       RouterPollStep, RouterPollEnd, WrapperCalls, CHandlerReturns, NullHandle,
       NewFails, CtxStep, CtxRefuse, CtxAct, CtxErrorFails, CtxCall, CtxRelease,
       OtherStep, allVars, ctxCVars
  <1>3. told' \in Codes \cup {None}
    BY <1>1 DEF Silent, Return, allVars
  <1>4. oks' \in [Performs -> 0..2]
    BY <1>2
  <1> QED
    BY <1>3, <1>4

-----------------------------------------------------------------------------
(* The tables.  Closing empties the router's and leaves the C layer's, so   *)
(* what is always so is that the router knows no effect the C layer has     *)
(* forgotten, until the C layer is destroyed, which waits for poll() to     *)
(* return.  A close() or a set_parent() under a handler is called by a C    *)
(* handler, whose c_ctx is made: when it returns the wrapper is past the    *)
(* lookup.                                                                  *)

TablesInv ==
    /\ ~unregistered
    /\ alive => table = handlers
    /\ ~destroyed => handlers \subseteq table
    /\ destroyed => ~alive /\ mainPc \in {"app", "crashed"}
    /\ InWrapper => EffectOf[Current] \in table
    /\ InWait /\ ret = "handler" => handle[Current] # None

LEMMA TablesStep ==
    ASSUME CTypeOK, TypeInv, TablesInv, [CNext]_allVars
    PROVE  TablesInv'
  <1> USE DEF TablesInv, InWrapper, InWait
  <1>1. ASSUME UNCHANGED <<unregistered, alive, handlers, table, destroyed, mainPc,
                           ret, items, at>>,
               \A p \in Performs : handle[p] # None => handle'[p] # None
        PROVE  TablesInv'
    <2>1. mainPc = "handler" \/ (InWait /\ ret = "handler") => Current \in Performs
      BY CurrentIsPerform DEF TypeInv, HandlerAtItem
    <2>2. Current' = Current
      BY <1>1 DEF Current
    <2> QED
      BY <1>1, <2>1, <2>2
  <1>19. CASE OtherStep /\ ZRecvThrows
    <2>1. /\ mainPc' = "crashed"
          /\ UNCHANGED <<unregistered, alive, handlers, table, destroyed>>
      BY <1>19 DEF OtherStep, ZRecvThrows, regVars
    <2> QED
      BY <2>1
  <1>2. CASE \/ ClientFunctions \/ (OtherStep /\ ~ZRecvThrows)
             \/ (\E t \in Threads :
                    \/ NullHandle(t) \/ NewFails(t) \/ CtxStep(t)
                    \/ \E p \in Performs, fn \in Fns : CtxCall(t, p, fn))
             \/ UNCHANGED <<vars, table, destroyed, handle>>
    <2>1. UNCHANGED <<unregistered, alive, handlers, table, destroyed, mainPc,
                      ret, items, at, handle>>
      BY <1>2 DEF ClientFunctions, ClientPoll, ClientClose, ClientPerform, OtherStep,
         ZNext, ZCheck, ZSend, ZDrained, ZRecv, ZPollTimeout, ClientSends, NullHandle,
         NewFails, CtxStep, CtxRefuse, CtxAct, CtxErrorFails, CtxCall, routerVars,
         vars, regVars, ctxCVars
    <2> QED
      BY <1>1, <2>1
  <1>3. ASSUME NEW t \in Threads, NEW p \in Performs, CtxRelease(t, p) PROVE TablesInv'
    <2>1. /\ UNCHANGED <<unregistered, alive, handlers, table, destroyed, mainPc,
                         ret, items, at>>
          /\ handle' = [handle EXCEPT ![p] = "released"]
      BY <1>3 DEF CtxRelease, ReleaseImpl, LateDrop, regVars
    <2> QED
      BY <1>1, <2>1 DEF None, CTypeOK
  <1>4. ASSUME NEW e \in Effects, RouterOn(e) \/ RouterOff(e) PROVE TablesInv'
    <2>1. /\ ~destroyed /\ UNCHANGED <<unregistered, alive, destroyed, mainPc, ret,
                                       items, at, handle>>
          /\ \/ table' = table \cup {e} /\ handlers' = handlers \cup {e}
             \/ table' = table \ {e} /\ handlers' = handlers \ {e}
      BY <1>4 DEF RouterOn, RouterOff, OffTable, On, Off, RouterCall, ctxCVars
    <2>2. ~InWait /\ ~InWrapper
      BY <1>4 DEF RouterOn, RouterOff, RouterCall, MainMay, Idle, InCHandler
    <2>3. Current' = Current
      BY <2>1 DEF Current
    <2> QED
      BY <2>1, <2>2, <2>3
  <1>5. ASSUME PollBegin \/ PollEnd, UNCHANGED <<table, destroyed, handle>>,
               destroyed => FALSE
        PROVE  TablesInv'
    <2>1. /\ mainPc' \in {"dispatch", "app"}
          /\ UNCHANGED <<unregistered, alive, handlers>>
      BY <1>5 DEF PollBegin, PollEnd, regVars
    <2> QED
      BY <1>5, <2>1
  <1>6. CASE RouterPollBegin
    <2>1. CASE PollBegin
      BY <1>5, <1>6, <2>1 DEF RouterPollBegin, RouterCall, ctxCVars
    <2>2. CASE UNCHANGED vars
      BY <1>2, <1>6, <2>2 DEF RouterPollBegin, ctxCVars
    <2> QED
      BY <1>6, <2>1, <2>2 DEF RouterPollBegin
  <1>7. CASE RouterPollEnd
    <2>1. mainPc = "parentPoll"
      BY <1>7 DEF RouterPollEnd, PollEnd
    <2> QED
      BY <1>5, <1>7, <2>1 DEF RouterPollEnd, ctxCVars
  <1>8. CASE DispatchHandler /\ RouterPollStep
    <2>1. /\ mainPc = "dispatch" /\ Handled
          /\ UNCHANGED <<unregistered, alive, handlers, table, destroyed, items, at,
                         handle>>
          /\ mainPc' = "handler"
      BY <1>8 DEF DispatchHandler, RouterPollStep, AtItem, regVars, ctxCVars
    <2>2. EffectOf[Current] \in table /\ Current' = Current
      BY <2>1 DEF Handled, Current
    <2> QED
      BY <2>1, <2>2
  <1>9. CASE \/ (DispatchForward \/ DispatchNone \/ DispatchEnd \/ NestedPollEnd)
                   /\ RouterPollStep
             \/ CHandlerReturns
             \/ WrapperCalls /\ HandlerReturn
    <2>1. /\ mainPc \in {"dispatch", "nestedPoll", "handler"}
          /\ mainPc' \in {"dispatch", "nestedPoll", "parentPoll"}
          /\ UNCHANGED <<unregistered, alive, handlers, table, destroyed>>
      BY <1>9 DEF DispatchForward, DispatchNone, DispatchEnd, NestedPollEnd,
         RouterPollStep, AtItem, CHandlerReturns, WrapperCalls, HandlerReturn, Leave,
         regVars
    <2> QED
      BY <2>1
  <1>10. CASE RouterPollStep /\ \E p \in Performs : ParentFinal(p) \/ ParentChunk(p)
    <2>1. UNCHANGED <<unregistered, alive, handlers, table, destroyed, mainPc,
                      ret, items, at, handle>>
      BY <1>10 DEF RouterPollStep, ParentFinal, ParentChunk, regVars, ctxCVars
    <2> QED
      BY <1>1, <2>1
  <1>11. CASE WrapperCalls /\ HandlerKeep
    <2>1. Current \in Performs
      BY <1>11, CurrentIsPerform DEF HandlerKeep, TypeInv, HandlerAtItem
    <2>2. /\ mainPc = "handler" /\ mainPc' = "handler"
          /\ UNCHANGED <<unregistered, alive, handlers, table, destroyed, ret, items, at>>
          /\ \/ handle' = [handle EXCEPT ![Current] = "held"]
             \/ handle' = handle
      BY <1>11 DEF WrapperCalls, HandlerKeep, regVars
    <2>3. \A p \in Performs : handle[p] # None => handle'[p] # None
      BY <2>1, <2>2 DEF CTypeOK, None
    <2> QED
      BY <1>1, <2>2, <2>3
  <1>12. CASE RouterClose \/ \E fn \in {"set_parent", "set_nested_endpoint"} : RouterSet(fn)
    <2>1. CASE CloseBegin \/ SetParent \/ SetNested
      <3>1. /\ (ret' = mainPc /\ InWait') \/ UNCHANGED <<mainPc, ret>>
            /\ UNCHANGED <<unregistered, alive, handlers, table, destroyed, items, at,
                           handle>>
        BY <1>12, <2>1 DEF RouterClose, RouterSet, CloseBegin, SetParent, ReplaceParent,
           SetNested, Waits, regVars, ctxCVars
      <3>2. ~destroyed /\ mainPc \in {"app", "handler"}
            /\ (mainPc = "handler" => handle[Current] # None)
        BY <1>12 DEF RouterClose, RouterSet, RouterCall, MainMay, Idle, InCHandler
      <3>3. Current' = Current
        BY <3>1 DEF Current
      <3> QED
        BY <3>1, <3>2, <3>3
    <2>2. CASE UNCHANGED vars
      BY <1>2, <1>12, <2>2 DEF RouterClose, RouterSet, ctxCVars
    <2> QED
      BY <1>12, <2>1, <2>2 DEF RouterClose, RouterSet
  <1>13. CASE RouterCloseState
    <2>1. /\ mainPc = "join" /\ alive' = FALSE
          /\ handlers' = {} /\ unregistered' = FALSE /\ mainPc' = "closeNested"
          /\ UNCHANGED <<table, destroyed, ret, items, at, handle>>
      BY <1>13 DEF RouterCloseState, CloseState, ctxCVars
    <2>2. Current' = Current
      BY <2>1 DEF Current
    <2> QED
      BY <2>1, <2>2
  <1>18. CASE RouterClientGoes
    <2>1. /\ InWait /\ mainPc' \in {ret, "closeParent", "crashed"}
          /\ UNCHANGED <<unregistered, alive, handlers, table, destroyed, ret, items,
                         at, handle>>
      BY <1>18 DEF RouterClientGoes, ClientGoes, NestedGoes, ParentGoes, ctxCVars
    <2>2. Current' = Current /\ ret \in {"app", "handler"}
      BY <2>1 DEF Current, CTypeOK, TypeOK
    <2> QED
      BY <2>1, <2>2
  <1>14. CASE RouterDestroy
    <2>1. /\ destroyed' = TRUE /\ table' = {} /\ mainPc = "app" /\ ~alive
          /\ UNCHANGED vars
      BY <1>14 DEF RouterDestroy, Idle
    <2> QED
      BY <2>1 DEF vars, regVars
  <1>15. CASE (Crashed /\ UNCHANGED allVars) \/ UNCHANGED allVars
    BY <1>2, <1>15 DEF allVars, routerVars, ctxCVars
  <1>16. WrapperCalls => (WrapperCalls /\ HandlerKeep) \/ (WrapperCalls /\ HandlerReturn)
    BY DEF WrapperCalls
  <1>17. RouterPollStep =>
            \/ DispatchHandler /\ RouterPollStep
            \/ (DispatchForward \/ DispatchNone \/ DispatchEnd \/ NestedPollEnd)
                  /\ RouterPollStep
            \/ RouterPollStep /\ \E p \in Performs : ParentFinal(p) \/ ParentChunk(p)
    BY DEF RouterPollStep
  <1> QED
    BY <1>2, <1>3, <1>4, <1>6, <1>7, <1>8, <1>9, <1>10, <1>11, <1>12, <1>13, <1>14,
       <1>15, <1>16, <1>17, <1>18, <1>19 DEF CNext, RouterFunctions, Polling

-----------------------------------------------------------------------------
(* Who holds what.  Until poll() reaches a context nobody but the queue, or *)
(* poll()'s vector, holds it, it has no c_ctx and is not resumed.  A context*)
(* that was given a c_ctx is held by the program, until it releases it, and *)
(* by the vector, until poll() returns, and never by a callback of the      *)
(* parent's client: so whoever of the two lets go last finds it answered,   *)
(* or answers for it.                                                       *)

Ahead(p) ==
    \E i \in 1..Len(items) :
        /\ items[i] = p
        /\ i > at \/ (i = at /\ (mainPc = "dispatch" \/ InWrapper))

Fresh(p) == handle[p] = None /\ p \notin resumed

HoldersOf(p) ==
    /\ owners[p] \subseteq {"queue", "items", "thread", "parent"}
    /\ Waiting(p) = 1 \/ "queue" \in owners[p] \/ Ahead(p) => Fresh(p)
    /\ "queue" \in owners[p] => owners[p] = {"queue"}
    /\ Ahead(p) => owners[p] = {"items"}
    /\ "thread" \in owners[p] <=> handle[p] = "held"
    /\ handle[p] # None => owners[p] \subseteq {"items", "thread"}
    /\ handle[p] = "released" => p \in resumed \/ "items" \in owners[p]
    /\ handle[p] = "held" /\ p \in resumed => oks[p] > 0 \/ p \in lost
    /\ oks[p] > 0 => p \in resumed

CallsHeld == \A t \in Threads : call[t] # NoCall => handle[call[t].ctx] = "held"

Holders == (\A p \in Performs : HoldersOf(p)) /\ CallsHeld

(* A perform a step does nothing to.                                        *)
Stays(p) ==
    /\ owners'[p] = owners[p] /\ handle'[p] = handle[p] /\ oks'[p] = oks[p]
    /\ p \in resumed' <=> p \in resumed
    /\ p \in lost => p \in lost'
    /\ Waiting(p)' = 1 => Waiting(p) = 1
    /\ Ahead(p)' => Ahead(p)

LEMMA StaysHolds ==
    ASSUME NEW p \in Performs, HoldersOf(p), Stays(p)
    PROVE  HoldersOf(p)'
  BY DEF HoldersOf, Stays, Fresh

(* Where poll() is in its vector.                                           *)
LEMMA AheadKept ==
    ASSUME NEW p, TypeOK, items' = items,
           \/ at' = at + 1
           \/ /\ at' = at
              /\ mainPc' = "dispatch" \/ InWrapper' => mainPc = "dispatch" \/ InWrapper
    PROVE  Ahead(p)' => Ahead(p)
  <1> SUFFICES ASSUME Ahead(p)' PROVE Ahead(p)
    OBVIOUS
  <1>1. PICK i \in 1..Len(items) :
           /\ items[i] = p
           /\ i > at' \/ (i = at' /\ (mainPc' = "dispatch" \/ InWrapper'))
    BY DEF Ahead
  <1>2. at \in Nat /\ Len(items) \in Nat
    BY LenProperties DEF TypeOK
  <1>3. i > at \/ (i = at /\ (mainPc = "dispatch" \/ InWrapper))
    BY <1>1, <1>2
  <1> QED
    BY <1>1, <1>3 DEF Ahead

(* An entry of the vector is there once.                                    *)
LEMMA OnceAt ==
    ASSUME NEW S, NEW s \in Seq(S), NEW i \in 1..Len(s), NEW j \in 1..Len(s),
           s[i] = s[j], Count(s[i], s) <= 1
    PROVE  i = j
  <1> SUFFICES ASSUME i # j PROVE FALSE
    OBVIOUS
  <1> DEFINE D == {k \in DOMAIN s : s[k] = s[i]}
  <1>1. DOMAIN s = 1..Len(s) /\ Len(s) \in Nat
    BY LenProperties
  <1>2. {i, j} \subseteq D
    BY <1>1
  <1>3. IsFiniteSet(D) /\ Cardinality(D) \in Nat /\ Cardinality(D) <= 1
    BY CountType DEF Count
  <1>4. IsFiniteSet({i}) /\ Cardinality({i}) = 1
    BY FS_Singleton
  <1>5. Cardinality({i} \cup {j}) = 2
    <2>1. j \notin {i}
      OBVIOUS
    <2> HIDE DEF D
    <2>2. Cardinality({i} \cup {j}) = Cardinality({i}) + 1
      BY <1>4, <2>1, FS_AddElement
    <2>3. Cardinality({i}) + 1 = 1 + 1
      BY <1>4, Zenon
    <2>4. 1 + 1 = 2
      OBVIOUS
    <2> QED
      BY <2>2, <2>3, <2>4, Zenon
  <1>6. {i} \cup {j} \in SUBSET D
    BY <1>2
  <1> HIDE DEF D
  <1>7. Cardinality({i} \cup {j}) <= Cardinality(D)
    BY <1>3, <1>6, FS_Subset
  <1> QED
    BY <1>3, <1>5, <1>7

LEMMA PassesCurrent ==
    ASSUME TypeOK, QueuesMatchOwners, at \in 1..Len(items), items' = items,
           NEW p, p = Current,
           at' = at + 1 \/ (at' = at /\ mainPc' # "dispatch" /\ ~InWrapper')
    PROVE  ~Ahead(p)'
  <1> SUFFICES ASSUME Ahead(p)' PROVE FALSE
    OBVIOUS
  <1>1. items \in Seq(Performs) /\ at \in Nat /\ items[at] = p
    BY DEF TypeOK, Current
  <1>2. Count(p, items) <= 1
    BY CurrentIsPerform DEF QueuesMatchOwners
  <1>3. PICK i \in 1..Len(items) :
           /\ items[i] = p
           /\ i > at' \/ (i = at' /\ (mainPc' = "dispatch" \/ InWrapper'))
    BY DEF Ahead
  <1>4. i # at
    BY <1>1, <1>3
  <1> QED
    BY <1>1, <1>2, <1>3, <1>4, OnceAt

(* What is in the vector before poll() reaches it.                          *)
LEMMA CurrentAhead ==
    ASSUME Holders, TypeOK, at \in 1..Len(items), mainPc = "dispatch" \/ InWrapper
    PROVE  Current \in Performs /\ Ahead(Current)
  BY CurrentIsPerform DEF Ahead, Current, TypeOK

LEMMA CallsHeldStep ==
    ASSUME CTypeOK, TypeInv, CallsHeld, [CNext]_allVars
    PROVE  CallsHeld'
  <1> USE DEF CTypeOK, CallsHeld
  <1>1. CASE call' = call /\ handle' = handle
    BY <1>1
  <1>2. ASSUME NEW t \in Threads, NEW p \in Performs, NEW fn \in Fns, CtxCall(t, p, fn)
        PROVE  CallsHeld'
    BY <1>2 DEF CtxCall
  <1>3. ASSUME NEW t \in Threads, CtxStep(t) PROVE CallsHeld'
    <2>1. handle' = handle /\ call' = [call EXCEPT ![t] = NoCall]
      BY <1>3 DEF CtxStep, CtxRefuse, CtxAct, CtxErrorFails, Leaves
    <2> QED
      BY <2>1
  <1>4. ASSUME NEW t \in Threads, NEW p \in Performs, CtxRelease(t, p) PROVE CallsHeld'
    BY <1>4 DEF CtxRelease
  <1>5. CASE WrapperCalls
    <2>1. Current \in Performs \/ handle' = handle
      BY <1>5, CurrentIsPerform DEF WrapperCalls, HandlerKeep, InWrapper, TypeInv,
         HandlerAtItem
    <2> QED
      BY <1>5, <2>1 DEF WrapperCalls
  <1>6. \/ call' = call /\ handle' = handle
        \/ \E t \in Threads, p \in Performs, fn \in Fns : CtxCall(t, p, fn)
        \/ \E t \in Threads : CtxStep(t)
        \/ \E t \in Threads, p \in Performs : CtxRelease(t, p)
        \/ WrapperCalls
    BY Zenon DEF CNext, ClientFunctions, ClientPoll, ClientClose, ClientPerform,
       RouterFunctions, RouterOn, RouterOff, RouterSet, RouterClose,
       RouterCloseState, RouterClientGoes, RouterDestroy, Polling, RouterPollBegin,
       RouterPollStep, RouterPollEnd, CHandlerReturns, NullHandle, NewFails,
       OtherStep, allVars, ctxCVars
  <1> QED
    BY <1>1, <1>2, <1>3, <1>4, <1>5, <1>6

(* The owners in who let go of every context.                               *)
LEMMA HoldersLetGo ==
    ASSUME TypeOK, Holders, Unborn, NEW who, LetGo(Performs, who),
           "thread" \notin who,
           UNCHANGED <<handle, oks, lost, inbox, arrived>>,
           NEW p \in Performs,
           Ahead(p)' => Ahead(p) /\ "items" \notin who
    PROVE  HoldersOf(p)'
  <1>1. /\ owners'[p] = owners[p] \ who
        /\ p \in resumed' <=> \/ p \in resumed
                              \/ owners[p] # {} /\ owners[p] \subseteq who
    BY DEF LetGo, Dropped
  <1>2. HoldersOf(p) /\ (Waiting(p) = 1 => owners[p] = {})
    BY DEF Holders, Unborn
  <1>3. Waiting(p)' = Waiting(p)
    BY DEF Waiting
  <1>4. CASE Waiting(p)' = 1
    BY <1>1, <1>2, <1>3, <1>4 DEF HoldersOf, Fresh
  <1>5. CASE Ahead(p)'
    <2>1. owners[p] = {"items"} /\ Ahead(p) /\ owners'[p] = {"items"}
      BY <1>1, <1>2, <1>5 DEF HoldersOf
    <2>2. p \in resumed' <=> p \in resumed
      BY <1>1, <1>5, <2>1
    <2> QED
      BY <1>2, <1>3, <2>1, <2>2 DEF HoldersOf, Fresh
  <1>6. CASE Waiting(p)' # 1 /\ ~Ahead(p)' /\ "queue" \in owners'[p]
    <2>1. owners[p] = {"queue"} /\ owners'[p] = {"queue"} /\ "queue" \notin who
      BY <1>1, <1>2, <1>6 DEF HoldersOf
    <2>2. p \in resumed' <=> p \in resumed
      BY <1>1, <2>1
    <2> QED
      BY <1>2, <1>3, <1>6, <2>1, <2>2 DEF HoldersOf, Fresh
  <1>7. CASE Waiting(p)' # 1 /\ ~Ahead(p)' /\ "queue" \notin owners'[p]
    <2>1. /\ owners'[p] \subseteq {"queue", "items", "thread", "parent"}
          /\ "thread" \in owners'[p] <=> handle'[p] = "held"
          /\ handle'[p] # None => owners'[p] \subseteq {"items", "thread"}
          /\ oks'[p] > 0 => p \in resumed'
      BY <1>1, <1>2 DEF HoldersOf
    <2>2. handle'[p] = "released" => p \in resumed' \/ "items" \in owners'[p]
      <3>1. CASE handle[p] = "released" /\ p \notin resumed /\ "items" \in who
        <4>1. owners[p] = {"items"}
          BY <1>2, <3>1 DEF HoldersOf, None
        <4> QED
          BY <1>1, <3>1, <4>1
      <3> QED
        BY <1>1, <1>2, <3>1 DEF HoldersOf
    <2>3. handle'[p] = "held" /\ p \in resumed' => oks'[p] > 0 \/ p \in lost'
      <3>1. CASE handle[p] = "held"
        <4>1. ~(owners[p] \subseteq who)
          BY <1>2, <3>1 DEF HoldersOf
        <4> QED
          BY <1>1, <1>2, <4>1 DEF HoldersOf
      <3> QED
        BY <3>1
    <2> QED
      BY <1>7, <2>1, <2>2, <2>3 DEF HoldersOf
  <1> QED
    BY <1>4, <1>5, <1>6, <1>7

(* Steps that leave the contexts alone.                                     *)
LEMMA HoldersSame ==
    ASSUME TypeOK, \A p \in Performs : HoldersOf(p),
           UNCHANGED <<owners, resumed, lost, handle, oks, inbox, arrived, items>>,
           \/ at' = at + 1
           \/ /\ at' = at
              /\ mainPc' = "dispatch" \/ InWrapper' => mainPc = "dispatch" \/ InWrapper
    PROVE  \A p \in Performs : HoldersOf(p)'
  <1> TAKE p \in Performs
  <1>1. Waiting(p)' = Waiting(p)
    BY DEF Waiting
  <1>2. Ahead(p)' => Ahead(p)
    BY AheadKept
  <1>3. Stays(p)
    BY <1>1, <1>2 DEF Stays
  <1> QED
    BY <1>3, StaysHolds

(* One context changes, and who waits in the socket does not.               *)
LEMMA HoldersOthers ==
    ASSUME TypeOK, \A p \in Performs : HoldersOf(p), NEW q \in Performs,
           \A p \in Performs \ {q} :
                /\ owners'[p] = owners[p] /\ handle'[p] = handle[p] /\ oks'[p] = oks[p]
                /\ p \in resumed' <=> p \in resumed
                /\ p \in lost => p \in lost',
           UNCHANGED <<inbox, arrived, items>>,
           \/ at' = at + 1
           \/ /\ at' = at
              /\ mainPc' = "dispatch" \/ InWrapper' => mainPc = "dispatch" \/ InWrapper,
           (Ahead(q)' => Ahead(q)) /\ Waiting(q)' = Waiting(q) => HoldersOf(q)'
    PROVE  \A p \in Performs : HoldersOf(p)'
  <1> TAKE p \in Performs
  <1>1. Waiting(p)' = Waiting(p)
    BY DEF Waiting
  <1>2. Ahead(p)' => Ahead(p)
    BY AheadKept
  <1>3. CASE p = q
    BY <1>1, <1>2, <1>3
  <1>4. CASE p # q
    BY <1>1, <1>2, <1>4, StaysHolds DEF Stays
  <1> QED
    BY <1>3, <1>4

LEMMA HoldersArrive ==
    ASSUME CTypeOK, Unborn, \A p \in Performs : HoldersOf(p), OtherStep
    PROVE  \A p \in Performs : HoldersOf(p)'
  <1> USE DEF CTypeOK, TypeOK
  <1>0. /\ UNCHANGED <<handle, oks>> /\ UNCHANGED <<items, at>>
        /\ (mainPc' = mainPc \/ mainPc' = "crashed")
    BY DEF OtherStep, ctxCVars, ZNext, ZCheck, ZSend, ZDrained, ZRecv, ZRecvThrows,
       ZPollTimeout, ClientSends
  <1>1. \A p : Ahead(p)' => Ahead(p)
    BY <1>0 DEF Ahead, InWrapper, Current
  <1>2. CASE ZCheck \/ ZSend \/ ZDrained \/ ZRecvThrows \/ ZPollTimeout
    <2>1. UNCHANGED <<owners, resumed, lost, inbox, arrived>>
      BY <1>2 DEF ZCheck, ZSend, ZDrained, ZRecvThrows, ZPollTimeout, ctxVars
    <2> TAKE p \in Performs
    <2>2. Stays(p)
      BY <1>0, <1>1, <2>1 DEF Stays, Waiting
    <2> QED
      BY <2>2, StaysHolds
  <1>3. CASE ZRecv
    <2> TAKE p \in Performs
    <2>1. inbox # <<>> /\ inbox' = Tail(inbox) /\ UNCHANGED <<arrived, resumed, lost>>
      BY <1>3 DEF ZRecv
    <2>2. /\ Count(p, inbox) = (IF p = Head(inbox) THEN 1 ELSE 0) + Count(p, inbox')
          /\ Count(p, inbox') \in Nat
      BY <2>1, CountHeadTail, CountType, HeadTailProperties
    <2>3. Waiting(p)' = Waiting(p) - (IF p = Head(inbox) THEN 1 ELSE 0)
      <3> DEFINE absent == IF p \in arrived THEN 0 ELSE 1
      <3>1. Waiting(p) = Count(p, inbox) + absent /\ absent \in Nat
        BY DEF Waiting
      <3>2. Waiting(p)' = Count(p, inbox') + absent
        BY <2>1 DEF Waiting
      <3> HIDE DEF absent
      <3>3. CASE p = Head(inbox)
        BY <2>2, <3>1, <3>2, <3>3
      <3>4. CASE p # Head(inbox)
        BY <2>2, <3>1, <3>2, <3>4
      <3> QED
        BY <3>3, <3>4
    <2>4. Waiting(p) <= 1 /\ Waiting(p) \in Nat /\ (Waiting(p) = 1 => owners[p] = {})
      BY <2>2 DEF Unborn, Waiting
    <2>5. p = Head(inbox) => Waiting(p) = 1 /\ Waiting(p)' = 0
      BY <2>2, <2>3, <2>4 DEF Waiting
    <2>6. CASE p = Head(inbox) /\ p \notin Malformed
      <3>1. owners'[p] = {"queue"} /\ owners[p] = {}
        BY <1>3, <2>4, <2>5, <2>6 DEF ZRecv
      <3>2. Fresh(p) /\ ~Ahead(p) /\ ~(oks[p] > 0)
        BY <2>5, <2>6, <3>1 DEF HoldersOf, Fresh
      <3> QED
        BY <1>0, <1>1, <2>1, <2>5, <2>6, <3>1, <3>2 DEF HoldersOf, Fresh, None
    <2>7. CASE p # Head(inbox) \/ p \in Malformed
      <3>1. owners'[p] = owners[p]
        BY <1>3, <2>7 DEF ZRecv
      <3>2. Stays(p)
        BY <1>0, <1>1, <2>1, <2>3, <2>4, <2>5, <3>1 DEF Stays
      <3> QED
        BY <3>2, StaysHolds
    <2> QED
      BY <2>6, <2>7
  <1>4. ASSUME NEW q \in Performs, ClientSends(q) PROVE \A p \in Performs : HoldersOf(p)'
    <2> TAKE p \in Performs
    <2>1. /\ UNCHANGED <<owners, resumed, lost>> /\ q \notin arrived
          /\ arrived' = arrived \cup {q} /\ inbox' = Append(inbox, q)
      BY <1>4 DEF ClientSends, ctxVars
    <2>2. /\ Count(p, inbox') = Count(p, inbox) + (IF p = q THEN 1 ELSE 0)
          /\ Count(p, inbox) \in Nat
      BY <2>1, CountAppend, CountType
    <2>3. Waiting(p)' = Waiting(p)
      BY <2>1, <2>2 DEF Waiting
    <2>4. Stays(p)
      BY <1>0, <1>1, <2>1, <2>3 DEF Stays
    <2> QED
      BY <2>4, StaysHolds
  <1> QED
    BY <1>2, <1>3, <1>4 DEF OtherStep, ZNext

LEMMA HoldersDrain ==
    ASSUME CTypeOK, QueuesInv, \A p \in Performs : HoldersOf(p),
           PollBegin, UNCHANGED <<handle, oks>>
    PROVE  \A p \in Performs : HoldersOf(p)'
  <1> USE DEF CTypeOK, TypeOK
  <1> TAKE p \in Performs
  <1>1. /\ UNCHANGED <<resumed, lost, inbox, arrived>> /\ items' = recvQueue
        /\ owners'[p] = IF "queue" \in owners[p] THEN (owners[p] \ {"queue"}) \cup {"items"}
                                                ELSE owners[p]
    BY DEF PollBegin
  <1>2. Waiting(p)' = Waiting(p)
    BY <1>1 DEF Waiting
  <1>3. CASE "queue" \in owners[p]
    <2>1. owners[p] = {"queue"} /\ owners'[p] = {"items"} /\ Fresh(p) /\ ~(oks[p] > 0)
      BY <1>1, <1>3 DEF HoldersOf, Fresh
    <2>2. Fresh(p)'
      BY <1>1, <2>1 DEF Fresh
    <2> QED
      BY <1>1, <2>1, <2>2 DEF HoldersOf, Fresh, None
  <1>4. CASE "queue" \notin owners[p]
    <2>1. ~Ahead(p)'
      <3>1. Count(p, recvQueue) = 0
        BY <1>4 DEF QueuesInv, QueuesMatchOwners
      <3>2. \A i \in 1..Len(recvQueue) : recvQueue[i] # p
        BY <3>1, CountSome
      <3> QED
        BY <1>1, <3>2 DEF Ahead
    <2>2. Stays(p)
      BY <1>1, <1>2, <1>4, <2>1 DEF Stays
    <2> QED
      BY <2>2, StaysHolds
  <1> QED
    BY <1>3, <1>4

(* A context that poll() has reached.                                       *)
LEMMA HeldHolds ==
    ASSUME NEW p \in Performs, Waiting(p)' # 1, ~Ahead(p)',
           owners'[p] \subseteq {"items", "thread", "parent"},
           "thread" \in owners'[p] <=> handle'[p] = "held",
           handle'[p] # None => owners'[p] \subseteq {"items", "thread"},
           handle'[p] = "released" => p \in resumed' \/ "items" \in owners'[p],
           handle'[p] = "held" /\ p \in resumed' => oks'[p] > 0 \/ p \in lost',
           oks'[p] > 0 => p \in resumed'
    PROVE  HoldersOf(p)'
  BY DEF HoldersOf

LEMMA HoldersDispatch ==
    ASSUME CTypeOK, TypeInv, QueuesInv, Holders,
           DispatchForward \/ DispatchNone \/ (InWrapper /\ HandlerKeep),
           UNCHANGED oks,
           handle' = IF mainPc = "handler" THEN [handle EXCEPT ![Current] = "held"]
                                           ELSE handle
    PROVE  \A p \in Performs : HoldersOf(p)'
  <1> USE DEF CTypeOK, TypeOK
  <1>1. /\ at \in 1..Len(items) /\ (mainPc = "dispatch" \/ InWrapper)
        /\ UNCHANGED <<inbox, arrived, items, lost>>
    BY LenProperties DEF DispatchForward, DispatchNone, HandlerKeep, AtItem, TypeInv,
       HandlerAtItem
  <1>2. Current \in Performs /\ Ahead(Current)
    BY <1>1, CurrentAhead
  <1> PICK q \in Performs : q = Current
    BY <1>2
  <1>3. owners[q] = {"items"} /\ Fresh(q) /\ oks[q] = 0
    BY <1>2 DEF Holders, HoldersOf, Fresh
  <1>4. Waiting(q) # 1
    BY <1>2, <1>3 DEF QueuesInv, Unborn
  <1>5. Current' = Current \/ at' = at + 1
    BY <1>1 DEF Current, DispatchForward, DispatchNone, HandlerKeep
  <1>6. \/ at' = at + 1
        \/ at' = at /\ mainPc' = "handler" /\ handle'[q] = "held"
    BY <1>1, <1>2 DEF DispatchForward, DispatchNone, HandlerKeep
  <1>7. at' = at + 1 \/ (at' = at /\ mainPc' # "dispatch" /\ ~InWrapper')
    <2>1. at' = at => Current' = Current
      BY <1>1 DEF Current
    <2> QED
      BY <1>6, <2>1 DEF InWrapper, None
  <1>8. ~Ahead(q)'
    BY <1>1, <1>2, <1>7, PassesCurrent DEF QueuesInv
  <1>9. \A p \in Performs \ {q} :
            /\ owners'[p] = owners[p] /\ handle'[p] = handle[p]
            /\ p \in resumed' <=> p \in resumed
    BY <1>2 DEF DispatchForward, DispatchNone, HandlerKeep, Finish
  <1>10. \/ /\ owners'[q] = {"items", "parent"} /\ handle'[q] = None
            /\ UNCHANGED resumed
         \/ /\ owners'[q] = {"items"} /\ handle'[q] = None
         \/ /\ owners'[q] = {"items", "thread"} /\ handle'[q] = "held"
            /\ UNCHANGED resumed
    <2>1. CASE DispatchForward
      BY <1>2, <1>3, <2>1 DEF DispatchForward, AtItem, Fresh
    <2>2. CASE DispatchNone
      BY <1>2, <1>3, <2>2 DEF DispatchNone, AtItem, Fresh
    <2>3. CASE InWrapper /\ HandlerKeep
      BY <1>2, <1>3, <2>3 DEF InWrapper, HandlerKeep
    <2> QED
      BY <2>1, <2>2, <2>3
  <1>11. Waiting(q)' = Waiting(q) => HoldersOf(q)'
    <2>1. /\ owners'[q] \subseteq {"items", "thread", "parent"}
          /\ "thread" \in owners'[q] <=> handle'[q] = "held"
          /\ handle'[q] # None => owners'[q] \subseteq {"items", "thread"}
          /\ handle'[q] # "released"
          /\ handle'[q] = "held" => q \notin resumed'
          /\ oks'[q] = 0
      BY <1>3, <1>10 DEF Fresh, None
    <2> QED
      BY <1>4, <1>8, <2>1, HeldHolds
  <1> QED
    BY <1>1, <1>2, <1>7, <1>9, <1>11, HoldersOthers DEF Holders

LEMMA HoldersParent ==
    ASSUME CTypeOK, QueuesInv, Holders, NEW q \in Performs,
           ParentFinal(q) \/ ParentChunk(q), UNCHANGED <<handle, oks>>
    PROVE  \A p \in Performs : HoldersOf(p)'
  <1> USE DEF CTypeOK, TypeOK
  <1>1. /\ UNCHANGED <<inbox, arrived, items, at, mainPc, lost>>
        /\ mainPc = "parentPoll" /\ "parent" \in owners[q]
        /\ owners'[q] \subseteq owners[q]
        /\ resumed' = resumed \cup {q}
        /\ \A p \in Performs \ {q} : owners'[p] = owners[p]
    BY DEF ParentFinal, ParentChunk, Finish
  <1>2. /\ handle[q] = None /\ "queue" \notin owners[q] /\ ~Ahead(q)
        /\ "thread" \notin owners[q]
        /\ owners[q] \subseteq {"items", "thread", "parent"}
    <2>1. HoldersOf(q)
      BY DEF Holders
    <2>2. handle[q] = None
      BY <1>1, <2>1 DEF HoldersOf
    <2>3. "thread" \notin owners[q]
      BY <2>1, <2>2 DEF HoldersOf, None
    <2>4. "queue" \notin owners[q] /\ ~Ahead(q)
      BY <1>1, <2>1 DEF HoldersOf
    <2> QED
      BY <2>1, <2>2, <2>3, <2>4 DEF HoldersOf
  <1>3. Waiting(q) # 1
    BY <1>1 DEF QueuesInv, Unborn
  <1>4. (Ahead(q)' => Ahead(q)) /\ Waiting(q)' = Waiting(q) => HoldersOf(q)'
    <2>1. /\ owners'[q] \subseteq {"items", "thread", "parent"}
          /\ "thread" \notin owners'[q]
      BY <1>1, <1>2
    <2>2. handle'[q] = None /\ q \in resumed'
      BY <1>1, <1>2
    <2> QED
      BY <1>2, <1>3, <2>1, <2>2, HeldHolds DEF None
  <1>5. mainPc' # "dispatch" /\ ~InWrapper'
    BY <1>1 DEF InWrapper
  <1> QED
    BY <1>1, <1>4, <1>5, HoldersOthers DEF Holders

LEMMA HoldersCall ==
    ASSUME CTypeOK, QueuesInv, Holders, NEW t \in Threads,
           CtxRefuse(t) \/ CtxAct(t) \/ CtxErrorFails(t)
    PROVE  \A p \in Performs : HoldersOf(p)'
  <1> USE DEF CTypeOK, TypeOK
  <1>1. call[t] # NoCall
    BY DEF CtxRefuse, CtxAct, CtxErrorFails
  <1>0. call[t].ctx \in Performs /\ handle[call[t].ctx] = "held"
    BY <1>1 DEF Holders, CallsHeld
  <1> PICK q \in Performs : q = call[t].ctx
    BY <1>0
  <1>2. handle[q] = "held"
    BY <1>0
  <1>3. UNCHANGED <<inbox, arrived, items, at, mainPc, owners, handle>>
    BY DEF CtxRefuse, CtxAct, CtxErrorFails
  <1>4. Current' = Current
    BY <1>3 DEF Current
  <1>5. /\ "thread" \in owners[q] /\ owners[q] \subseteq {"items", "thread"}
        /\ "queue" \notin owners[q] /\ ~Ahead(q)
    BY <1>2 DEF Holders, HoldersOf, None
  <1>6. Waiting(q) # 1
    BY <1>2, <1>5 DEF QueuesInv, Unborn
  <1>7. \/ UNCHANGED <<resumed, lost, oks>>
        \/ /\ resumed' = resumed \cup {q} /\ UNCHANGED lost
           /\ oks' = [oks EXCEPT ![q] = IF @ < 2 THEN @ + 1 ELSE @]
        \/ /\ resumed' = resumed \cup {q} /\ lost' = lost \cup {q} /\ UNCHANGED oks
    <2>1. CASE CtxAct(t) /\ call[t].fn \in FinalFns
      BY <2>1 DEF CtxAct, Finish
    <2>2. CASE CtxAct(t) /\ call[t].fn \notin FinalFns
      <3>1. oks' = [oks EXCEPT ![q] = oks[q]]
        BY <2>2 DEF CtxAct
      <3> QED
        BY <1>2, <2>2, <3>1 DEF CtxAct
    <2>3. CASE CtxRefuse(t) \/ CtxErrorFails(t)
      BY <2>3 DEF CtxRefuse, Refused, CtxErrorFails
    <2> QED
      BY <2>1, <2>2, <2>3
  <1>8. oks[q] \in 0..2
    BY <1>2
  <1>9. (Ahead(q)' => Ahead(q)) /\ Waiting(q)' = Waiting(q) => HoldersOf(q)'
    <2>1. /\ q \in resumed' => oks'[q] > 0 \/ q \in lost'
          /\ oks'[q] > 0 => q \in resumed'
      <3>1. CASE UNCHANGED <<resumed, lost, oks>>
        BY <1>2, <3>1 DEF Holders, HoldersOf
      <3>2. CASE /\ resumed' = resumed \cup {q} /\ UNCHANGED lost
                 /\ oks' = [oks EXCEPT ![q] = IF @ < 2 THEN @ + 1 ELSE @]
        BY <1>8, <3>2
      <3>3. CASE resumed' = resumed \cup {q} /\ lost' = lost \cup {q} /\ UNCHANGED oks
        BY <3>3
      <3> QED
        BY <1>7, <3>1, <3>2, <3>3
    <2> QED
      BY <1>2, <1>3, <1>5, <1>6, <2>1, HeldHolds DEF None
  <1>10. mainPc' = "dispatch" \/ InWrapper' => mainPc = "dispatch" \/ InWrapper
    BY <1>3, <1>4 DEF InWrapper
  <1>11. \A p \in Performs \ {q} :
            /\ oks'[p] = oks[p] /\ (p \in resumed' <=> p \in resumed)
            /\ p \in lost => p \in lost'
    BY <1>2, <1>7
  <1> QED
    BY <1>2, <1>3, <1>9, <1>10, <1>11, HoldersOthers DEF Holders

LEMMA HoldersRelease ==
    ASSUME CTypeOK, QueuesInv, Holders, NEW t \in Threads, NEW q \in Performs,
           CtxRelease(t, q)
    PROVE  \A p \in Performs : HoldersOf(p)'
  <1> USE DEF CTypeOK, TypeOK
  <1>1. /\ UNCHANGED <<inbox, arrived, items, at, mainPc, oks, lost>>
        /\ handle[q] = "held" /\ handle' = [handle EXCEPT ![q] = "released"]
        /\ LetGo({q}, {"thread"})
    BY DEF CtxRelease, ReleaseImpl, LateDrop
  <1>2. /\ "thread" \in owners[q] /\ owners[q] \subseteq {"items", "thread"}
        /\ ~Ahead(q) /\ HoldersOf(q)
    BY <1>1 DEF Holders, HoldersOf, None
  <1>3. Waiting(q) # 1
    BY <1>2 DEF QueuesInv, Unborn
  <1>4. /\ owners'[q] = owners[q] \ {"thread"}
        /\ \A p \in Performs \ {q} : owners'[p] = owners[p]
        /\ resumed' = IF q \notin resumed /\ owners[q] \subseteq {"thread"}
                      THEN resumed \cup {q} ELSE resumed
    BY <1>1, <1>2 DEF LetGo, Dropped
  <1>5. q \in resumed' \/ "items" \in owners'[q]
    BY <1>2, <1>4
  <1>6. (Ahead(q)' => Ahead(q)) /\ Waiting(q)' = Waiting(q) => HoldersOf(q)'
    <2>1. /\ owners'[q] \subseteq {"items"} /\ handle'[q] = "released"
          /\ oks[q] > 0 => q \in resumed
      BY <1>1, <1>2, <1>4 DEF HoldersOf
    <2> QED
      BY <1>1, <1>2, <1>3, <1>4, <1>5, <2>1, HeldHolds DEF None
  <1>7. Current' = Current /\ (handle'[Current] = None => handle[Current] = None)
    BY <1>1 DEF Current, None
  <1>8. mainPc' = "dispatch" \/ InWrapper' => mainPc = "dispatch" \/ InWrapper
    BY <1>1, <1>7 DEF InWrapper
  <1>9. \A p \in Performs \ {q} :
            handle'[p] = handle[p] /\ (p \in resumed' <=> p \in resumed)
    BY <1>1, <1>4
  <1> QED
    BY <1>1, <1>4, <1>6, <1>8, <1>9, HoldersOthers DEF Holders

LEMMA HoldersLetGoStep ==
    ASSUME CTypeOK, QueuesInv, TablesInv, Holders, UNCHANGED <<handle, oks>>,
           PollEnd \/ CloseState \/ ClientGoes
    PROVE  \A p \in Performs : HoldersOf(p)'
  <1> USE DEF CTypeOK
  <1> TAKE p \in Performs
  <1>0. TypeOK /\ Unborn
    BY DEF QueuesInv
  <1>1. CASE PollEnd
    <2>1. LetGo(Performs, {"items"}) /\ UNCHANGED <<lost, inbox, arrived>> /\ items' = <<>>
      BY <1>1 DEF PollEnd
    <2>2. ~Ahead(p)'
      BY <2>1 DEF Ahead
    <2> QED
      BY <1>0, <2>1, <2>2, HoldersLetGo
  <1>2. CASE CloseState
    <2>1. /\ LetGo(Performs, {"queue"}) /\ UNCHANGED <<lost, inbox, arrived, items, at>>
          /\ mainPc' = "closeNested"
      BY <1>2 DEF CloseState
    <2>2. Ahead(p)' => Ahead(p)
      BY <1>0, <2>1, AheadKept DEF InWrapper
    <2> QED
      BY <1>0, <2>1, <2>2, HoldersLetGo
  <1>3. CASE ClientGoes
    <2>1. /\ LetGo(Performs, {"nested", "stranded"}) \/ LetGo(Performs, {"parent"})
          /\ UNCHANGED <<lost, inbox, arrived, items, at>>
          /\ InWait /\ mainPc' \in {ret, "closeParent", "crashed"}
      BY <1>3 DEF ClientGoes, NestedGoes, ParentGoes, InWait
    <2>2. mainPc' # "dispatch" /\ ~InWrapper'
      <3>1. Current' = Current /\ ret \in {"app", "handler"}
        BY <1>0, <2>1 DEF Current, TypeOK
      <3> QED
        BY <2>1, <3>1 DEF InWrapper, TablesInv
    <2>3. Ahead(p)' => Ahead(p)
      BY <1>0, <2>1, <2>2, AheadKept
    <2>4. CASE LetGo(Performs, {"nested", "stranded"})
      BY <1>0, <2>1, <2>3, <2>4, HoldersLetGo
    <2>5. CASE LetGo(Performs, {"parent"})
      BY <1>0, <2>1, <2>3, <2>5, HoldersLetGo
    <2> QED
      BY <2>1, <2>4, <2>5
  <1> QED
    BY <1>1, <1>2, <1>3

(* Steps of poll() that leave the contexts alone.                           *)
LEMMA HoldersPollSame ==
    ASSUME CTypeOK, TypeInv, Holders, UNCHANGED <<handle, oks>>,
           DispatchHandler \/ DispatchEnd \/ NestedPollEnd \/ HandlerReturn
    PROVE  \A p \in Performs : HoldersOf(p)'
  <1>1. UNCHANGED <<owners, resumed, lost, inbox, arrived, items>>
    BY DEF DispatchHandler, DispatchEnd, NestedPollEnd, HandlerReturn, Leave, ctxVars
  <1>2. \/ at' = at + 1
        \/ /\ at' = at
           /\ mainPc' = "dispatch" \/ InWrapper' => mainPc = "dispatch" \/ InWrapper
    BY DEF DispatchHandler, DispatchEnd, NestedPollEnd, HandlerReturn, Leave, AtItem,
       InWrapper
  <1> QED
    BY <1>1, <1>2, HoldersSame DEF Holders, CTypeOK

(* Functions of the router and the client, called outside poll() or by a C  *)
(* handler.                                                                 *)
LEMMA HoldersCalls ==
    ASSUME CTypeOK, Holders,
           \/ UNCHANGED <<vars, handle, oks>>
           \/ /\ UNCHANGED <<handle, oks>> /\ RouterCall
              /\ \/ \E e \in Effects : RouterOn(e) \/ RouterOff(e)
                 \/ SetParent \/ SetNested \/ CloseBegin
    PROVE  \A p \in Performs : HoldersOf(p)'
  <1>1. UNCHANGED <<owners, resumed, lost, handle, oks, inbox, arrived, items, at>>
    BY DEF vars, ctxVars, RouterOn, RouterOff, SetParent, ReplaceParent, SetNested,
       CloseBegin
  <1>2. Current' = Current
    BY <1>1 DEF Current
  <1>3. mainPc' = mainPc \/ InWait'
    BY DEF vars, RouterOn, RouterOff, SetParent, ReplaceParent, SetNested, Waits,
       CloseBegin, InWait
  <1>4. mainPc' = "dispatch" \/ InWrapper' => mainPc = "dispatch" \/ InWrapper
    BY <1>1, <1>2, <1>3 DEF InWrapper, InWait
  <1> QED
    BY <1>1, <1>4, HoldersSame DEF Holders, CTypeOK

LEMMA HoldersOfStep ==
    ASSUME CTypeOK, TypeInv, QueuesInv, TablesInv, Holders, [CNext]_allVars
    PROVE  \A p \in Performs : HoldersOf(p)'
  <1>1. CASE ClientFunctions \/ UNCHANGED allVars \/ (Crashed /\ UNCHANGED allVars)
    <2>1. UNCHANGED <<vars, handle, oks>>
      BY <1>1 DEF ClientFunctions, ClientPoll, ClientClose, ClientPerform, allVars,
         routerVars, ctxCVars
    <2> QED
      BY <2>1, HoldersCalls
  <1>2. CASE RouterFunctions
    <2>1. CASE RouterCloseState \/ RouterClientGoes
      BY <1>2, <2>1, HoldersLetGoStep DEF RouterCloseState, RouterClientGoes, ctxCVars
    <2>2. CASE \/ RouterClose \/ RouterDestroy
               \/ \E e \in Effects : RouterOn(e) \/ RouterOff(e)
               \/ \E fn \in {"set_parent", "set_nested_endpoint"} : RouterSet(fn)
      <3>1. UNCHANGED <<handle, oks>> /\ RouterCall
        BY <2>2 DEF RouterClose, RouterDestroy, RouterOn, RouterOff, RouterSet, ctxCVars
      <3>2. \/ UNCHANGED vars
            \/ \E e \in Effects : RouterOn(e) \/ RouterOff(e)
            \/ SetParent \/ SetNested \/ CloseBegin
        BY <2>2 DEF RouterClose, RouterDestroy, RouterSet
      <3> QED
        BY <3>1, <3>2, HoldersCalls
    <2> QED
      BY <1>2, <2>1, <2>2 DEF RouterFunctions
  <1>3. CASE RouterPollBegin
    <2>1. CASE PollBegin
      BY <1>3, <2>1, HoldersDrain DEF RouterPollBegin, ctxCVars, Holders
    <2>2. CASE UNCHANGED vars
      BY <1>3, <2>2, HoldersCalls DEF RouterPollBegin, ctxCVars
    <2> QED
      BY <1>3, <2>1, <2>2 DEF RouterPollBegin
  <1>4. CASE RouterPollStep
    <2>1. UNCHANGED <<handle, oks>>
      BY <1>4 DEF RouterPollStep, ctxCVars
    <2>2. CASE DispatchForward \/ DispatchNone
      <3>1. mainPc = "dispatch"
        BY <2>2 DEF DispatchForward, DispatchNone, AtItem
      <3> QED
        BY <2>1, <2>2, <3>1, HoldersDispatch
    <2>3. CASE DispatchHandler \/ DispatchEnd \/ NestedPollEnd
      BY <2>1, <2>3, HoldersPollSame
    <2>4. CASE \E p \in Performs : ParentFinal(p) \/ ParentChunk(p)
      BY <2>1, <2>4, HoldersParent
    <2> QED
      BY <1>4, <2>2, <2>3, <2>4 DEF RouterPollStep
  <1>5. CASE RouterPollEnd
    BY <1>5, HoldersLetGoStep DEF RouterPollEnd, ctxCVars
  <1>6. CASE WrapperCalls
    <2>1. CASE HandlerKeep /\ handle' = [handle EXCEPT ![Current] = "held"]
      <3>1. UNCHANGED oks /\ InWrapper /\ mainPc = "handler"
        BY <1>6 DEF WrapperCalls, InWrapper
      <3> QED
        BY <2>1, <3>1, HoldersDispatch
    <2>2. CASE HandlerReturn /\ UNCHANGED handle
      BY <1>6, <2>2, HoldersPollSame DEF WrapperCalls
    <2> QED
      BY <1>6, <2>1, <2>2 DEF WrapperCalls
  <1>7. CASE CHandlerReturns
    BY <1>7, HoldersPollSame DEF CHandlerReturns, ctxCVars
  <1>8. ASSUME NEW t \in Threads, CtxStep(t) PROVE \A p \in Performs : HoldersOf(p)'
    BY <1>8, HoldersCall DEF CtxStep
  <1>9. ASSUME NEW t \in Threads, NEW q \in Performs, CtxRelease(t, q)
        PROVE  \A p \in Performs : HoldersOf(p)'
    BY <1>9, HoldersRelease
  <1>10. ASSUME NEW t \in Threads,
                \/ NullHandle(t) \/ NewFails(t)
                \/ \E p \in Performs, fn \in Fns : CtxCall(t, p, fn)
         PROVE  \A p \in Performs : HoldersOf(p)'
    <2>1. UNCHANGED <<vars, handle, oks>>
      BY <1>10 DEF NullHandle, NewFails, CtxCall, routerVars, ctxCVars
    <2> QED
      BY <2>1, HoldersCalls
  <1>11. CASE OtherStep
    BY <1>11, HoldersArrive DEF QueuesInv, Holders
  <1> QED
    BY <1>1, <1>2, <1>3, <1>4, <1>5, <1>6, <1>7, <1>8, <1>9, <1>10, <1>11
       DEF CNext, Polling

LEMMA HoldersStep ==
    ASSUME CTypeOK, TypeInv, QueuesInv, TablesInv, Holders, [CNext]_allVars
    PROVE  Holders'
  BY HoldersOfStep, CallsHeldStep DEF Holders

-----------------------------------------------------------------------------
CInv == RouterInv /\ CTypeOK /\ Holders /\ TablesInv

LEMMA CInvInit == CInit => CInv
  <1> SUFFICES ASSUME CInit PROVE CInv
    OBVIOUS
  <1> USE DEF CInit
  <1>1. TypeInv
    BY TypeInit
  <1>2. OnceInv
    <2>1. \A p \in Performs : FinalsOf(p) = 0
      BY CountEmpty DEF Init, FinalsOf
    <2> QED
      BY <1>1, <2>1 DEF Init, OnceInv, AnsweredOnce
  <1>3. QueuesInv
    BY CountEmpty DEF Init, QueuesInv, Unborn, Waiting, ItemsInPoll, HandlersClient,
       QueuesMatchOwners
  <1>4. CTypeOK
    <2>1. call \in [Threads -> {NoCall} \cup [fn : Fns, ctx : Performs]]
      OBVIOUS
    <2>2. calls \in [Threads -> 0..MaxCalls] /\ oks \in [Performs -> 0..2]
      BY CConstantsAssumption
    <2>3. handle \in [Performs -> {None, "held", "released"}]
      OBVIOUS
    <2>4. open \in BOOLEAN
      BY DEF E!Init
    <2> QED
      BY <1>1, <2>1, <2>2, <2>3, <2>4 DEF TypeInv, CTypeOK
  <1>5. Holders
    <2>1. \A p \in Performs :
             owners[p] = {} /\ handle[p] = None /\ oks[p] = 0 /\ p \notin resumed
      BY DEF Init
    <2>2. \A p : ~Ahead(p)
      BY DEF Init, Ahead
    <2>3. CallsHeld
      BY DEF CallsHeld
    <2> QED
      BY <2>1, <2>2, <2>3 DEF Holders, HoldersOf, Fresh, None
  <1>6. TablesInv
    BY DEF Init, TablesInv, InWrapper, InWait
  <1> QED
    BY <1>2, <1>3, <1>4, <1>5, <1>6 DEF CInv, RouterInv

LEMMA CInvStep ==
    ASSUME IsFiniteSet(Performs), CInv, [CNext]_allVars
    PROVE  CInv'
  <1>1. TypeInv /\ QueuesInv /\ CallsOK /\ RouterInv
    BY DEF CInv, RouterInv, OnceInv, CTypeOK, CallsOK
  <1>2. RouterInv'
    BY <1>1, RouterInvStep
  <1>3. CTypeOK'
    <2>1. TypeOK'
      BY <1>2 DEF RouterInv, OnceInv, TypeInv
    <2> QED
      BY <2>1, LayerTypes, CodeStep DEF CInv, CTypeOK, CallsOK
  <1>4. Holders' /\ TablesInv'
    BY <1>1, HoldersStep, TablesStep DEF CInv
  <1> QED
    BY <1>2, <1>3, <1>4 DEF CInv

LEMMA CInvAlways == ASSUME IsFiniteSet(Performs) PROVE CSpec => []CInv
  BY CInvInit, CInvStep, PTL DEF CSpec

(* Every variable of the C layer, and of the router inside it, keeps its    *)
(* type.                                                                    *)
THEOREM CTypeCorrect == ASSUME IsFiniteSet(Performs) PROVE CSpec => []CTypeOK
  BY CInvAlways, PTL DEF CInv

(* What a program was told of a context stays true: one final frame for the *)
(* call that was told OK, whatever the other threads, poll(), close() and   *)
(* the destructor do to the context between a function's check and its act, *)
(* and after it; and no answer but the program's own while it holds the     *)
(* context.                                                                 *)
THEOREM ToldWhatHappenedAlways ==
    ASSUME IsFiniteSet(Performs) PROVE CSpec => []ToldWhatHappened
  <1>1. CInv => ToldWhatHappened
    <2> SUFFICES ASSUME CInv, NEW p \in Performs
                 PROVE  /\ oks[p] > 0 => FinalsOf(p) = 1 \/ p \in lost
                        /\ handle[p] = "held" /\ p \in resumed => oks[p] > 0 \/ p \in lost
      BY DEF ToldWhatHappened
    <2>1. FinalsOf(p) = (IF p \in resumed \ lost THEN 1 ELSE 0)
      BY DEF CInv, RouterInv, OnceInv, AnsweredOnce
    <2>2. HoldersOf(p)
      BY DEF CInv, Holders
    <2> QED
      BY <2>1, <2>2 DEF HoldersOf
  <1> QED
    BY <1>1, CInvAlways, PTL

(* What the program releases unanswered is answered by the destructor, at   *)
(* once, or when poll() returns, whose vector is the only other owner the   *)
(* context can have: not a callback of the parent's client, nor the queue.  *)
THEOREM ReleasedIsAnsweredAlways ==
    ASSUME IsFiniteSet(Performs) PROVE CSpec => []ReleasedIsAnswered
  <1>1. CInv => ReleasedIsAnswered
    BY DEF CInv, Holders, HoldersOf, ReleasedIsAnswered
  <1> QED
    BY <1>1, CInvAlways, PTL

(* The wrapper finds the C handler of every perform the router gives it.    *)
THEOREM TablesAgreeAlways == ASSUME IsFiniteSet(Performs) PROVE CSpec => []TablesAgree
  <1>1. CInv => TablesAgree
    BY DEF CInv, TablesInv, TablesAgree
  <1> QED
    BY <1>1, CInvAlways, PTL
=============================================================================
