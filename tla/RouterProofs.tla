---------------------------- MODULE RouterProofs ----------------------------
(***************************************************************************)
(* Proofs about Router, for any finite set of performs.                    *)
(***************************************************************************)
EXTENDS Router, QueueLemmas

-----------------------------------------------------------------------------
(* The final frames of a set of performs, in some order.                    *)
LEMMA FinalsSeq ==
    ASSUME IsFiniteSet(Performs), NEW ps \in SUBSET Performs
    PROVE  /\ SetToSeq({Final(p) : p \in ps}) \in Seq(Frames)
           /\ \A q \in Performs : Count(Final(q), SetToSeq({Final(p) : p \in ps}))
                                     = IF q \in ps THEN 1 ELSE 0
           /\ \A e : Count(e, SetToSeq({Final(p) : p \in ps})) # 0
                        => \E p \in ps : e = Final(p)
  <1> DEFINE T == {Final(p) : p \in ps}
             f == [p \in ps |-> Final(p)]
  <1>1. IsFiniteSet(ps)
    BY FS_Subset
  <1>2. f \in Surjection(ps, T)
    BY DEF Surjection
  <1>3. IsFiniteSet(T)
    BY <1>1, <1>2, FS_Surjection
  <1>4. T \subseteq Frames
    BY DEF Final, Frames
  <1>5. \A q \in Performs : Final(q) \in T <=> q \in ps
    BY DEF Final
  <1> HIDE DEF T
  <1>6. SetToSeq(T) \in Seq(T) /\ \A e : Count(e, SetToSeq(T)) = IF e \in T THEN 1 ELSE 0
    BY <1>3, SetToSeqOnce
  <1>7. SetToSeq(T) \in Seq(Frames)
    BY <1>4, <1>6, SeqMonotonic
  <1> QED
    BY <1>5, <1>6, <1>7 DEF T

-----------------------------------------------------------------------------
(* What a step does to the answers.  It does nothing to them, answers for   *)
(* some contexts while the frames of others are lost, finishes one, pushes  *)
(* a frame that is nobody's final one, or hands a frame to the socket.      *)

Quiet == UNCHANGED <<sendQueue, out, resumed, lost>>

Answers(ps, failed) ==
    /\ ps \in SUBSET (Performs \ resumed) /\ failed \in SUBSET (Performs \ resumed)
    /\ ps \cap failed = {}
    /\ resumed' = resumed \cup failed \cup ps
    /\ lost' = lost \cup failed
    /\ sendQueue' = sendQueue \o SetToSeq({Final(p) : p \in ps})
    /\ out' = out

Finishes(p) == p \in Performs /\ Finish(p) /\ UNCHANGED <<out, lost>>

Pushes(f) == /\ f \in Frames /\ \A p \in Performs : f # Final(p)
             /\ sendQueue' = Append(sendQueue, f)
             /\ UNCHANGED <<out, resumed, lost>>

Sends == /\ sendQueue # <<>>
         /\ out' = Append(out, Head(sendQueue))
         /\ sendQueue' = Tail(sendQueue)
         /\ UNCHANGED <<resumed, lost>>

FrameStep == \/ Quiet \/ Sends
             \/ \E ps, failed \in SUBSET Performs : Answers(ps, failed)
             \/ \E p \in Performs : Finishes(p)
             \/ \E f \in Frames : Pushes(f)

(* A handler runs for an entry of the drained vector, also while it waits   *)
(* for close() or for a client it replaced.                                 *)
InWait == mainPc \in {"dropNested", "dropParent", "join", "closeNested", "closeParent"}

HandlerAtItem ==
    mainPc = "handler" \/ (InWait /\ ret = "handler") => at \in 1..Len(items)

TypeInv == TypeOK /\ HandlerAtItem

LEMMA CurrentIsPerform ==
    ASSUME TypeOK, at \in 1..Len(items)
    PROVE  Current \in Performs
  BY ElementOfSeq DEF TypeOK, Current

LEMMA LetGoAnswers ==
    ASSUME NEW ps \in SUBSET Performs, NEW who, LetGo(ps, who), UNCHANGED <<out, lost>>
    PROVE  Answers(Dropped(ps, who), {})
  BY DEF LetGo, Answers, Dropped

(* An answer that cannot be serialised makes no frame.                      *)
Fails(p) == /\ p \in Performs \ resumed
            /\ resumed' = resumed \cup {p} /\ lost' = lost \cup {p}
            /\ UNCHANGED <<sendQueue, out>>

LEMMA FailsIsFrameStep ==
    ASSUME TypeOK, NEW p, Fails(p)
    PROVE  FrameStep
  <1>1. SetToSeq({Final(q) : q \in {}}) = <<>>
    <2>1. {Final(q) : q \in {}} = {}
      OBVIOUS
    <2>2. SetToSeq({}) \in Seq({})
      BY SetToSeqOnce, FS_EmptySet
    <2>3. \A i \in 1..Len(SetToSeq({})) : SetToSeq({})[i] \in {}
      BY <2>2, ElementOfSeq
    <2> QED
      BY <2>1, <2>2, <2>3, EmptySeq, LenProperties
  <1>2. sendQueue \o <<>> = sendQueue
    BY ConcatEmptySeq DEF TypeOK
  <1>3. Answers({}, {p})
    BY <1>1, <1>2 DEF Fails, Answers
  <1> QED
    BY <1>3 DEF FrameStep, Fails

LEMMA FrameSteps ==
    ASSUME TypeInv, [Next]_vars
    PROVE  FrameStep
  <1>1. CASE \/ Register \/ Move \/ PollBegin \/ DispatchHandler \/ DispatchForward
             \/ HandlerReturn \/ DispatchEnd \/ NestedPollEnd \/ HandlerKeep
             \/ HandlerNests \/ HandlerNestsGone \/ CloseBegin
             \/ SetParent \/ ClearParent \/ SetNested
             \/ ZCheck \/ ZDrained \/ ZRecvThrows \/ ZPollTimeout
             \/ (\E p \in Performs : ClientSends(p)) \/ UNCHANGED vars
    <2>1. Quiet
      BY <1>1 DEF Register, Move, PollBegin, DispatchHandler, DispatchForward,
         HandlerReturn, DispatchEnd, NestedPollEnd, HandlerKeep, HandlerNests,
         HandlerNestsGone, CloseBegin, SetParent, ClearParent, ReplaceParent,
         SetNested, ZCheck, ZDrained, ZRecvThrows, ZPollTimeout, ClientSends, Quiet,
         vars, ctxVars
    <2> QED
      BY <2>1 DEF FrameStep
  <1>2. CASE \/ DestroyMoved \/ PollEnd \/ CloseState \/ ClientGoes
             \/ \E p \in Performs, who \in {"thread", "nested"} : LateDrop(p, who)
    <2>1. PICK ps \in SUBSET Performs, who \in SUBSET Owners :
             LetGo(ps, who) /\ UNCHANGED <<out, lost>>
      BY <1>2 DEF DestroyMoved, PollEnd, CloseState, ClientGoes, NestedGoes,
         ParentGoes, LateDrop, Owners
    <2>2. Answers(Dropped(ps, who), {})
      BY <2>1, LetGoAnswers
    <2> QED
      BY <2>2 DEF FrameStep, Dropped
  <1>3. CASE DispatchNone \/ HandlerAnswer \/ HandlerThrow
    <2>1. Current \in Performs
      BY <1>3, CurrentIsPerform DEF TypeInv, HandlerAtItem, DispatchNone, AtItem,
         HandlerAnswer, HandlerThrow, TypeOK
    <2>2. Finishes(Current)
      BY <1>3, <2>1 DEF DispatchNone, HandlerAnswer, HandlerThrow, Finishes, vars
    <2> QED
      BY <2>1, <2>2 DEF FrameStep
  <1>4. CASE \E p \in Performs :
                \/ ParentFinal(p) \/ ParentChunk(p)
                \/ \E who \in {"thread", "nested"} : LateAnswer(p, who)
    BY <1>4 DEF ParentFinal, ParentChunk, LateAnswer, Finishes, FrameStep
  <1>5. ASSUME NEW p \in Performs,
               \/ HandlerStream /\ p = Current
               \/ \E who \in {"thread", "nested"} : LateStream(p, who)
        PROVE  FrameStep
    <2>1. Chunk(p) \in Frames /\ \A q \in Performs : Chunk(p) # Final(q)
      BY DEF Chunk, Final, Frames
    <2>2. Pushes(Chunk(p))
      BY <1>5, <2>1 DEF HandlerStream, LateStream, SendChunk, Pushes, ctxVars
    <2> QED
      BY <2>1, <2>2 DEF FrameStep
  <1>6. CASE HandlerStream
    <2>1. Current \in Performs
      BY <1>6, CurrentIsPerform DEF TypeInv, HandlerAtItem, HandlerStream
    <2> QED
      BY <1>5, <1>6, <2>1
  <1>7. CASE HandlerResumeFails
    <2>1. Current \in Performs
      BY <1>7, CurrentIsPerform DEF TypeInv, HandlerAtItem, HandlerResumeFails
    <2>2. Fails(Current)
      BY <1>7, <2>1 DEF HandlerResumeFails, Fails
    <2> QED
      BY <2>2, FailsIsFrameStep DEF TypeInv
  <1>8. CASE CatchFails
    <2> DEFINE rest == Dropped(Performs \ {Current}, {"items"})
    <2>1. Current \in Performs
      BY <1>8, CurrentIsPerform DEF TypeInv, HandlerAtItem, CatchFails
    <2>2. rest \in SUBSET (Performs \ (resumed \cup {Current}))
      BY DEF Dropped
    <2>3. Answers(rest, {Current})
      BY <1>8, <2>1, <2>2 DEF CatchFails, Answers
    <2> QED
      BY <2>1, <2>2, <2>3 DEF FrameStep
  <1>9. ASSUME NEW p \in Performs, NestedThrow(p) PROVE FrameStep
    <2> DEFINE Who(q, ends) == {"items"} \cup (IF q = p THEN ends ELSE {})
               Gone(failed, ends) == {q \in Performs \ (resumed \cup failed) :
                                        owners[q] # {} /\ owners[q] \subseteq Who(q, ends)}
    <2>1. PICK failed \in SUBSET ({p} \ resumed), ends \in SUBSET {"nested"} :
             /\ lost'      = lost \cup failed
             /\ resumed'   = resumed \cup failed \cup Gone(failed, ends)
             /\ sendQueue' = sendQueue \o SetToSeq({Final(q) : q \in Gone(failed, ends)})
      BY <1>9 DEF NestedThrow
    <2>2. Answers(Gone(failed, ends), failed)
      BY <1>9, <2>1 DEF NestedThrow, Answers
    <2>3. Gone(failed, ends) \in SUBSET Performs /\ failed \in SUBSET Performs
      OBVIOUS
    <2> QED
      BY <2>2, <2>3 DEF FrameStep
  <1>10. CASE ZSend
    BY <1>10 DEF ZSend, Sends, FrameStep, ctxVars
  <1>11. CASE ZRecv
    <2>1. Final(Generated) \in Frames /\ \A p \in Performs : Final(Generated) # Final(p)
      BY ConstantsAssumption DEF Final, Frames
    <2>2. Quiet \/ Pushes(Final(Generated))
      BY <1>11, <2>1 DEF ZRecv, Quiet, Pushes
    <2> QED
      BY <2>1, <2>2 DEF FrameStep
  <1>12. ASSUME NEW p \in Performs, LateFails(p) PROVE FrameStep
    <2>1. Fails(p)
      BY <1>12 DEF LateFails, Fails
    <2> QED
      BY <2>1, FailsIsFrameStep DEF TypeInv
  <1> QED
    BY <1>1, <1>2, <1>3, <1>4, <1>5, <1>6, <1>7, <1>8, <1>9, <1>10, <1>11, <1>12
       DEF Next, OwnNext, PollStep, HandlerStep, ZNext, Crashed

(* Only failures lose answers, only clients send performs, a closed router  *)
(* stays closed, and what went out stays out.                               *)
LEMMA NoFailures ==
    ASSUME ~MayFail, [Next]_vars
    PROVE  lost' = lost
  <1>1. CASE Crashed \/ UNCHANGED vars
    BY <1>1 DEF Crashed, vars, ctxVars
  <1>2. ASSUME NEW p \in Performs, ClientSends(p) PROVE lost' = lost
    BY <1>2 DEF ClientSends, ctxVars
  <1>3. CASE \/ Register \/ SetParent \/ ClearParent \/ SetNested
             \/ Move \/ DestroyMoved \/ CloseBegin \/ CloseState \/ ClientGoes
    BY <1>3 DEF Register, SetParent, ClearParent, ReplaceParent, SetNested, Move,
       DestroyMoved, CloseBegin, CloseState, ClientGoes, NestedGoes, ParentGoes, ctxVars
  <1>4. CASE PollStep \/ HandlerStep \/ ZNext
    BY <1>4 DEF PollStep, PollBegin, DispatchHandler, DispatchForward, DispatchNone,
       HandlerReturn, HandlerThrow, HandlerResumeFails, CatchFails, DispatchEnd,
       NestedPollEnd, PollEnd, HandlerStep, HandlerAnswer, HandlerStream, HandlerKeep,
       HandlerNests, HandlerNestsGone, ZNext, ZCheck, ZSend, ZDrained, ZRecv,
       ZRecvThrows, ZPollTimeout, ctxVars
  <1>5. ASSUME NEW p \in Performs,
               \/ NestedThrow(p) \/ LateFails(p) \/ ParentFinal(p) \/ ParentChunk(p)
               \/ \E who \in {"thread", "nested"} :
                     LateAnswer(p, who) \/ LateStream(p, who) \/ LateDrop(p, who)
        PROVE  lost' = lost
    BY <1>5 DEF NestedThrow, LateFails, ParentFinal, ParentChunk, LateAnswer, LateStream,
       LateDrop, ctxVars
  <1> QED
    BY <1>1, <1>2, <1>3, <1>4, <1>5 DEF Next, OwnNext

LEMMA NothingArrives ==
    ASSUME OwnNext
    PROVE  arrived' = arrived /\ (alive' => alive)
  <1>1. CASE \/ Register \/ SetParent \/ ClearParent \/ SetNested
             \/ Move \/ DestroyMoved \/ CloseBegin \/ CloseState \/ ClientGoes
    BY <1>1 DEF Register, SetParent, ClearParent, ReplaceParent, SetNested, Move,
       DestroyMoved, CloseBegin, CloseState, ClientGoes, NestedGoes, ParentGoes
  <1>2. CASE PollStep \/ HandlerStep \/ ZNext
    BY <1>2 DEF PollStep, PollBegin, DispatchHandler, DispatchForward, DispatchNone,
       HandlerReturn, HandlerThrow, HandlerResumeFails, CatchFails, DispatchEnd,
       NestedPollEnd, PollEnd, HandlerStep, HandlerAnswer, HandlerStream, HandlerKeep,
       HandlerNests, HandlerNestsGone, ZNext, ZCheck, ZSend, ZDrained, ZRecv,
       ZRecvThrows, ZPollTimeout
  <1>3. ASSUME NEW p \in Performs,
               \/ NestedThrow(p) \/ LateFails(p) \/ ParentFinal(p) \/ ParentChunk(p)
               \/ \E who \in {"thread", "nested"} :
                     LateAnswer(p, who) \/ LateStream(p, who) \/ LateDrop(p, who)
        PROVE  arrived' = arrived /\ (alive' => alive)
    BY <1>3 DEF NestedThrow, LateFails, ParentFinal, ParentChunk, LateAnswer, LateStream, LateDrop
  <1> QED
    BY <1>1, <1>2, <1>3 DEF OwnNext

LEMMA OutGrows ==
    ASSUME TypeOK, FrameStep
    PROVE  out' = out \/ \E f \in Frames : out' = Append(out, f)
  <1>1. CASE Sends
    <2>1. Head(sendQueue) \in Frames
      BY <1>1, HeadTailProperties DEF TypeOK, Sends
    <2> QED
      BY <1>1, <2>1 DEF Sends
  <1> QED
    BY <1>1 DEF FrameStep, Quiet, Answers, Finishes, Pushes

LEMMA FrameTypes ==
    ASSUME IsFiniteSet(Performs), TypeOK, FrameStep
    PROVE  /\ sendQueue' \in Seq(Frames) /\ out' \in Seq(Frames)
           /\ resumed' \subseteq Performs /\ lost' \subseteq Performs
  <1> USE DEF TypeOK
  <1>1. CASE Quiet
    BY <1>1 DEF Quiet
  <1>2. CASE Sends
    <2>1. Head(sendQueue) \in Frames /\ Tail(sendQueue) \in Seq(Frames)
      BY <1>2, HeadTailProperties DEF Sends
    <2>2. Append(out, Head(sendQueue)) \in Seq(Frames)
      BY <2>1, AppendProperties
    <2> QED
      BY <1>2, <2>1, <2>2 DEF Sends
  <1>3. ASSUME NEW ps \in SUBSET Performs, NEW failed \in SUBSET Performs,
               Answers(ps, failed)
        PROVE  /\ sendQueue' \in Seq(Frames) /\ out' \in Seq(Frames)
               /\ resumed' \subseteq Performs /\ lost' \subseteq Performs
    <2>1. SetToSeq({Final(p) : p \in ps}) \in Seq(Frames)
      BY FinalsSeq
    <2>2. sendQueue \o SetToSeq({Final(p) : p \in ps}) \in Seq(Frames)
      BY <2>1, ConcatProperties
    <2> QED
      BY <1>3, <2>2 DEF Answers
  <1>4. ASSUME NEW p \in Performs, Finishes(p)
        PROVE  /\ sendQueue' \in Seq(Frames) /\ out' \in Seq(Frames)
               /\ resumed' \subseteq Performs /\ lost' \subseteq Performs
    <2>1. Append(sendQueue, Final(p)) \in Seq(Frames)
      <3>1. Final(p) \in Frames
        BY DEF Final, Frames
      <3> QED
        BY <3>1, AppendProperties
    <2> QED
      BY <1>4, <2>1 DEF Finishes, Finish
  <1>5. ASSUME NEW f \in Frames, Pushes(f)
        PROVE  /\ sendQueue' \in Seq(Frames) /\ out' \in Seq(Frames)
               /\ resumed' \subseteq Performs /\ lost' \subseteq Performs
    BY <1>5, AppendProperties DEF Pushes
  <1> QED
    BY <1>1, <1>2, <1>3, <1>4, <1>5 DEF FrameStep

-----------------------------------------------------------------------------
(* Types.                                                                   *)

LEMMA TypeInit == Init => TypeInv
  <1> SUFFICES ASSUME Init PROVE TypeInv
    OBVIOUS
  <1>1. /\ items \in Seq(Performs) /\ recvQueue \in Seq(Performs)
        /\ inbox \in Seq(Performs)
        /\ sendQueue \in Seq(Frames) /\ out \in Seq(Frames)
    BY EmptySeq DEF Init
  <1>2. at \in 1..(Len(items) + 1)
    BY EmptySeq DEF Init
  <1>3. owners \in [Performs -> SUBSET Owners]
    BY DEF Init
  <1>4. HandlerAtItem
    BY DEF Init, HandlerAtItem
  <1> QED
    BY <1>1, <1>2, <1>3, <1>4 DEF Init, TypeInv, TypeOK

LEMMA TypeStep ==
    ASSUME IsFiniteSet(Performs), TypeInv, [Next]_vars
    PROVE  TypeInv'
  <1> USE DEF TypeInv, TypeOK, HandlerAtItem, InWait
  <1>0. /\ sendQueue' \in Seq(Frames) /\ out' \in Seq(Frames)
        /\ resumed' \subseteq Performs /\ lost' \subseteq Performs
    BY FrameSteps, FrameTypes
  <1>1. \A S : <<>> \in Seq(S)
    BY EmptySeq
  <1>2. Len(items) \in Nat /\ Len(<<>>) = 0
    BY LenProperties, EmptySeq
  <1>3. CASE Register
    BY <1>0, <1>3, ZenonT(40)
    DEF Register, Idle, On, Off, ClearHandlers, OnUnregistered, ctxVars
  <1>4. CASE SetParent \/ ClearParent
    <2>1. /\ mainPc \in {"app", "handler"} /\ parent' \in BOOLEAN
          /\ \/ mainPc' = "dropParent" /\ ret' = mainPc
             \/ UNCHANGED <<mainPc, ret>>
          /\ UNCHANGED <<alive, items, at, client, handlers, unregistered, nested,
                         running, recvQueue, zpc, owners, inbox, arrived, owed>>
      BY <1>4 DEF SetParent, ClearParent, ReplaceParent, Waits, Configuring, Idle,
         ctxVars
    <2> QED
      BY <1>0, <2>1
  <1>5. CASE SetNested
    BY <1>0, <1>5 DEF SetNested, Waits, Configuring, Idle, ctxVars
  <1>6. CASE Move
    BY <1>0, <1>6, ZenonT(40) DEF Move, Owners
  <1>7. CASE DestroyMoved
    BY <1>0, <1>7 DEF DestroyMoved, LetGo, regVars
  <1>8. CASE PollBegin
    <2>1. Len(recvQueue) \in Nat
      BY LenProperties
    <2>2. owners' \in [Performs -> SUBSET Owners]
      BY <1>8 DEF PollBegin, Owners
    <2> QED
      BY <1>0, <1>1, <1>8, <2>1, <2>2 DEF PollBegin, QueueAfterDrain, regVars
  <1>9. CASE DispatchHandler
    BY <1>0, <1>2, <1>9 DEF DispatchHandler, AtItem, regVars, ctxVars
  <1>10. CASE DispatchForward
    <2>1. owners' \in [Performs -> SUBSET Owners]
      BY <1>10 DEF DispatchForward, Owners
    <2>2. at' \in 1..(Len(items') + 1)
      BY <1>2, <1>10 DEF DispatchForward, AtItem
    <2> QED
      BY <1>0, <1>10, <2>1, <2>2 DEF DispatchForward, AtItem, regVars
  <1>11. CASE DispatchNone
    BY <1>0, <1>2, <1>11 DEF DispatchNone, AtItem, regVars
  <1>12. CASE HandlerAnswer
    BY <1>0, <1>12 DEF HandlerAnswer, regVars
  <1>13. CASE HandlerStream
    BY <1>0, <1>13 DEF HandlerStream, regVars, ctxVars
  <1>14. CASE HandlerKeep \/ HandlerNests
    BY <1>0, <1>14, ZenonT(40) DEF HandlerKeep, HandlerNests, regVars, Owners
  <1>30. CASE HandlerNestsGone \/ ZRecvThrows
    BY <1>0, <1>30 DEF HandlerNestsGone, ZRecvThrows, regVars, ctxVars
  <1>15. CASE HandlerReturn
    BY <1>0, <1>2, <1>15 DEF HandlerReturn, Leave, regVars, ctxVars
  <1>16. CASE HandlerThrow
    BY <1>0, <1>2, <1>16 DEF HandlerThrow, Leave, regVars
  <1>17. CASE HandlerResumeFails
    BY <1>0, <1>2, <1>17 DEF HandlerResumeFails, Leave, regVars
  <1>18. CASE CatchFails
    <2>1. owners' \in [Performs -> SUBSET Owners]
      BY <1>18 DEF CatchFails
    <2>2. /\ mainPc' = "app" /\ items' = <<>> /\ at' = 1 /\ client' = "null"
          /\ UNCHANGED <<alive, ret, handlers, unregistered, parent, nested, running,
                         recvQueue, zpc, inbox, arrived, owed>>
      BY <1>18 DEF CatchFails, regVars
    <2>3. items' \in Seq(Performs) /\ at' \in 1..(Len(items') + 1)
      BY <1>1, <1>2, <2>2
    <2> QED
      BY <1>0, <2>1, <2>2, <2>3
  <1>19. CASE DispatchEnd \/ NestedPollEnd
    BY <1>0, <1>19 DEF DispatchEnd, NestedPollEnd, regVars, ctxVars
  <1>20. ASSUME NEW p \in Performs, NestedThrow(p) PROVE TypeInv'
    <2>1. owners' \in [Performs -> SUBSET Owners]
      BY <1>20 DEF NestedThrow, Owners
    <2>2. /\ mainPc' = "app" /\ items' = <<>> /\ at' = 1
          /\ UNCHANGED <<alive, ret, client, handlers, unregistered, parent, nested,
                         running, recvQueue, zpc, inbox, arrived, owed>>
      BY <1>20 DEF NestedThrow, regVars
    <2>3. items' \in Seq(Performs) /\ at' \in 1..(Len(items') + 1)
      BY <1>1, <1>2, <2>2
    <2> QED
      BY <1>0, <2>1, <2>2, <2>3
  <1>21. ASSUME NEW p \in Performs, ParentFinal(p) \/ ParentChunk(p) PROVE TypeInv'
    <2>1. owners' \in [Performs -> SUBSET Owners]
      BY <1>21 DEF ParentFinal, ParentChunk
    <2>2. UNCHANGED <<alive, mainPc, ret, items, at, client, handlers, unregistered,
                      parent, nested, running, recvQueue, zpc, inbox, arrived, owed>>
      BY <1>21 DEF ParentFinal, ParentChunk, regVars
    <2> QED
      BY <1>0, <2>1, <2>2
  <1>22. CASE PollEnd
    BY <1>0, <1>1, <1>2, <1>22 DEF PollEnd, LetGo, regVars
  <1>23. CASE CloseBegin
    <2>1. owed' \subseteq Frames
      BY <1>23, ElementOfSeq, LenProperties DEF CloseBegin
    <2> QED
      BY <1>0, <1>23, <2>1 DEF CloseBegin, Configuring, Idle, regVars, ctxVars
  <1>24. CASE CloseState
    BY <1>0, <1>1, <1>24 DEF CloseState, LetGo
  <1>31. CASE NestedGoes
    BY <1>0, <1>31 DEF NestedGoes, LetGo
  <1>32. CASE ParentGoes
    BY <1>0, <1>32 DEF ParentGoes, LetGo
  <1>33. ASSUME NEW p \in Performs, LateFails(p) PROVE TypeInv'
    BY <1>0, <1>33 DEF LateFails, regVars
  <1>25. ASSUME NEW p \in Performs, NEW who \in {"thread", "nested"},
                LateAnswer(p, who) \/ LateStream(p, who) \/ LateDrop(p, who)
         PROVE  TypeInv'
    <2>1. owners' \in [Performs -> SUBSET Owners]
      BY <1>25 DEF LateAnswer, LateStream, LateDrop, LetGo, ctxVars
    <2> QED
      BY <1>0, <1>25, <2>1 DEF LateAnswer, LateStream, LateDrop, regVars, ctxVars
  <1>26. CASE ZCheck \/ ZSend \/ ZDrained \/ ZPollTimeout
    BY <1>0, <1>26 DEF ZCheck, ZSend, ZDrained, ZPollTimeout, NextRound, AfterDrain,
       regVars, ctxVars
  <1>27. CASE ZRecv
    <2>1. Head(inbox) \in Performs /\ Tail(inbox) \in Seq(Performs)
      BY <1>27, HeadTailProperties DEF ZRecv
    <2>2. Append(recvQueue, Head(inbox)) \in Seq(Performs)
      BY <2>1, AppendProperties
    <2>3. /\ recvQueue' \in Seq(Performs) /\ inbox' \in Seq(Performs)
          /\ owners' \in [Performs -> SUBSET Owners]
      BY <1>27, <2>1, <2>2 DEF ZRecv, Owners
    <2> QED
      BY <1>0, <1>27, <2>3 DEF ZRecv, regVars
  <1>28. ASSUME NEW p \in Performs, ClientSends(p) PROVE TypeInv'
    <2>1. Append(inbox, p) \in Seq(Performs)
      BY AppendProperties
    <2> QED
      BY <1>0, <1>28, <2>1 DEF ClientSends, regVars, ctxVars
  <1>29. CASE UNCHANGED vars
    BY <1>29 DEF vars, regVars, ctxVars
  <1> QED
    BY <1>3, <1>4, <1>5, <1>6, <1>7, <1>8, <1>9, <1>10, <1>11, <1>12, <1>13, <1>14,
       <1>15, <1>16, <1>17, <1>18, <1>19, <1>20, <1>21, <1>22, <1>23, <1>24, <1>25,
       <1>26, <1>27, <1>28, <1>29, <1>30, <1>31, <1>32, <1>33
       DEF Next, OwnNext, ClientGoes, PollStep, HandlerStep, ZNext, Crashed

LEMMA TypeInvAlways == ASSUME IsFiniteSet(Performs) PROVE Spec => []TypeInv
  BY TypeInit, TypeStep, PTL DEF Spec

(* Every variable of the router keeps its type; in particular poll() stays  *)
(* within the vector it drained, and every frame belongs to a perform or    *)
(* answers a message that did not parse.                                    *)
THEOREM TypeCorrect == ASSUME IsFiniteSet(Performs) PROVE Spec => []TypeOK
  BY TypeInvAlways, PTL DEF TypeInv

-----------------------------------------------------------------------------
(* No context is forgotten.  An owner that lets go either was not the last  *)
(* one or leaves the context resumed, by its destructor or by the failure   *)
(* of an answer; all other steps add owners or resume.                      *)

Safe(p) == p \in resumed \/ owners[p] # {}

LEMMA LetGoSafe ==
    ASSUME NEW ps \in SUBSET Performs, NEW who, LetGo(ps, who),
           NEW p \in Performs, Safe(p)
    PROVE  Safe(p)'
  <1>1. resumed' = resumed \cup Dropped(ps, who)
    BY DEF LetGo
  <1>2. owners'[p] = IF p \in ps THEN owners[p] \ who ELSE owners[p]
    BY DEF LetGo
  <1>3. CASE p \in ps /\ owners[p] # {} /\ owners[p] \subseteq who
    BY <1>1, <1>3 DEF Dropped, Safe
  <1>4. CASE ~(p \in ps /\ owners[p] # {} /\ owners[p] \subseteq who)
    BY <1>1, <1>2, <1>4 DEF Safe
  <1> QED
    BY <1>3, <1>4

(* Only the ZMQ thread makes a perform a received one.                      *)
LEMMA ReceivedStep ==
    ASSUME TypeOK, [Next]_vars, NEW p \in Performs, Received(p)'
    PROVE  Received(p) \/ (ZRecv /\ p = Head(inbox) /\ p \notin Malformed)
  <1> USE DEF TypeOK
  <1>1. CASE UNCHANGED <<inbox, arrived>>
    BY <1>1 DEF Received
  <1>2. CASE ZRecv
    <2>1. /\ inbox # <<>> /\ inbox' = Tail(inbox) /\ arrived' = arrived
      BY <1>2 DEF ZRecv
    <2>2. /\ Len(inbox) \in Nat /\ DOMAIN inbox = 1..Len(inbox)
          /\ Tail(inbox) \in Seq(Performs) /\ Len(Tail(inbox)) = Len(inbox) - 1
          /\ \A i \in 1..Len(Tail(inbox)) : Tail(inbox)[i] = inbox[i + 1]
      BY <2>1, HeadTailProperties, LenProperties
    <2>3. DOMAIN Tail(inbox) = 1..(Len(inbox) - 1)
      BY <2>2, LenProperties
    <2>4. Head(inbox) = inbox[1]
      BY <2>1
    <2>5. ASSUME p # Head(inbox), NEW i \in DOMAIN inbox PROVE inbox[i] # p
      <3>1. CASE i = 1
        BY <2>4, <2>5, <3>1
      <3>2. CASE i # 1
        <4>1. i - 1 \in 1..(Len(inbox) - 1) /\ (i - 1) + 1 = i
          BY <2>2, <3>2
        <4>2. Tail(inbox)[i - 1] = inbox[i]
          BY <2>2, <4>1
        <4>3. inbox'[i - 1] # p
          BY <2>1, <2>3, <4>1 DEF Received
        <4> QED
          BY <2>1, <4>2, <4>3
      <3> QED
        BY <3>1, <3>2
    <2> QED
      BY <1>2, <2>1, <2>5 DEF Received
  <1>3. ASSUME NEW q \in Performs, ClientSends(q) PROVE Received(p)
    <2>1. /\ arrived' = arrived \cup {q}
          /\ inbox' = Append(inbox, q)
      BY <1>3 DEF ClientSends
    <2>2. /\ Append(inbox, q) \in Seq(Performs)
          /\ Len(Append(inbox, q)) = Len(inbox) + 1
          /\ \A i \in 1..Len(inbox) : Append(inbox, q)[i] = inbox[i]
          /\ Append(inbox, q)[Len(inbox) + 1] = q
      BY AppendProperties
    <2>3. /\ Len(inbox) \in Nat /\ DOMAIN inbox = 1..Len(inbox)
          /\ DOMAIN Append(inbox, q) = 1..(Len(inbox) + 1)
      BY <2>2, LenProperties
    <2> DEFINE longer == Append(inbox, q)
    <2>4. \A i \in DOMAIN longer : longer[i] # p
      BY <2>1 DEF Received
    <2>5. p # q /\ \A i \in DOMAIN inbox : inbox[i] # p
      <3> HIDE DEF longer
      <3>1. /\ Len(inbox) \in Nat /\ DOMAIN longer = 1..(Len(inbox) + 1)
            /\ longer[Len(inbox) + 1] = q
            /\ \A i \in 1..Len(inbox) : longer[i] = inbox[i]
        BY <2>2, <2>3 DEF longer
      <3>2. q # p
        BY <2>4, <3>1
      <3>3. ASSUME NEW i \in DOMAIN inbox PROVE inbox[i] # p
        <4>1. i \in DOMAIN longer /\ longer[i] = inbox[i]
          BY <2>3, <3>1
        <4> QED
          BY <2>4, <4>1
      <3> QED
        BY <3>2, <3>3
    <2> QED
      BY <2>1, <2>5 DEF Received
  <1>4. \/ UNCHANGED <<inbox, arrived>> \/ ZRecv
        \/ \E q \in Performs : ClientSends(q)
    BY DEF Next, OwnNext, PollStep, HandlerStep, ZNext, Crashed, Register,
       SetParent, ClearParent, ReplaceParent, SetNested, Move, DestroyMoved,
       PollBegin, DispatchHandler, DispatchForward, DispatchNone, HandlerReturn,
       HandlerThrow, HandlerResumeFails, CatchFails, DispatchEnd, NestedPollEnd,
       PollEnd, HandlerAnswer, HandlerStream, HandlerKeep, HandlerNests, HandlerNestsGone,
       CloseBegin, CloseState, ClientGoes, NestedGoes, ParentGoes, LateFails,
       ZRecvThrows, NestedThrow, ParentFinal, ParentChunk, LateAnswer, LateStream,
       LateDrop, ZCheck, ZSend, ZDrained, ZPollTimeout, vars
  <1> QED
    BY <1>1, <1>2, <1>3, <1>4

LEMMA SafeStep ==
    ASSUME TypeInv, [Next]_vars, NEW p \in Performs, Safe(p)
    PROVE  Safe(p)'
  <1> USE DEF TypeInv, TypeOK
  <1>1. CASE \/ Register \/ SetParent \/ ClearParent \/ SetNested
             \/ DispatchHandler \/ HandlerReturn \/ HandlerStream
             \/ HandlerNestsGone \/ DispatchEnd \/ NestedPollEnd \/ CloseBegin
             \/ ZCheck \/ ZSend \/ ZDrained \/ ZRecvThrows \/ ZPollTimeout
             \/ (\E q \in Performs : ClientSends(q))
             \/ (\E q \in Performs, who \in {"thread", "nested"} : LateStream(q, who))
             \/ UNCHANGED vars
    <2>1. UNCHANGED <<owners, resumed>>
      BY <1>1 DEF Register, SetParent, ClearParent, ReplaceParent, SetNested,
         DispatchHandler, HandlerReturn, HandlerStream, HandlerNestsGone,
         DispatchEnd, NestedPollEnd, CloseBegin, ZCheck, ZSend, ZDrained,
         ZRecvThrows, ZPollTimeout, ClientSends, LateStream, vars, ctxVars
    <2> QED
      BY <2>1 DEF Safe
  <1>2. CASE \/ DestroyMoved \/ PollEnd \/ CloseState \/ ClientGoes
             \/ \E q \in Performs, who \in {"thread", "nested"} : LateDrop(q, who)
    <2>1. PICK ps \in SUBSET Performs, who \in SUBSET Owners : LetGo(ps, who)
      BY <1>2 DEF DestroyMoved, PollEnd, CloseState, ClientGoes, NestedGoes,
         ParentGoes, LateDrop, Owners
    <2> QED
      BY <2>1, LetGoSafe
  <1>3. CASE Move \/ PollBegin
    <2>1. resumed' = resumed /\ (owners[p] # {} => owners'[p] # {})
      BY <1>3 DEF Move, PollBegin
    <2> QED
      BY <2>1 DEF Safe
  <1>4. CASE DispatchForward \/ HandlerKeep \/ HandlerNests
    <2>1. resumed' = resumed /\ owners[p] \subseteq owners'[p]
      BY <1>4 DEF DispatchForward, HandlerKeep, HandlerNests
    <2> QED
      BY <2>1 DEF Safe
  <1>5. CASE \/ DispatchNone \/ HandlerAnswer \/ HandlerThrow \/ HandlerResumeFails
             \/ \E q \in Performs : ParentChunk(q) \/ LateFails(q)
             \/ \E q \in Performs, who \in {"thread", "nested"} : LateAnswer(q, who)
    <2>1. resumed \subseteq resumed' /\ owners' = owners
      BY <1>5 DEF DispatchNone, HandlerAnswer, HandlerThrow, HandlerResumeFails,
         ParentChunk, LateAnswer, LateFails, Finish
    <2> QED
      BY <2>1 DEF Safe
  <1>6. ASSUME NEW q \in Performs, ParentFinal(q) PROVE Safe(p)'
    BY <1>6 DEF ParentFinal, Finish, Safe
  <1>7. CASE CatchFails
    <2>1. /\ resumed' = resumed \cup {Current} \cup Dropped(Performs \ {Current}, {"items"})
          /\ owners'[p] = owners[p] \ {"items"}
      BY <1>7 DEF CatchFails
    <2>2. CASE owners[p] # {} /\ owners[p] \subseteq {"items"}
      BY <2>1, <2>2 DEF Dropped, Safe
    <2>3. CASE ~(owners[p] # {} /\ owners[p] \subseteq {"items"})
      BY <2>1, <2>3 DEF Safe
    <2> QED
      BY <2>2, <2>3
  <1>8. ASSUME NEW q \in Performs, NestedThrow(q) PROVE Safe(p)'
    <2> DEFINE Who(r, ends) == {"items"} \cup (IF r = q THEN ends ELSE {})
               Gone(failed, ends) == {r \in Performs \ (resumed \cup failed) :
                                        owners[r] # {} /\ owners[r] \subseteq Who(r, ends)}
    <2>1. PICK stranded \in SUBSET (Held("nested") \ {q}),
               failed \in SUBSET ({q} \ resumed), ends \in SUBSET {"nested"} :
             /\ owners' = [r \in Performs |->
                              IF r \in stranded
                              THEN (owners[r] \ {"items", "nested"}) \cup {"stranded"}
                              ELSE owners[r] \ Who(r, ends)]
             /\ lost'      = lost \cup failed
             /\ resumed'   = resumed \cup failed \cup Gone(failed, ends)
             /\ sendQueue' = sendQueue \o SetToSeq({Final(r) : r \in Gone(failed, ends)})
      BY <1>8, Zenon DEF NestedThrow
    <2>2. CASE p \in stranded
      BY <2>1, <2>2 DEF Safe
    <2>3. CASE p \notin stranded /\ owners[p] # {} /\ owners[p] \subseteq Who(p, ends)
      BY <2>1, <2>3 DEF Safe
    <2>4. CASE p \notin stranded /\ ~(owners[p] # {} /\ owners[p] \subseteq Who(p, ends))
      <3>1. owners'[p] = owners[p] \ Who(p, ends)
        BY <2>1, <2>4
      <3>2. owners[p] # {} => owners'[p] # {}
        BY <2>4, <3>1
      <3> QED
        BY <2>1, <3>2 DEF Safe
    <2> QED
      BY <2>2, <2>3, <2>4
  <1>9. CASE ZRecv
    <2>1. resumed' = resumed /\ (owners[p] # {} => owners'[p] # {})
      BY <1>9 DEF ZRecv
    <2> QED
      BY <2>1 DEF Safe
  <1> QED
    BY <1>1, <1>2, <1>3, <1>4, <1>5, <1>6, <1>7, <1>8, <1>9
       DEF Next, OwnNext, PollStep, HandlerStep, ZNext, Crashed

LEMMA NoneForgottenStep ==
    ASSUME TypeInv, NoneForgotten, [Next]_vars
    PROVE  NoneForgotten'
  <1> SUFFICES ASSUME NEW p \in Performs, Received(p)' PROVE Safe(p)'
    BY DEF NoneForgotten, Safe
  <1>1. CASE Received(p)
    <2>1. Safe(p)
      BY <1>1 DEF NoneForgotten, Safe
    <2> QED
      BY <2>1, SafeStep
  <1>2. CASE ZRecv /\ p = Head(inbox) /\ p \notin Malformed
    <2>1. owners'[p] = {"queue"}
      BY <1>2 DEF ZRecv, TypeInv, TypeOK
    <2> QED
      BY <2>1 DEF Safe
  <1> QED
    BY <1>1, <1>2, ReceivedStep DEF TypeInv

(* Whatever handlers, threads and parents do, whatever throws, is replaced, *)
(* moved or closed: a perform the router received is answered or in the     *)
(* hands of somebody who can still answer it.                               *)
THEOREM NoneForgottenAlways ==
    ASSUME IsFiniteSet(Performs) PROVE Spec => []NoneForgotten
  <1>1. Init => NoneForgotten
    BY DEF Init, NoneForgotten, Received
  <1>2. TypeInv /\ NoneForgotten /\ [Next]_vars => NoneForgotten'
    BY NoneForgottenStep
  <1> QED
    BY <1>1, <1>2, TypeInvAlways, PTL DEF Spec

-----------------------------------------------------------------------------
(* One final frame for each answered context.  It needs that a lost answer  *)
(* belongs to a resumed context, so that nobody answers for it again.       *)

OnceInv == TypeInv /\ AnsweredOnce /\ lost \subseteq resumed

LEMMA OnceFrame ==
    ASSUME IsFiniteSet(Performs), OnceInv, FrameStep
    PROVE  AnsweredOnce' /\ lost' \subseteq resumed'
  <1> USE DEF OnceInv, TypeInv, TypeOK
  <1> DEFINE Once(p) == FinalsOf(p)' = (IF p \in resumed' \ lost' THEN 1 ELSE 0)
  <1>1. ASSUME NEW p \in Performs
        PROVE  /\ Count(Final(p), sendQueue) \in Nat /\ Count(Final(p), out) \in Nat
               /\ Count(Final(p), sendQueue) + Count(Final(p), out)
                     = (IF p \in resumed \ lost THEN 1 ELSE 0)
    BY CountType DEF AnsweredOnce, FinalsOf
  <1>2. ASSUME Quiet PROVE AnsweredOnce' /\ lost' \subseteq resumed'
    BY <1>2 DEF Quiet, FinalsOf, AnsweredOnce
  <1>3. ASSUME Sends PROVE AnsweredOnce' /\ lost' \subseteq resumed'
    <2>1. Head(sendQueue) \in Frames /\ Tail(sendQueue) \in Seq(Frames)
      BY <1>3, HeadTailProperties DEF Sends
    <2>2. ASSUME NEW p \in Performs PROVE Once(p)
      <3>1. Count(Final(p), sendQueue)
               = (IF Final(p) = Head(sendQueue) THEN 1 ELSE 0)
                 + Count(Final(p), Tail(sendQueue))
        BY <1>3, CountHeadTail DEF Sends
      <3>2. Count(Final(p), Append(out, Head(sendQueue)))
               = Count(Final(p), out) + (IF Final(p) = Head(sendQueue) THEN 1 ELSE 0)
        BY <2>1, CountAppend
      <3>3. Count(Final(p), Tail(sendQueue)) \in Nat
        BY <2>1, CountType
      <3> QED
        BY <1>1, <1>3, <3>1, <3>2, <3>3 DEF Sends, FinalsOf
    <2> QED
      BY <1>3, <2>2 DEF Sends, AnsweredOnce
  <1>4. ASSUME NEW ps \in SUBSET Performs, NEW failed \in SUBSET Performs,
               Answers(ps, failed)
        PROVE  AnsweredOnce' /\ lost' \subseteq resumed'
    <2> DEFINE finals == SetToSeq({Final(p) : p \in ps})
    <2>1. ASSUME NEW p \in Performs PROVE Once(p)
      <3>1. finals \in Seq(Frames) /\ Count(Final(p), finals) = IF p \in ps THEN 1 ELSE 0
        BY FinalsSeq
      <3> HIDE DEF finals
      <3>2. Count(Final(p), sendQueue \o finals)
               = Count(Final(p), sendQueue) + Count(Final(p), finals)
        BY <3>1, CountConcat
      <3>3. sendQueue' = sendQueue \o finals /\ out' = out
        BY <1>4 DEF Answers, finals
      <3>4. FinalsOf(p)' = Count(Final(p), sendQueue) + (IF p \in ps THEN 1 ELSE 0)
                             + Count(Final(p), out)
        BY <3>1, <3>2, <3>3 DEF FinalsOf
      <3>5. p \in resumed' \ lost' <=> p \in ps \/ p \in resumed \ lost
        BY <1>4 DEF Answers
      <3>6. p \in ps => p \notin resumed
        BY <1>4 DEF Answers
      <3> QED
        BY <1>1, <3>4, <3>5, <3>6
    <2> QED
      BY <1>4, <2>1 DEF Answers, AnsweredOnce
  <1>5. ASSUME NEW q \in Performs, Finishes(q)
        PROVE  AnsweredOnce' /\ lost' \subseteq resumed'
    <2>1. CASE q \in resumed
      BY <1>1, <1>5, <2>1 DEF Finishes, Finish, FinalsOf, AnsweredOnce
    <2>2. CASE q \notin resumed
      <3>1. Final(q) \in Frames
        BY DEF Final, Frames
      <3>2. ASSUME NEW p \in Performs PROVE Once(p)
        <4>1. Count(Final(p), Append(sendQueue, Final(q)))
                 = Count(Final(p), sendQueue) + (IF p = q THEN 1 ELSE 0)
          BY <3>1, CountAppend DEF Final
        <4> QED
          BY <1>1, <1>5, <2>2, <4>1 DEF Finishes, Finish, FinalsOf
      <3> QED
        BY <1>5, <3>2 DEF Finishes, Finish, AnsweredOnce
    <2> QED
      BY <2>1, <2>2
  <1>6. ASSUME NEW f \in Frames, Pushes(f)
        PROVE  AnsweredOnce' /\ lost' \subseteq resumed'
    <2>1. ASSUME NEW p \in Performs PROVE Once(p)
      <3>1. Count(Final(p), Append(sendQueue, f)) = Count(Final(p), sendQueue)
        BY <1>1, <1>6, CountAppend DEF Pushes
      <3> QED
        BY <1>1, <1>6, <3>1 DEF Pushes, FinalsOf
    <2> QED
      BY <1>6, <2>1 DEF Pushes, AnsweredOnce
  <1> QED
    BY <1>2, <1>3, <1>4, <1>5, <1>6 DEF FrameStep

LEMMA OnceStep ==
    ASSUME IsFiniteSet(Performs), OnceInv, [Next]_vars
    PROVE  OnceInv'
  BY OnceFrame, FrameSteps, TypeStep DEF OnceInv

(* Handlers, threads, the parent, the catch and the destructor may all try  *)
(* to answer one perform: one final frame is made, or none when serialising *)
(* it failed.                                                               *)
THEOREM AnsweredOnceAlways ==
    ASSUME IsFiniteSet(Performs) PROVE Spec => []AnsweredOnce
  <1>1. Init => OnceInv
    <2>1. Init => \A p \in Performs : FinalsOf(p) = 0
      BY CountEmpty DEF Init, FinalsOf
    <2> QED
      BY <2>1, TypeInit DEF Init, OnceInv, AnsweredOnce
  <1>2. OnceInv /\ [Next]_vars => OnceInv'
    BY OnceStep
  <1>3. OnceInv => AnsweredOnce
    BY DEF OnceInv
  <1> QED
    BY <1>1, <1>2, <1>3, PTL DEF Spec

-----------------------------------------------------------------------------
(* What was queued before close() is sent.  Until the ZMQ thread exits it   *)
(* is in the send queue or out, and the thread exits only when the queue is *)
(* empty; before close() it does not get that far.                          *)

Among(f, s) == \E i \in DOMAIN s : s[i] = f

OwedInv == /\ zpc \in {"flush", "exited"} => ~running
           /\ \A f \in owed : \/ Among(f, out)
                              \/ zpc # "exited" /\ Among(f, sendQueue)

LEMMA AmongKept ==
    ASSUME IsFiniteSet(Performs), TypeOK, FrameStep, NEW f
    PROVE  /\ Among(f, out) => Among(f, out')
           /\ Among(f, sendQueue) => Among(f, sendQueue') \/ Among(f, out')
  <1> USE DEF TypeOK
  <1>1. ASSUME NEW s \in Seq(Frames), NEW t \in Seq(Frames), Among(f, s)
        PROVE  Among(f, s \o t)
    <2>1. PICK i \in 1..Len(s) : s[i] = f
      BY <1>1, LenProperties DEF Among
    <2>2. Len(s) \in Nat /\ Len(t) \in Nat /\ s \o t \in Seq(Frames)
          /\ Len(s \o t) = Len(s) + Len(t)
      BY ConcatProperties, LenProperties
    <2>3. i \in 1..Len(s) + Len(t) /\ i \in DOMAIN (s \o t)
      BY <2>2, LenProperties
    <2>4. (s \o t)[i] = f
      BY <2>1, <2>3, ConcatProperties
    <2> QED
      BY <2>3, <2>4 DEF Among
  <1>2. ASSUME NEW s \in Seq(Frames), NEW g \in Frames
        PROVE  Among(g, Append(s, g)) /\ (Among(f, s) => Among(f, Append(s, g)))
    <2>1. Append(s, g) = s \o <<g>> /\ <<g>> \in Seq(Frames)
      BY AppendIsConcat
    <2>2. Len(s) \in Nat /\ DOMAIN Append(s, g) = 1..(Len(s) + 1)
          /\ Append(s, g)[Len(s) + 1] = g
      BY AppendProperties, LenProperties
    <2>3. Len(s) + 1 \in DOMAIN Append(s, g)
      BY <2>2
    <2>4. Among(g, Append(s, g))
      BY <2>2, <2>3 DEF Among
    <2> QED
      BY <1>1, <2>1, <2>4
  <1>3. CASE Quiet
    BY <1>3 DEF Quiet
  <1>4. CASE Sends
    <2>1. /\ Head(sendQueue) \in Frames /\ Tail(sendQueue) \in Seq(Frames)
          /\ Head(sendQueue) = sendQueue[1]
          /\ Len(sendQueue) \in Nat /\ DOMAIN sendQueue = 1..Len(sendQueue)
          /\ Len(Tail(sendQueue)) = Len(sendQueue) - 1
          /\ \A i \in 1..Len(Tail(sendQueue)) : Tail(sendQueue)[i] = sendQueue[i + 1]
      BY <1>4, HeadTailProperties, LenProperties DEF Sends
    <2>2. DOMAIN Tail(sendQueue) = 1..(Len(sendQueue) - 1)
      BY <2>1, LenProperties
    <2>3. ASSUME Among(f, sendQueue) PROVE Among(f, sendQueue') \/ Among(f, out')
      <3>1. PICK i \in 1..Len(sendQueue) : sendQueue[i] = f
        BY <2>1, <2>3 DEF Among
      <3>2. CASE i = 1
        BY <1>2, <1>4, <2>1, <3>1, <3>2 DEF Sends
      <3>3. CASE i # 1
        <4>1. i - 1 \in 1..(Len(sendQueue) - 1) /\ (i - 1) + 1 = i
          BY <2>1, <3>3
        <4> QED
          BY <1>4, <2>1, <2>2, <3>1, <4>1 DEF Sends, Among
      <3> QED
        BY <3>2, <3>3
    <2> QED
      BY <1>2, <1>4, <2>1, <2>3 DEF Sends
  <1>5. ASSUME NEW ps \in SUBSET Performs, NEW failed \in SUBSET Performs,
               Answers(ps, failed)
        PROVE  out' = out /\ (Among(f, sendQueue) => Among(f, sendQueue'))
    <2>1. SetToSeq({Final(p) : p \in ps}) \in Seq(Frames)
      BY FinalsSeq
    <2> QED
      BY <1>1, <1>5, <2>1 DEF Answers
  <1>6. ASSUME NEW p \in Performs, Finishes(p)
        PROVE  out' = out /\ (Among(f, sendQueue) => Among(f, sendQueue'))
    <2>1. Final(p) \in Frames
      BY DEF Final, Frames
    <2> QED
      BY <1>2, <1>6, <2>1 DEF Finishes, Finish
  <1>7. ASSUME NEW g \in Frames, Pushes(g)
        PROVE  out' = out /\ (Among(f, sendQueue) => Among(f, sendQueue'))
    BY <1>2, <1>7 DEF Pushes
  <1> QED
    BY <1>3, <1>4, <1>5, <1>6, <1>7 DEF FrameStep

LEMMA OwedStep ==
    ASSUME IsFiniteSet(Performs), TypeInv, OwedInv, [Next]_vars
    PROVE  OwedInv'
  <1> USE DEF TypeInv, OwedInv
  <1>1. FrameStep
    BY FrameSteps
  <1>2. \A f : /\ Among(f, out) => Among(f, out')
               /\ Among(f, sendQueue) => Among(f, sendQueue') \/ Among(f, out')
    BY <1>1, AmongKept
  <1>3. CASE UNCHANGED <<zpc, running, owed>>
    BY <1>2, <1>3
  <1>4. CASE CloseBegin
    BY <1>4 DEF CloseBegin, Among
  <1>5. CASE ZCheck \/ ZRecv \/ ZPollTimeout
    <2>1. /\ zpc' # "exited" /\ UNCHANGED <<running, owed>>
          /\ zpc' = "flush" => ~running
          /\ zpc # "exited"
      BY <1>5 DEF ZCheck, ZRecv, ZPollTimeout, NextRound
    <2> QED
      BY <1>2, <2>1
  <1>6. CASE ZDrained
    <2>1. \A f : ~Among(f, sendQueue)
      BY <1>6 DEF ZDrained, Among
    <2> QED
      BY <1>6, <2>1 DEF ZDrained, AfterDrain
  <1>7. CASE zpc' = "terminated" /\ UNCHANGED <<running, owed>>
    BY <1>2, <1>7
  <1>8. \/ UNCHANGED <<zpc, running, owed>> \/ CloseBegin
        \/ ZCheck \/ ZRecv \/ ZPollTimeout \/ ZDrained
        \/ (zpc' = "terminated" /\ UNCHANGED <<running, owed>>)
    BY DEF Next, OwnNext, PollStep, HandlerStep, ZNext, Crashed, Register,
       SetParent, ClearParent, ReplaceParent, SetNested, Move, DestroyMoved,
       PollBegin, DispatchHandler, DispatchForward, DispatchNone, HandlerReturn,
       HandlerThrow, HandlerResumeFails, CatchFails, DispatchEnd, NestedPollEnd,
       PollEnd, HandlerAnswer, HandlerStream, HandlerKeep, HandlerNests, HandlerNestsGone,
       CloseState, ClientGoes, NestedGoes, ParentGoes, LateFails, NestedThrow, ParentFinal, ParentChunk, LateAnswer, LateStream,
       LateDrop, ZSend, ZRecvThrows, ClientSends, vars
  <1> QED
    BY <1>3, <1>4, <1>5, <1>6, <1>8, <1>7

(* close() returns with every frame handed to the socket that was queued    *)
(* when it was called.                                                      *)
THEOREM OwedIsSentAlways ==
    ASSUME IsFiniteSet(Performs) PROVE Spec => []OwedIsSent
  <1>1. Init => OwedInv
    BY DEF Init, OwedInv
  <1>2. TypeInv /\ OwedInv /\ [Next]_vars => OwedInv'
    BY OwedStep
  <1>3. OwedInv => OwedIsSent
    BY DEF OwedInv, OwedIsSent, Among
  <1> QED
    BY <1>1, <1>2, <1>3, TypeInvAlways, PTL DEF Spec

-----------------------------------------------------------------------------
(* The queues agree with the owners.  It needs that a perform becomes a     *)
(* context once: until the ZMQ thread takes it from the socket, where it is *)
(* once, nobody owns a context of it.  And outside poll() the vector poll() *)
(* drains into is empty, also while a close() or a set_parent() called      *)
(* there waits.                                                             *)

Waiting(p) == Count(p, inbox) + (IF p \in arrived THEN 0 ELSE 1)

Unborn == \A p \in Performs : Waiting(p) <= 1 /\ (Waiting(p) = 1 => owners[p] = {})

ItemsInPoll == mainPc = "app" \/ (InWait /\ ret = "app") => items = <<>>

(* Only a handler, also while it waits, has a client to perform on; and it   *)
(* is there while the handler has not replaced it or closed the router.     *)
HandlersClient ==
    /\ client # "null" => \/ mainPc \in {"handler", "crashed"}
                          \/ InWait /\ ret = "handler"
    /\ client = "live" => nested

QueuesInv == Unborn /\ ItemsInPoll /\ HandlersClient /\ QueuesMatchOwners

(* A step that moves contexts between owners and takes nothing in: a queue  *)
(* is left as it is or emptied, and nobody owns a context nobody owned.     *)
HandsOver ==
    /\ UNCHANGED <<inbox, arrived>>
    /\ \A p \in Performs :
        /\ \/ recvQueue' = recvQueue /\ ("queue" \in owners'[p] <=> "queue" \in owners[p])
           \/ recvQueue' = <<>> /\ "queue" \notin owners'[p]
        /\ \/ items' = items /\ ("items" \in owners'[p] <=> "items" \in owners[p])
           \/ items' = <<>> /\ "items" \notin owners'[p]
        /\ owners[p] = {} => owners'[p] = {}
        /\ "parent" \in owners'[p] => ParentThere'
        /\ owners'[p] \cap {"nested", "stranded"} # {} => nested'

(* The parent client goes in one way only.                                  *)
LEMMA ParentStays ==
    ASSUME [Next]_vars, ParentThere, ~ParentGoes
    PROVE  ParentThere'
  <1> USE DEF ParentThere
  <1>1. CASE SetParent \/ ClearParent \/ SetNested
    BY <1>1 DEF SetParent, ClearParent, ReplaceParent, SetNested, Waits,
       Configuring, Idle
  <1>2. CASE \/ Register \/ Move \/ DestroyMoved \/ CloseBegin \/ CloseState
             \/ NestedGoes
    BY <1>2 DEF Register, Move, DestroyMoved, CloseBegin, CloseState, NestedGoes,
       Configuring, Idle, regVars
  <1>3. CASE PollStep
    BY <1>3 DEF PollStep, PollBegin, DispatchHandler, DispatchForward, DispatchNone,
       HandlerReturn, HandlerThrow, HandlerResumeFails, CatchFails, DispatchEnd,
       NestedPollEnd, PollEnd, AtItem, Idle, regVars
  <1>4. CASE HandlerStep \/ ZNext
    BY <1>4 DEF HandlerStep, HandlerAnswer, HandlerStream, HandlerKeep, HandlerNests,
       HandlerNestsGone, ZNext, ZCheck, ZSend, ZDrained, ZRecv, ZRecvThrows,
       ZPollTimeout, regVars
  <1>5. ASSUME NEW p \in Performs,
               \/ NestedThrow(p) \/ LateFails(p) \/ ParentFinal(p) \/ ParentChunk(p)
               \/ \E who \in {"thread", "nested"} :
                     LateAnswer(p, who) \/ LateStream(p, who) \/ LateDrop(p, who)
               \/ ClientSends(p)
        PROVE  ParentThere'
    BY <1>5 DEF NestedThrow, LateFails, ParentFinal, ParentChunk, LateAnswer,
       LateStream, LateDrop, ClientSends, regVars
  <1>6. CASE Crashed \/ UNCHANGED vars
    BY <1>6 DEF Crashed, vars, regVars
  <1> QED
    BY <1>1, <1>2, <1>3, <1>4, <1>5, <1>6 DEF Next, OwnNext, ClientGoes

LEMMA HandsOverKeeps ==
    ASSUME TypeOK, Unborn, QueuesMatchOwners, HandsOver
    PROVE  Unborn' /\ QueuesMatchOwners'
  <1>1. \A p \in Performs : Count(p, <<>>) = 0
    BY CountEmpty
  <1>2. Unborn'
    BY DEF Unborn, Waiting, HandsOver
  <1>3. QueuesMatchOwners'
    BY <1>1 DEF QueuesMatchOwners, HandsOver
  <1> QED
    BY <1>2, <1>3

(* The context a handler has is in the vector.                              *)
LEMMA CurrentOwned ==
    ASSUME TypeOK, QueuesMatchOwners, at \in 1..Len(items)
    PROVE  Current \in Performs /\ "items" \in owners[Current]
  <1>1. Current \in Performs
    BY CurrentIsPerform
  <1>2. Count(Current, items) # 0
    BY CountSome DEF TypeOK, Current
  <1> QED
    BY <1>1, <1>2 DEF QueuesMatchOwners

LEMMA LetGoHandsOver ==
    ASSUME TypeOK, QueuesMatchOwners, NEW ps \in SUBSET Performs,
           NEW who \in SUBSET Owners, LetGo(ps, who),
           UNCHANGED <<inbox, arrived>>,
           ps # Performs => {"queue", "items"} \cap who = {},
           IF "queue" \in who THEN recvQueue' = <<>> ELSE recvQueue' = recvQueue,
           IF "items" \in who THEN items' = <<>> ELSE items' = items,
           (ps = Performs /\ "parent" \in who) \/ (ParentThere => ParentThere'),
           nested' = nested \/ (ps = Performs /\ {"nested", "stranded"} \subseteq who)
    PROVE  HandsOver
  <1>1. ASSUME NEW p \in Performs
        PROVE  owners'[p] = IF p \in ps THEN owners[p] \ who ELSE owners[p]
    BY DEF LetGo
  <1>2. ASSUME NEW p \in Performs
        PROVE  /\ \/ recvQueue' = recvQueue
                     /\ ("queue" \in owners'[p] <=> "queue" \in owners[p])
                  \/ recvQueue' = <<>> /\ "queue" \notin owners'[p]
               /\ \/ items' = items
                     /\ ("items" \in owners'[p] <=> "items" \in owners[p])
                  \/ items' = <<>> /\ "items" \notin owners'[p]
    <2>1. CASE p \in ps /\ ps = Performs
      BY <1>1, <2>1
    <2>2. CASE p \in ps /\ ps # Performs
      <3>1. "queue" \notin who /\ "items" \notin who
        BY <2>2
      <3> QED
        BY <1>1, <2>2, <3>1
    <2>3. CASE p \notin ps
      <3>1. "queue" \notin who /\ "items" \notin who
        BY <2>3
      <3> QED
        BY <1>1, <2>3, <3>1
    <2> QED
      BY <2>1, <2>2, <2>3
  <1>3. ASSUME NEW p \in Performs
        PROVE  owners'[p] \subseteq owners[p]
    BY <1>1
  <1>4. ASSUME NEW p \in Performs, "parent" \in owners'[p] PROVE ParentThere'
    <2>1. ParentThere
      BY <1>3, <1>4 DEF QueuesMatchOwners
    <2> QED
      BY <1>1, <1>4, <2>1
  <1>5. ASSUME NEW p \in Performs, owners'[p] \cap {"nested", "stranded"} # {}
        PROVE  nested'
    <2>1. nested
      BY <1>3, <1>5 DEF QueuesMatchOwners
    <2>2. ~(ps = Performs /\ {"nested", "stranded"} \subseteq who)
      BY <1>1, <1>5
    <2> QED
      BY <2>1, <2>2
  <1>6. \A p \in Performs : owners[p] = {} => owners'[p] = {}
    BY <1>3
  <1> QED
    BY <1>2, <1>4, <1>5, <1>6 DEF HandsOver

LEMMA QueuesStep ==
    ASSUME TypeInv, QueuesInv, [Next]_vars
    PROVE  Unborn' /\ QueuesMatchOwners'
  <1> USE DEF TypeInv, TypeOK, QueuesInv
  <1>6. CASE ParentGoes
    <2>1. HandsOver
      BY <1>6, LetGoHandsOver DEF ParentGoes, Owners
    <2> QED
      BY <2>1, HandsOverKeeps
  <1> SUFFICES ASSUME ~ParentGoes PROVE Unborn' /\ QueuesMatchOwners'
    BY <1>6
  <1>0. TypeOK /\ (ParentThere => ParentThere')
    BY ParentStays
  <1>1. CASE \/ Register \/ SetParent \/ ClearParent \/ SetNested
             \/ DispatchHandler \/ DispatchNone \/ HandlerAnswer
             \/ HandlerStream \/ HandlerReturn \/ HandlerThrow \/ HandlerResumeFails
             \/ HandlerNestsGone \/ DispatchEnd \/ NestedPollEnd \/ CloseBegin
             \/ ZCheck \/ ZSend \/ ZDrained \/ ZRecvThrows \/ ZPollTimeout
             \/ (\E q \in Performs : ParentChunk(q) \/ LateFails(q))
             \/ (\E q \in Performs, who \in {"thread", "nested"} :
                    LateAnswer(q, who) \/ LateStream(q, who))
             \/ UNCHANGED vars
    <2>1. /\ UNCHANGED <<owners, inbox, arrived, recvQueue, items>>
          /\ nested => nested'
      BY <1>1 DEF Register, SetParent, ClearParent, ReplaceParent, SetNested,
         DispatchHandler, DispatchNone, HandlerAnswer, HandlerStream, HandlerReturn,
         HandlerThrow, HandlerResumeFails, HandlerNestsGone, DispatchEnd,
         NestedPollEnd, CloseBegin, ZCheck, ZSend, ZDrained, ZRecvThrows,
         ZPollTimeout, ParentChunk, LateFails, LateAnswer, LateStream, vars, ctxVars,
         regVars
    <2>2. HandsOver
      BY <1>0, <2>1 DEF HandsOver, QueuesMatchOwners
    <2> QED
      BY <1>0, <2>2, HandsOverKeeps
  <1>2. CASE CloseState
    <2>1. HandsOver
      BY <1>0, <1>2, LetGoHandsOver DEF CloseState, Owners
    <2> QED
      BY <1>0, <2>1, HandsOverKeeps
  <1>3. CASE NestedGoes
    <2>1. HandsOver
      BY <1>0, <1>3, LetGoHandsOver DEF NestedGoes, Owners
    <2> QED
      BY <1>0, <2>1, HandsOverKeeps
  <1>4. CASE DestroyMoved
    <2>1. HandsOver
      BY <1>4, <1>0, LetGoHandsOver DEF DestroyMoved, Owners, regVars
    <2> QED
      BY <1>0, <2>1, HandsOverKeeps
  <1>5. CASE PollEnd
    <2>1. HandsOver
      BY <1>5, <1>0, LetGoHandsOver DEF PollEnd, Owners, regVars
    <2> QED
      BY <1>0, <2>1, HandsOverKeeps
  <1>7. ASSUME NEW q \in Performs, NEW who \in {"thread", "nested"}, LateDrop(q, who)
        PROVE  Unborn' /\ QueuesMatchOwners'
    <2>1. HandsOver
      BY <1>7, <1>0, LetGoHandsOver DEF LateDrop, Owners, regVars
    <2> QED
      BY <1>0, <2>1, HandsOverKeeps
  <1>8. CASE Move
    <2>1. HandsOver
      BY <1>0, <1>8 DEF Move, HandsOver, QueuesMatchOwners
    <2> QED
      BY <1>0, <2>1, HandsOverKeeps
  <1>9. CASE DispatchForward \/ HandlerKeep \/ HandlerNests
    <2>1. Current \in Performs /\ "items" \in owners[Current]
      BY <1>9, CurrentOwned DEF DispatchForward, HandlerKeep, HandlerNests, AtItem,
         HandlerAtItem
    <2>2. PICK who \in {"parent", "thread", "nested"} :
             /\ owners' = [owners EXCEPT ![Current] = @ \cup {who}]
             /\ UNCHANGED <<inbox, arrived, recvQueue, items, parent, nested>>
             /\ (who = "parent" => parent) /\ (who = "nested" => nested)
      BY <1>9, Zenon DEF DispatchForward, HandlerKeep, HandlerNests, HandlersClient,
         regVars
    <2>3. ASSUME NEW p \in Performs
          PROVE  owners'[p] = IF p = Current THEN owners[p] \cup {who} ELSE owners[p]
      BY <2>1, <2>2
    <2>4. HandsOver
      BY <1>0, <2>1, <2>2, <2>3 DEF HandsOver, QueuesMatchOwners, ParentThere
    <2> QED
      BY <1>0, <2>4, HandsOverKeeps
  <1>10. CASE \/ CatchFails
              \/ \E q \in Performs : ParentFinal(q)
    <2>1. CASE CatchFails
      <3>1. /\ owners' = [p \in Performs |-> owners[p] \ {"items"}] /\ items' = <<>>
            /\ UNCHANGED <<inbox, arrived, recvQueue, parent, nested>>
        BY <2>1 DEF CatchFails, regVars
      <3>2. HandsOver
        BY <1>0, <3>1 DEF HandsOver, QueuesMatchOwners
      <3> QED
        BY <1>0, <3>2, HandsOverKeeps
    <2>2. CASE \E q \in Performs : ParentFinal(q)
      <3>1. PICK q \in Performs : owners' = [owners EXCEPT ![q] = @ \ {"parent"}]
        BY <2>2 DEF ParentFinal
      <3>2. UNCHANGED <<inbox, arrived, recvQueue, items, parent, nested>>
        BY <2>2 DEF ParentFinal, regVars
      <3>3. HandsOver
        BY <1>0, <3>1, <3>2 DEF HandsOver, QueuesMatchOwners
      <3> QED
        BY <1>0, <3>3, HandsOverKeeps
    <2> QED
      BY <1>10, <2>1, <2>2
  <1>11. ASSUME NEW q \in Performs, NestedThrow(q)
         PROVE  Unborn' /\ QueuesMatchOwners'
    <2>1. PICK stranded \in SUBSET (Held("nested") \ {q}), ends \in SUBSET {"nested"} :
             owners' = [p \in Performs |->
                IF p \in stranded
                THEN (owners[p] \ {"items", "nested"}) \cup {"stranded"}
                ELSE owners[p] \ ({"items"} \cup (IF p = q THEN ends ELSE {}))]
      BY <1>11, Zenon DEF NestedThrow
    <2>2. /\ items' = <<>> /\ "nested" \in owners[q]
          /\ UNCHANGED <<inbox, arrived, recvQueue, parent, nested>>
      BY <1>11 DEF NestedThrow, regVars
    <2>3. nested
      BY <2>2 DEF QueuesMatchOwners
    <2>4. HandsOver
      BY <1>0, <2>1, <2>2, <2>3 DEF HandsOver, QueuesMatchOwners, Held
    <2> QED
      BY <1>0, <2>4, HandsOverKeeps
  <1>12. CASE PollBegin
    <2>1. items = <<>>
      BY <1>12 DEF PollBegin, Idle, ItemsInPoll
    <2>2. \A p \in Performs : Count(p, <<>>) = 0
      BY CountEmpty
    <2>3. \A p \in Performs : "items" \notin owners[p]
      BY <2>1, <2>2 DEF QueuesMatchOwners
    <2>4. /\ recvQueue' = <<>> /\ items' = recvQueue
          /\ UNCHANGED <<inbox, arrived, parent, nested>>
          /\ \A p \in Performs :
                owners'[p] = IF "queue" \in owners[p]
                             THEN (owners[p] \ {"queue"}) \cup {"items"} ELSE owners[p]
      BY <1>12 DEF PollBegin, QueueAfterDrain, regVars
    <2>5. Unborn'
      BY <2>4 DEF Unborn, Waiting
    <2>6. ASSUME NEW p \in Performs
          PROVE  /\ Count(p, recvQueue') = (IF "queue" \in owners'[p] THEN 1 ELSE 0)
                 /\ Count(p, items') = (IF "items" \in owners'[p] THEN 1 ELSE 0)
      <3>1. /\ Count(p, recvQueue') = 0 /\ Count(p, items') = Count(p, recvQueue)
            /\ Count(p, recvQueue) = (IF "queue" \in owners[p] THEN 1 ELSE 0)
        BY <2>2, <2>4 DEF QueuesMatchOwners
      <3>2. /\ "queue" \notin owners'[p]
            /\ "items" \in owners'[p] <=> "queue" \in owners[p]
        BY <2>3, <2>4
      <3> QED
        BY <3>1, <3>2
    <2>7. ASSUME NEW p \in Performs
          PROVE  /\ "parent" \in owners'[p] => ParentThere'
                 /\ owners'[p] \cap {"nested", "stranded"} # {} => nested'
      <3>1. \A o \in {"parent", "nested", "stranded"} :
               o \in owners'[p] <=> o \in owners[p]
        <4>1. owners'[p] = IF "queue" \in owners[p]
                           THEN (owners[p] \ {"queue"}) \cup {"items"} ELSE owners[p]
          BY <2>4
        <4> QED
          BY <4>1, Zenon
      <3>2. nested' = nested
        BY <2>4
      <3> QED
        BY <1>0, <3>1, <3>2 DEF QueuesMatchOwners
    <2>8. QueuesMatchOwners'
      BY <2>6, <2>7 DEF QueuesMatchOwners
    <2> QED
      BY <2>5, <2>8
  <1>13. CASE ZRecv
    <2>1. /\ inbox # <<>> /\ Head(inbox) \in Performs /\ Tail(inbox) \in Seq(Performs)
          /\ inbox' = Tail(inbox)
          /\ UNCHANGED <<arrived, items, parent, nested>>
      BY <1>13, HeadTailProperties DEF ZRecv, regVars
    <2>2. \A p \in Performs :
             Count(p, inbox) = (IF p = Head(inbox) THEN 1 ELSE 0) + Count(p, inbox')
      BY <2>1, CountHeadTail
    <2>3. \A p \in Performs : Count(p, inbox') \in Nat
      BY <2>1, CountType
    <2>4. owners[Head(inbox)] = {} /\ Count(Head(inbox), inbox') = 0
          /\ Head(inbox) \in arrived
      BY <2>1, <2>2, <2>3 DEF Unborn, Waiting
    <2>5. \A p \in Performs : p # Head(inbox) => owners'[p] = owners[p]
      BY <1>13 DEF ZRecv
    <2>6. ASSUME NEW p \in Performs
          PROVE  Waiting(p)' <= 1 /\ (Waiting(p)' = 1 => owners'[p] = {})
      <3>1. CASE p = Head(inbox)
        BY <2>1, <2>4, <3>1 DEF Waiting
      <3>2. CASE p # Head(inbox)
        <4>1. Count(p, inbox) = Count(p, inbox') /\ owners'[p] = owners[p]
          BY <2>2, <2>3, <2>5, <3>2
        <4>2. Waiting(p)' = Waiting(p)
          BY <2>1, <4>1 DEF Waiting
        <4> QED
          BY <4>1, <4>2 DEF Unborn
      <3> QED
        BY <3>1, <3>2
    <2>7. ASSUME Head(inbox) \in Malformed PROVE QueuesMatchOwners'
      BY <1>0, <1>13, <2>1, <2>7 DEF ZRecv, QueuesMatchOwners
    <2>8. ASSUME Head(inbox) \notin Malformed PROVE QueuesMatchOwners'
      <3>1. recvQueue' = Append(recvQueue, Head(inbox)) /\ owners'[Head(inbox)] = {"queue"}
        BY <1>13, <2>1, <2>8 DEF ZRecv
      <3>2. \A p \in Performs :
               Count(p, recvQueue') = Count(p, recvQueue) + (IF p = Head(inbox) THEN 1 ELSE 0)
        BY <2>1, <3>1, CountAppend
      <3>3. ASSUME NEW p \in Performs
            PROVE  Count(p, recvQueue') = (IF "queue" \in owners'[p] THEN 1 ELSE 0)
        <4>1. Count(p, recvQueue) = (IF "queue" \in owners[p] THEN 1 ELSE 0)
          BY DEF QueuesMatchOwners
        <4>2. CASE p = Head(inbox)
          BY <2>4, <3>1, <3>2, <4>1, <4>2
        <4>3. CASE p # Head(inbox)
          BY <2>5, <3>2, <4>1, <4>3
        <4> QED
          BY <4>2, <4>3
      <3>4. ASSUME NEW p \in Performs
            PROVE  /\ Count(p, items') = (IF "items" \in owners'[p] THEN 1 ELSE 0)
                   /\ "parent" \in owners'[p] => ParentThere'
                   /\ owners'[p] \cap {"nested", "stranded"} # {} => nested'
        <4>1. CASE p = Head(inbox)
          <5>1. "items" \notin owners[p] /\ "items" \notin owners'[p] /\ items' = items
            BY <2>1, <2>4, <3>1, <4>1
          <5>2. Count(p, items) = 0
            BY <5>1 DEF QueuesMatchOwners
          <5> QED
            BY <3>1, <4>1, <5>1, <5>2
        <4>2. CASE p # Head(inbox)
          BY <1>0, <2>1, <2>5, <4>2 DEF QueuesMatchOwners
        <4> QED
          BY <4>1, <4>2
      <3> QED
        BY <3>3, <3>4 DEF QueuesMatchOwners
    <2>9. Unborn'
      BY <2>6 DEF Unborn
    <2> QED
      BY <2>7, <2>8, <2>9
  <1>14. ASSUME NEW q \in Performs, ClientSends(q)
         PROVE  Unborn' /\ QueuesMatchOwners'
    <2>1. /\ q \notin arrived /\ arrived' = arrived \cup {q}
          /\ inbox' = Append(inbox, q)
          /\ UNCHANGED <<owners, recvQueue, items, parent, nested>>
      BY <1>14 DEF ClientSends, regVars, ctxVars
    <2>2. \A p \in Performs :
             Count(p, inbox') = Count(p, inbox) + (IF p = q THEN 1 ELSE 0)
      BY <2>1, CountAppend
    <2>3. \A p \in Performs : Count(p, inbox) \in Nat
      BY CountType
    <2>4. Unborn'
      BY <2>1, <2>2, <2>3 DEF Unborn, Waiting
    <2>5. QueuesMatchOwners'
      BY <1>0, <2>1 DEF QueuesMatchOwners
    <2> QED
      BY <2>4, <2>5
  <1> QED
    BY <1>1, <1>2, <1>3, <1>4, <1>5, <1>6, <1>7, <1>8, <1>9, <1>10, <1>11, <1>12,
       <1>13, <1>14 DEF Next, OwnNext, ClientGoes, PollStep, HandlerStep, ZNext, Crashed

LEMMA ItemsInPollStep ==
    ASSUME TypeInv, ItemsInPoll, [Next]_vars
    PROVE  ItemsInPoll'
  <1> USE DEF TypeInv, TypeOK, ItemsInPoll, InWait
  <1>1. CASE UNCHANGED <<mainPc, ret, items>>
    BY <1>1
  <1>2. CASE \/ CloseBegin \/ CloseState \/ ClientGoes
             \/ SetParent \/ ClearParent \/ SetNested
    BY <1>2 DEF CloseBegin, CloseState, ClientGoes, NestedGoes, ParentGoes, SetParent,
       ClearParent, ReplaceParent, SetNested, Waits, Configuring, Idle
  <1>3. CASE items' = <<>>
    BY <1>3
  <1>4. CASE mainPc' \in {"dispatch", "handler", "nestedPoll", "parentPoll", "crashed"}
    BY <1>4
  <1>5. \/ UNCHANGED <<mainPc, ret, items>> \/ items' = <<>>
        \/ mainPc' \in {"dispatch", "handler", "nestedPoll", "parentPoll", "crashed"}
        \/ CloseBegin \/ CloseState \/ ClientGoes
        \/ SetParent \/ ClearParent \/ SetNested
    BY DEF Next, OwnNext, PollStep, HandlerStep, ZNext, Crashed, Register,
       Move, DestroyMoved,
       PollBegin, DispatchHandler, DispatchForward, DispatchNone, HandlerReturn,
       HandlerThrow, HandlerResumeFails, CatchFails, DispatchEnd, NestedPollEnd,
       PollEnd, HandlerAnswer, HandlerStream, HandlerKeep, HandlerNests, HandlerNestsGone,
       LateFails, NestedThrow,
       ParentFinal, ParentChunk, LateAnswer, LateStream, LateDrop, ZCheck, ZSend,
       ZDrained, ZRecv, ZRecvThrows, ZPollTimeout, ClientSends, Leave, vars
  <1> QED
    BY <1>1, <1>2, <1>3, <1>4, <1>5

LEMMA HandlersClientStep ==
    ASSUME TypeInv, HandlersClient, [Next]_vars
    PROVE  HandlersClient'
  <1> USE DEF TypeInv, TypeOK, HandlersClient, InWait
  <1>1. CASE UNCHANGED <<mainPc, ret, client, nested>>
    BY <1>1
  <1>2. CASE CloseBegin \/ CloseState \/ SetParent \/ ClearParent \/ SetNested
    BY <1>2 DEF CloseBegin, CloseState, SetParent, ClearParent, ReplaceParent,
       SetNested, Waits, Configuring, Idle, regVars
  <1>3. CASE ClientGoes
    BY <1>3 DEF ClientGoes, NestedGoes, ParentGoes
  <1>4. CASE client' = "null"
    BY <1>4
  <1>5. CASE DispatchHandler
    BY <1>5 DEF DispatchHandler, regVars
  <1>6. CASE mainPc' = "crashed" /\ UNCHANGED <<client, nested>>
    BY <1>6
  <1>7. CASE /\ mainPc \in {"app", "dispatch", "nestedPoll", "parentPoll"}
             /\ client' = client
    BY <1>7
  <1>8. CASE PollStep
    BY <1>4, <1>5, <1>7, <1>8 DEF PollStep, PollBegin, DispatchForward, DispatchNone,
       HandlerReturn, HandlerThrow, HandlerResumeFails, CatchFails, DispatchEnd,
       NestedPollEnd, PollEnd, AtItem, Idle, Leave
  <1>9. CASE HandlerStep \/ ZNext
    BY <1>1, <1>6, <1>9 DEF HandlerStep, HandlerAnswer, HandlerStream, HandlerKeep,
       HandlerNests, HandlerNestsGone, ZNext, ZCheck, ZSend, ZDrained, ZRecv,
       ZRecvThrows, ZPollTimeout, regVars
  <1>10. CASE Register \/ Move \/ DestroyMoved
    BY <1>1, <1>7, <1>10 DEF Register, Move, DestroyMoved, Idle, regVars
  <1>11. ASSUME NEW p \in Performs,
                \/ NestedThrow(p) \/ LateFails(p) \/ ParentFinal(p) \/ ParentChunk(p)
                \/ \E who \in {"thread", "nested"} :
                      LateAnswer(p, who) \/ LateStream(p, who) \/ LateDrop(p, who)
                \/ ClientSends(p)
         PROVE  HandlersClient'
    BY <1>1, <1>6, <1>7, <1>11 DEF NestedThrow, LateFails, ParentFinal, ParentChunk,
       LateAnswer, LateStream, LateDrop, ClientSends, regVars
  <1>12. CASE Crashed \/ UNCHANGED vars
    BY <1>1, <1>12 DEF Crashed, vars, regVars
  <1> QED
    BY <1>2, <1>3, <1>8, <1>9, <1>10, <1>11, <1>12 DEF Next, OwnNext

LEMMA QueuesInvAlways == ASSUME IsFiniteSet(Performs) PROVE Spec => []QueuesInv
  <1>1. Init => QueuesInv
    BY CountEmpty DEF Init, QueuesInv, Unborn, Waiting, ItemsInPoll, QueuesMatchOwners,
       HandlersClient
  <1>2. TypeInv /\ QueuesInv /\ [Next]_vars => QueuesInv'
    BY QueuesStep, ItemsInPollStep, HandlersClientStep DEF QueuesInv
  <1> QED
    BY <1>1, <1>2, TypeInvAlways, PTL DEF Spec

(* A context is in the receive queue or in poll()'s vector exactly while    *)
(* that owns it, and once; and while a router has no parent client, or no   *)
(* nested one, no callback of such a client holds a context.                *)
THEOREM QueuesMatchOwnersAlways ==
    ASSUME IsFiniteSet(Performs) PROVE Spec => []QueuesMatchOwners
  BY QueuesInvAlways, PTL DEF QueuesInv

-----------------------------------------------------------------------------
(* The router answers what it was asked.  A frame is made for a context     *)
(* that somebody holds, so for a perform that arrived, or because a message *)
(* did not parse; and the streams stay within their bound.                  *)

Streams(p) == /\ p \in Performs
              /\ Count(Chunk(p), sendQueue) + Count(Chunk(p), out) < MaxChunks
              /\ sendQueue' = Append(sendQueue, Chunk(p))
              /\ UNCHANGED <<out, resumed, lost>>

Refuses == Malformed # {} /\ Pushes(Final(Generated))

CausedStep ==
    \/ Quiet \/ Sends \/ Refuses
    \/ \E ps, failed \in SUBSET Performs :
          Answers(ps, failed) /\ \A p \in ps : owners[p] # {}
    \/ \E p \in Performs : owners[p] # {} /\ (Finishes(p) \/ Streams(p) \/ Fails(p))

LEMMA CausedSteps ==
    ASSUME TypeInv, QueuesMatchOwners, [Next]_vars
    PROVE  CausedStep
  <1> USE DEF TypeInv
  <1>1. CASE \/ Register \/ Move \/ PollBegin \/ DispatchHandler \/ DispatchForward
             \/ HandlerReturn \/ DispatchEnd \/ NestedPollEnd \/ HandlerKeep
             \/ HandlerNests \/ HandlerNestsGone \/ CloseBegin
             \/ SetParent \/ ClearParent \/ SetNested
             \/ ZCheck \/ ZDrained \/ ZRecvThrows \/ ZPollTimeout
             \/ (\E p \in Performs : ClientSends(p)) \/ UNCHANGED vars
    <2>1. Quiet
      BY <1>1 DEF Register, Move, PollBegin, DispatchHandler, DispatchForward,
         HandlerReturn, DispatchEnd, NestedPollEnd, HandlerKeep, HandlerNests,
         HandlerNestsGone, CloseBegin, SetParent, ClearParent, ReplaceParent,
         SetNested, ZCheck, ZDrained, ZRecvThrows, ZPollTimeout, ClientSends, Quiet,
         vars, ctxVars
    <2> QED
      BY <2>1 DEF CausedStep
  <1>2. CASE \/ DestroyMoved \/ PollEnd \/ CloseState \/ ClientGoes
             \/ \E p \in Performs, who \in {"thread", "nested"} : LateDrop(p, who)
    <2>1. PICK ps \in SUBSET Performs, who \in SUBSET Owners :
             LetGo(ps, who) /\ UNCHANGED <<out, lost>>
      BY <1>2 DEF DestroyMoved, PollEnd, CloseState, ClientGoes, NestedGoes,
         ParentGoes, LateDrop, Owners
    <2>2. Answers(Dropped(ps, who), {})
      BY <2>1, LetGoAnswers
    <2>3. Dropped(ps, who) \in SUBSET Performs
          /\ \A p \in Dropped(ps, who) : owners[p] # {}
      BY DEF Dropped
    <2> QED
      BY <2>2, <2>3 DEF CausedStep
  <1>3. ASSUME \/ DispatchNone \/ HandlerAnswer \/ HandlerThrow \/ HandlerStream
               \/ HandlerResumeFails \/ CatchFails
        PROVE  Current \in Performs /\ owners[Current] # {}
    <2>1. at \in 1..Len(items)
      BY <1>3 DEF HandlerAtItem, DispatchNone, AtItem, HandlerAnswer, HandlerThrow,
         HandlerStream, HandlerResumeFails, CatchFails, TypeOK
    <2> QED
      BY <2>1, CurrentOwned
  <1>4. CASE DispatchNone \/ HandlerAnswer \/ HandlerThrow
    <2>1. Finishes(Current)
      BY <1>3, <1>4 DEF DispatchNone, HandlerAnswer, HandlerThrow, Finishes, vars
    <2> QED
      BY <1>3, <1>4, <2>1 DEF CausedStep
  <1>5. ASSUME NEW p \in Performs,
               \/ ParentFinal(p) \/ ParentChunk(p)
               \/ \E who \in {"thread", "nested"} : LateAnswer(p, who)
        PROVE  CausedStep
    <2>1. Finishes(p) /\ owners[p] # {}
      BY <1>5 DEF ParentFinal, ParentChunk, LateAnswer, Finishes
    <2> QED
      BY <2>1 DEF CausedStep
  <1>6. ASSUME NEW p \in Performs,
               \E who \in {"thread", "nested"} : LateStream(p, who)
        PROVE  CausedStep
    <2>1. Streams(p) /\ owners[p] # {}
      BY <1>6 DEF LateStream, SendChunk, Streams, ctxVars
    <2> QED
      BY <2>1 DEF CausedStep
  <1>7. CASE HandlerStream
    <2>1. Streams(Current)
      BY <1>3, <1>7 DEF HandlerStream, SendChunk, Streams, ctxVars
    <2> QED
      BY <1>3, <1>7, <2>1 DEF CausedStep
  <1>8. CASE HandlerResumeFails
    <2>1. Fails(Current)
      BY <1>3, <1>8 DEF HandlerResumeFails, Fails
    <2> QED
      BY <1>3, <1>8, <2>1 DEF CausedStep
  <1>9. CASE CatchFails
    <2> DEFINE rest == Dropped(Performs \ {Current}, {"items"})
    <2>1. /\ rest \in SUBSET (Performs \ (resumed \cup {Current}))
          /\ \A p \in rest : owners[p] # {}
      BY DEF Dropped
    <2>2. Answers(rest, {Current})
      BY <1>3, <1>9, <2>1 DEF CatchFails, Answers
    <2> HIDE DEF rest
    <2>3. rest \in SUBSET Performs /\ {Current} \in SUBSET Performs
      BY <1>3, <1>9, <2>1
    <2> QED
      BY <2>1, <2>2, <2>3 DEF CausedStep
  <1>10. ASSUME NEW p \in Performs, NestedThrow(p) PROVE CausedStep
    <2> DEFINE Who(q, ends) == {"items"} \cup (IF q = p THEN ends ELSE {})
               Gone(failed, ends) == {q \in Performs \ (resumed \cup failed) :
                                        owners[q] # {} /\ owners[q] \subseteq Who(q, ends)}
    <2>1. PICK failed \in SUBSET ({p} \ resumed), ends \in SUBSET {"nested"} :
             /\ lost'      = lost \cup failed
             /\ resumed'   = resumed \cup failed \cup Gone(failed, ends)
             /\ sendQueue' = sendQueue \o SetToSeq({Final(q) : q \in Gone(failed, ends)})
      BY <1>10 DEF NestedThrow
    <2>2. Answers(Gone(failed, ends), failed)
      BY <1>10, <2>1 DEF NestedThrow, Answers
    <2>3. /\ Gone(failed, ends) \in SUBSET Performs /\ failed \in SUBSET Performs
          /\ \A q \in Gone(failed, ends) : owners[q] # {}
      OBVIOUS
    <2> HIDE DEF Gone
    <2> QED
      BY <2>2, <2>3 DEF CausedStep
  <1>11. CASE ZSend
    BY <1>11 DEF ZSend, Sends, CausedStep, ctxVars
  <1>12. CASE ZRecv
    <2>1. Final(Generated) \in Frames /\ \A p \in Performs : Final(Generated) # Final(p)
      BY ConstantsAssumption DEF Final, Frames
    <2>2. Quiet \/ Refuses
      BY <1>12, <2>1 DEF ZRecv, Quiet, Refuses, Pushes
    <2> QED
      BY <2>2 DEF CausedStep
  <1>13. ASSUME NEW p \in Performs, LateFails(p) PROVE CausedStep
    <2>1. Fails(p) /\ owners[p] # {}
      BY <1>13 DEF LateFails, Fails
    <2> QED
      BY <2>1 DEF CausedStep
  <1> QED
    BY <1>1, <1>2, <1>4, <1>5, <1>6, <1>7, <1>8, <1>9, <1>10, <1>11, <1>12, <1>13
       DEF Next, OwnNext, PollStep, HandlerStep, ZNext, Crashed

Made(f) == Count(f, sendQueue) + Count(f, out)

(* What a step can have made of a frame.                                    *)
LEMMA MadeStep ==
    ASSUME IsFiniteSet(Performs), TypeOK, CausedStep, NEW f
    PROVE  /\ Made(f) \in Nat
           /\ \/ Made(f)' = Made(f)
              \/ Made(f)' = Made(f) + 1 /\ f = Final(Generated) /\ Malformed # {}
              \/ Made(f)' = Made(f) + 1
                    /\ \E p \in Performs : owners[p] # {} /\ f = Final(p)
              \/ Made(f)' = Made(f) + 1 /\ Made(f) < MaxChunks
                    /\ \E p \in Performs : owners[p] # {} /\ f = Chunk(p)
  <1> USE DEF TypeOK
  <1>0. Count(f, sendQueue) \in Nat /\ Count(f, out) \in Nat /\ Made(f) \in Nat
    <2>1. Count(f, sendQueue) \in Nat /\ Count(f, out) \in Nat
      BY CountType
    <2> QED
      BY <2>1 DEF Made
  <1>1. CASE Quiet
    BY <1>0, <1>1 DEF Quiet, Made
  <1>2. CASE Sends
    <2>1. Head(sendQueue) \in Frames /\ Tail(sendQueue) \in Seq(Frames)
      BY <1>2, HeadTailProperties DEF Sends
    <2>2. Count(f, sendQueue) = (IF f = Head(sendQueue) THEN 1 ELSE 0)
                                  + Count(f, Tail(sendQueue))
      BY <1>2, CountHeadTail DEF Sends
    <2>3. Count(f, Append(out, Head(sendQueue)))
             = Count(f, out) + (IF f = Head(sendQueue) THEN 1 ELSE 0)
      BY <2>1, CountAppend
    <2>4. Count(f, Tail(sendQueue)) \in Nat
      BY <2>1, CountType
    <2>5. /\ Count(f, sendQueue') = Count(f, Tail(sendQueue))
          /\ Count(f, out') = Count(f, Append(out, Head(sendQueue)))
      BY <1>2 DEF Sends
    <2>6. Made(f)' = Made(f)
      BY <1>0, <2>2, <2>3, <2>4, <2>5 DEF Made
    <2> QED
      BY <1>0, <2>6
  <1>3. ASSUME NEW ps \in SUBSET Performs, NEW failed \in SUBSET Performs,
               Answers(ps, failed), \A p \in ps : owners[p] # {}
        PROVE  \/ Made(f)' = Made(f)
               \/ Made(f)' = Made(f) + 1
                     /\ \E p \in Performs : owners[p] # {} /\ f = Final(p)
    <2> DEFINE finals == SetToSeq({Final(p) : p \in ps})
    <2>1. /\ finals \in Seq(Frames)
          /\ \A q \in Performs : Count(Final(q), finals) = IF q \in ps THEN 1 ELSE 0
          /\ Count(f, finals) # 0 => \E p \in ps : f = Final(p)
      BY FinalsSeq
    <2>2. sendQueue' = sendQueue \o finals /\ out' = out
      BY <1>3 DEF Answers
    <2> HIDE DEF finals
    <2>3. Count(f, sendQueue \o finals) = Count(f, sendQueue) + Count(f, finals)
      BY <2>1, CountConcat
    <2>4. CASE Count(f, finals) = 0
      BY <1>0, <2>2, <2>3, <2>4 DEF Made
    <2>5. CASE Count(f, finals) # 0
      <3>1. PICK p \in ps : f = Final(p)
        BY <2>1, <2>5
      <3>2. Count(f, finals) = 1
        BY <2>1, <3>1
      <3>3. p \in Performs /\ owners[p] # {}
        BY <1>3
      <3> QED
        BY <1>0, <2>2, <2>3, <3>1, <3>2, <3>3 DEF Made
    <2> QED
      BY <2>4, <2>5
  <1>4. ASSUME NEW g \in Frames, sendQueue' = Append(sendQueue, g), out' = out
        PROVE  Made(f)' = Made(f) + (IF f = g THEN 1 ELSE 0)
    <2>1. Count(f, Append(sendQueue, g)) = Count(f, sendQueue) + (IF f = g THEN 1 ELSE 0)
      BY <1>4, CountAppend
    <2> QED
      BY <1>0, <1>4, <2>1 DEF Made
  <1>5. CASE Refuses
    <2>1. /\ Final(Generated) \in Frames /\ Malformed # {}
          /\ sendQueue' = Append(sendQueue, Final(Generated)) /\ out' = out
      BY <1>5 DEF Refuses, Pushes
    <2>2. Made(f)' = Made(f) + (IF f = Final(Generated) THEN 1 ELSE 0)
      BY <1>4, <2>1
    <2> QED
      BY <1>0, <2>1, <2>2
  <1>6. ASSUME NEW p \in Performs, owners[p] # {}, Finishes(p)
        PROVE  \/ Made(f)' = Made(f)
               \/ Made(f)' = Made(f) + 1 /\ f = Final(p)
    <2>1. Final(p) \in Frames
      BY DEF Final, Frames
    <2>2. CASE p \in resumed
      BY <1>6, <2>2 DEF Finishes, Finish, Made
    <2>3. CASE p \notin resumed
      BY <1>0, <1>4, <1>6, <2>1, <2>3 DEF Finishes, Finish, Made
    <2> QED
      BY <2>2, <2>3
  <1>7. ASSUME NEW p \in Performs, owners[p] # {}, Streams(p)
        PROVE  \/ Made(f)' = Made(f)
               \/ Made(f)' = Made(f) + 1 /\ f = Chunk(p) /\ Made(f) < MaxChunks
    <2>1. Chunk(p) \in Frames
      BY DEF Chunk, Frames
    <2> QED
      BY <1>0, <1>4, <1>7, <2>1 DEF Streams, Made
  <1>8. ASSUME NEW p \in Performs, Fails(p) PROVE Made(f)' = Made(f)
    BY <1>8 DEF Fails, Made
  <1> QED
    BY <1>1, <1>2, <1>3, <1>5, <1>6, <1>7, <1>8, <1>0 DEF CausedStep

AskedInv ==
    \A f \in Frames :
        Made(f) # 0 => f.id \in arrived \/ (f = Final(Generated) /\ Malformed # {})

ChunksInv == \A p \in Performs : Made(Chunk(p)) <= MaxChunks

LEMMA AskedStep ==
    ASSUME IsFiniteSet(Performs), TypeInv, QueuesInv, AskedInv, ChunksInv, [Next]_vars
    PROVE  AskedInv' /\ ChunksInv'
  <1>0. TypeOK /\ CausedStep
    BY CausedSteps DEF TypeInv, QueuesInv
  <1>1. arrived \subseteq arrived'
    BY DEF Next, OwnNext, PollStep, HandlerStep, ZNext, Crashed, Register,
       SetParent, ClearParent, ReplaceParent, SetNested, Move, DestroyMoved,
       PollBegin, DispatchHandler, DispatchForward, DispatchNone, HandlerReturn,
       HandlerThrow, HandlerResumeFails, CatchFails, DispatchEnd, NestedPollEnd,
       PollEnd, HandlerAnswer, HandlerStream, HandlerKeep, HandlerNests, HandlerNestsGone,
       CloseBegin, CloseState, ClientGoes, NestedGoes, ParentGoes, LateFails,
       ZRecvThrows, NestedThrow, ParentFinal, ParentChunk, LateAnswer, LateStream,
       LateDrop, ZCheck, ZSend, ZDrained, ZRecv, ZPollTimeout, ClientSends, vars
  <1>2. ASSUME NEW p \in Performs, owners[p] # {} PROVE p \in arrived
    <2>1. Count(p, inbox) \in Nat
      BY CountType DEF TypeInv, TypeOK
    <2>2. Waiting(p) <= 1 /\ Waiting(p) # 1
      BY <1>2 DEF QueuesInv, Unborn
    <2> QED
      BY <2>1, <2>2 DEF Waiting
  <1>3. ASSUME NEW f \in Frames, Made(f)' # 0
        PROVE  f.id \in arrived' \/ (f = Final(Generated) /\ Malformed # {})
    <2>1. CASE Made(f)' = Made(f)
      BY <1>1, <1>3, <2>1 DEF AskedInv
    <2>2. CASE \E p \in Performs : owners[p] # {} /\ (f = Final(p) \/ f = Chunk(p))
      <3>1. PICK p \in Performs : owners[p] # {} /\ (f = Final(p) \/ f = Chunk(p))
        BY <2>2
      <3>2. f.id = p
        BY <3>1 DEF Final, Chunk
      <3> QED
        BY <1>1, <1>2, <3>1, <3>2
    <2> QED
      BY <1>0, <2>1, <2>2, MadeStep
  <1>4. ASSUME NEW p \in Performs PROVE Made(Chunk(p))' <= MaxChunks
    <2> DEFINE f == Chunk(p)
    <2>1. /\ f # Final(Generated) /\ \A q \in Performs : f # Final(q)
      BY DEF Chunk, Final
    <2>2. Made(f) <= MaxChunks /\ MaxChunks \in Nat
      BY ConstantsAssumption DEF ChunksInv
    <2> HIDE DEF f
    <2>3. /\ Made(f) \in Nat
          /\ \/ Made(f)' = Made(f)
             \/ Made(f)' = Made(f) + 1 /\ Made(f) < MaxChunks
      BY <1>0, <2>1, MadeStep
    <2>4. Made(f)' <= MaxChunks
      BY <2>2, <2>3
    <2> QED
      BY <2>4 DEF f
  <1> QED
    BY <1>3, <1>4 DEF AskedInv, ChunksInv

LEMMA AskedInit == Init => AskedInv /\ ChunksInv
  <1> SUFFICES ASSUME Init PROVE AskedInv /\ ChunksInv
    OBVIOUS
  <1>1. \A f : Made(f) = 0
    BY CountEmpty DEF Init, Made
  <1> QED
    BY <1>1, ConstantsAssumption DEF AskedInv, ChunksInv

(* No frame is made for a perform no client sent, late or early: an id on   *)
(* the wire is one that arrived, or was generated for a message that did    *)
(* not parse.                                                               *)
THEOREM AnswersWereAsked == ASSUME IsFiniteSet(Performs) PROVE Spec => []AskedInv
  <1>1. TypeInv /\ QueuesInv /\ AskedInv /\ ChunksInv /\ [Next]_vars
           => AskedInv' /\ ChunksInv'
    BY AskedStep
  <1> QED
    BY <1>1, AskedInit, TypeInvAlways, QueuesInvAlways, PTL DEF Spec
=============================================================================
