---------------------------- MODULE SystemProofs ----------------------------
(***************************************************************************)
(* Proofs about System, for any finite set of performs: the router is the  *)
(* peer that Client takes for granted, and no perform that waits for its   *)
(* final result is forgotten between the two.                              *)
(***************************************************************************)
EXTENDS System, ClientDeliveryProofs

(* What is proved about routers, for the one in System.                     *)
RP == INSTANCE RouterProofs
      WITH Malformed <- {}, Generated <- Stray, MayFail <- FALSE,
           MayMove <- FALSE, Reentrant <- FALSE,
           alive <- rAlive, mainPc <- rMainPc, ret <- rRet, items <- rItems,
           running <- rRunning, sendQueue <- rSendQueue,
           recvQueue <- rRecvQueue, zpc <- rZpc

LEMMA RouterConstants == RP!ConstantsAssumption
  BY SystemAssumption, ConstantsAssumption DEF RP!ConstantsAssumption

LEMMA RouterInit == R!Init => RP!Init
  BY DEF R!Init, RP!Init

-----------------------------------------------------------------------------
(* R and RP are two instances of one module: what R does, RP does.          *)

LEMMA SameCardinality == \A S : R!Cardinality(S) = RP!Cardinality(S)
  BY DEF R!Cardinality, RP!Cardinality

LEMMA SameSetToSeq == \A S : R!SetToSeq(S) = RP!SetToSeq(S)
  BY SameCardinality DEF R!SetToSeq, RP!SetToSeq, R!IsInjective, RP!IsInjective

LEMMA SameFinish == \A p : R!Finish(p) <=> RP!Finish(p)
  BY DEF R!Finish, RP!Finish, R!Final, RP!Final

LEMMA SameLetGo == \A ps, who : R!LetGo(ps, who) <=> RP!LetGo(ps, who)
  BY SameSetToSeq
  DEF R!LetGo, RP!LetGo, R!Dropped, RP!Dropped, R!Final, RP!Final

LEMMA SameChunk == \A p : R!SendChunk(p) <=> RP!SendChunk(p)
  <1>1. \A f, s : R!Count(f, s) = RP!Count(f, s)
    BY SameCardinality DEF R!Count, RP!Count
  <1> QED BY <1>1 DEF R!SendChunk, RP!SendChunk, R!Chunk, RP!Chunk

LEMMA SameConfiguration ==
    ASSUME \/ R!Register \/ R!SetParent \/ R!ClearParent \/ R!SetNested
           \/ R!Move \/ R!DestroyMoved
    PROVE  \/ RP!Register \/ RP!SetParent \/ RP!ClearParent \/ RP!SetNested
           \/ RP!Move \/ RP!DestroyMoved
  BY SameLetGo, SameFinish, SameChunk
    DEF R!Register, RP!Register, R!On, RP!On, R!Off, RP!Off,
        R!ClearHandlers, RP!ClearHandlers, R!OnUnregistered, RP!OnUnregistered,
        R!Idle, RP!Idle, R!SetParent, RP!SetParent, R!ClearParent, RP!ClearParent,
        R!ReplaceParent, RP!ReplaceParent, R!Configuring, RP!Configuring,
        R!SetNested, RP!SetNested, R!Waits, RP!Waits, R!Move, RP!Move, R!DestroyMoved, RP!DestroyMoved,
        R!Held, RP!Held, R!ctxVars, RP!ctxVars, R!regVars, RP!regVars

LEMMA SamePoll == R!PollStep => RP!PollStep
  BY SameLetGo, SameFinish, SameChunk
    DEF R!PollStep, RP!PollStep, R!PollBegin, RP!PollBegin, R!Idle, RP!Idle,
        R!QueueAfterDrain, RP!QueueAfterDrain,
        R!DispatchHandler, RP!DispatchHandler,
        R!DispatchForward, RP!DispatchForward, R!DispatchNone, RP!DispatchNone,
        R!AtItem, RP!AtItem, R!Handled, RP!Handled, R!Current, RP!Current,
        R!HandlerReturn, RP!HandlerReturn, R!HandlerThrow, RP!HandlerThrow,
        R!HandlerResumeFails, RP!HandlerResumeFails, R!Leave, RP!Leave,
        R!CatchFails, RP!CatchFails, R!DispatchEnd, RP!DispatchEnd,
        R!NestedPollEnd, RP!NestedPollEnd, R!PollEnd, RP!PollEnd,
        R!ctxVars, RP!ctxVars, R!regVars, RP!regVars

LEMMA SameHandler == R!HandlerStep => RP!HandlerStep
  BY SameLetGo, SameFinish, SameChunk
    DEF R!HandlerStep, RP!HandlerStep, R!HandlerAnswer, RP!HandlerAnswer,
        R!HandlerStream, RP!HandlerStream, R!HandlerKeep, RP!HandlerKeep,
        R!HandlerNests, RP!HandlerNests, R!HandlerNestsGone, RP!HandlerNestsGone,
        R!Current, RP!Current,
        R!ctxVars, RP!ctxVars, R!regVars, RP!regVars

LEMMA SameClose ==
    ASSUME R!CloseBegin \/ R!CloseState \/ R!ClientGoes
    PROVE  RP!CloseBegin \/ RP!CloseState \/ RP!ClientGoes
  BY SameLetGo, SameFinish, SameChunk
    DEF R!CloseBegin, RP!CloseBegin, R!CloseState, RP!CloseState,
        R!ClientGoes, RP!ClientGoes, R!NestedGoes, RP!NestedGoes,
        R!ParentGoes, RP!ParentGoes,
        R!Configuring, RP!Configuring, R!Idle, RP!Idle, R!ctxVars, RP!ctxVars,
        R!regVars, RP!regVars

LEMMA SameLate == 
    ASSUME NEW p \in Performs,
           \/ R!NestedThrow(p) \/ R!LateFails(p) \/ R!ParentFinal(p) \/ R!ParentChunk(p)
           \/ \E who \in {"thread", "nested"} :
                 R!LateAnswer(p, who) \/ R!LateStream(p, who) \/ R!LateDrop(p, who)
    PROVE  \/ RP!NestedThrow(p) \/ RP!LateFails(p) \/ RP!ParentFinal(p) \/ RP!ParentChunk(p)
           \/ \E who \in {"thread", "nested"} :
                 RP!LateAnswer(p, who) \/ RP!LateStream(p, who) \/ RP!LateDrop(p, who)
  BY SameLetGo, SameFinish, SameChunk
    DEF R!NestedThrow, RP!NestedThrow, R!LateFails, RP!LateFails, R!ParentFinal, RP!ParentFinal,
        R!ParentChunk, RP!ParentChunk, R!LateAnswer, RP!LateAnswer,
        R!LateStream, RP!LateStream, R!LateDrop, RP!LateDrop, R!Acting, RP!Acting,
        R!ctxVars, RP!ctxVars, R!regVars, RP!regVars

LEMMA SameZ == R!ZNext => RP!ZNext
  BY SameLetGo, SameFinish, SameChunk
    DEF R!ZNext, RP!ZNext, R!ZCheck, RP!ZCheck, R!NextRound, RP!NextRound,
        R!ZSend, RP!ZSend, R!ZDrained, RP!ZDrained, R!AfterDrain, RP!AfterDrain,
        R!ZRecv, RP!ZRecv, R!ZRecvThrows, RP!ZRecvThrows, R!Final, RP!Final,
        R!ZPollTimeout, RP!ZPollTimeout,
        R!ctxVars, RP!ctxVars, R!regVars, RP!regVars

LEMMA SameSteps == R!OwnNext => RP!OwnNext
  BY SameConfiguration, SamePoll, SameHandler, SameClose, SameLate, SameZ
  DEF R!OwnNext, RP!OwnNext

LEMMA SameArrival == ASSUME NEW p \in Performs, R!ClientSends(p) PROVE RP!Next
  BY DEF R!ClientSends, RP!ClientSends, R!ctxVars, RP!ctxVars, R!regVars, RP!regVars, RP!Next

(* Every step of the system is a step of the router or leaves it alone.     *)
LEMMA RouterMoves ==
    ASSUME TypeOK, [SystemNext]_allVars
    PROVE  [RP!Next]_(RP!vars)
  <1>1. CASE ClientStep \/ CarryAnswer \/ UNCHANGED allVars
    BY <1>1 DEF ClientStep, CarryAnswer, allVars, rVars, RP!vars, RP!regVars, RP!ctxVars
  <1>2. CASE RouterStep
    BY <1>2, SameSteps DEF RouterStep, RP!Next
  <1>3. CASE CarryPerform
    <2>1. Head(wireOut) \in Performs
      BY <1>3, HeadAndTail DEF CarryPerform, PeerTake, TypeOK
    <2> QED
      BY <1>3, <2>1, SameArrival DEF CarryPerform
  <1> QED
    BY <1>1, <1>2, <1>3 DEF SystemNext

-----------------------------------------------------------------------------
(* The router of the system keeps what RouterProofs shows of any router.    *)

RouterInv ==
    /\ RP!OnceInv /\ RP!QueuesInv /\ RP!NoneForgotten /\ RP!AskedInv /\ RP!ChunksInv
    /\ lost = {}

LEMMA RouterInvInit ==
    ASSUME IsFiniteSet(Performs), R!Init
    PROVE  RouterInv
  <1>1. RP!ConstantsAssumption /\ RP!Init
    BY RouterConstants, RouterInit
  <1>2. RP!TypeInv
    BY <1>1, RP!TypeInit
  <1>3. RP!AskedInv /\ RP!ChunksInv
    BY <1>1, RP!AskedInit
  <1>4. \A e : RP!Count(e, <<>>) = 0
    BY <1>1, RP!CountEmpty
  <1>5. RP!OnceInv
    BY <1>1, <1>2, <1>4 DEF RP!OnceInv, RP!AnsweredOnce, RP!FinalsOf, RP!Init
  <1>6. RP!QueuesInv
    BY <1>1, <1>4 DEF RP!QueuesInv, RP!Unborn, RP!Waiting, RP!ItemsInPoll,
       RP!QueuesMatchOwners, RP!HandlersClient, RP!Init
  <1>7. RP!NoneForgotten /\ lost = {}
    BY <1>1 DEF RP!NoneForgotten, RP!Received, RP!Init
  <1> QED
    BY <1>3, <1>5, <1>6, <1>7 DEF RouterInv

LEMMA RouterInvStep ==
    ASSUME IsFiniteSet(Performs), RouterInv, [RP!Next]_(RP!vars)
    PROVE  RouterInv'
  <1>1. RP!ConstantsAssumption /\ RP!TypeInv /\ RP!IsFiniteSet(Performs)
    BY RouterConstants DEF RouterInv, RP!OnceInv, IsFiniteSet, RP!IsFiniteSet
  <1>2. RP!OnceInv'
    BY <1>1, RP!OnceStep DEF RouterInv
  <1>3. RP!Unborn' /\ RP!QueuesMatchOwners'
    BY <1>1, RP!QueuesStep DEF RouterInv
  <1>4. RP!ItemsInPoll' /\ RP!HandlersClient'
    BY <1>1, RP!ItemsInPollStep, RP!HandlersClientStep DEF RouterInv, RP!QueuesInv
  <1>5. RP!NoneForgotten'
    BY <1>1, RP!NoneForgottenStep DEF RouterInv
  <1>6. RP!AskedInv' /\ RP!ChunksInv'
    BY <1>1, RP!AskedStep DEF RouterInv
  <1>7. lost' = {}
    BY <1>1, RP!NoFailures DEF RouterInv
  <1> QED
    BY <1>2, <1>3, <1>4, <1>5, <1>6, <1>7 DEF RouterInv, RP!QueuesInv

(* Frames that are on the wire belong to a perform that arrived.            *)
LEMMA FramesOut ==
    ASSUME RouterInv, NEW i \in DOMAIN out
    PROVE  /\ out[i].id \in Performs /\ out[i].id \in arrived
           /\ \/ out[i].kind = "final" /\ out[i] = RP!Final(out[i].id)
              \/ out[i].kind = "chunk" /\ out[i] = RP!Chunk(out[i].id)
  <1> DEFINE f == out[i]
  <1>1. RP!ConstantsAssumption /\ RP!TypeOK
    BY RouterConstants DEF RouterInv, RP!OnceInv, RP!TypeInv
  <1>2. out \in Seq(RP!Frames) /\ rSendQueue \in Seq(RP!Frames) /\ arrived \subseteq Performs
    BY <1>1 DEF RP!TypeOK
  <1>3. i \in 1..Len(out) /\ f \in RP!Frames
    BY <1>2, LenProperties, ElementOfSeq
  <1>4. RP!Count(f, out) \in Nat /\ RP!Count(f, out) # 0 /\ RP!Count(f, rSendQueue) \in Nat
    BY <1>1, <1>2, <1>3, RP!CountSome, RP!CountType
  <1>5. f.id \in arrived
    BY <1>3, <1>4 DEF RouterInv, RP!AskedInv, RP!Made
  <1>6. f.kind \in {"final", "chunk"} /\ f = [id |-> f.id, kind |-> f.kind]
    BY <1>3 DEF RP!Frames
  <1> QED
    BY <1>2, <1>5, <1>6 DEF RP!Final, RP!Chunk

(* How many frames the router made, at most.                                *)
LEMMA FramesBound ==
    ASSUME RouterInv, NEW p \in Performs, NEW k \in 0..Len(out)
    PROVE  /\ RP!Count(RP!Final(p), SubSeq(out, 1, k)) \in Nat
           /\ RP!Count(RP!Chunk(p), SubSeq(out, 1, k)) \in Nat
           /\ RP!Count(RP!Final(p), SubSeq(out, 1, k)) <= 1
           /\ RP!Count(RP!Chunk(p), SubSeq(out, 1, k)) <= MaxChunks
  <1>1. RP!ConstantsAssumption /\ RP!TypeOK
    BY RouterConstants DEF RouterInv, RP!OnceInv, RP!TypeInv
  <1>2. out \in Seq(RP!Frames) /\ rSendQueue \in Seq(RP!Frames)
    BY <1>1 DEF RP!TypeOK
  <1>3. SubSeq(out, 1, k) \in Seq(RP!Frames)
    BY <1>2, PrefixGrows
  <1>4. \A f : /\ RP!Count(f, SubSeq(out, 1, k)) \in Nat
               /\ RP!Count(f, out) \in Nat /\ RP!Count(f, rSendQueue) \in Nat
               /\ RP!Count(f, SubSeq(out, 1, k)) <= RP!Count(f, out)
    BY <1>1, <1>2, <1>3, RP!CountType, RP!CountPrefix
  <1>5. RP!Count(RP!Final(p), rSendQueue) + RP!Count(RP!Final(p), out) <= 1
    BY DEF RouterInv, RP!OnceInv, RP!AnsweredOnce, RP!FinalsOf
  <1>6. RP!Count(RP!Chunk(p), rSendQueue) + RP!Count(RP!Chunk(p), out) <= MaxChunks
    BY DEF RouterInv, RP!ChunksInv, RP!Made
  <1> HIDE DEF RouterInv
  <1> QED
    BY <1>4, <1>5, <1>6, SystemAssumption

-----------------------------------------------------------------------------
(* The two ends of the connection.                                          *)

Carried == SubSeq(out, 1, carried)

(* What the client may be sent for p, of what left the ROUTER socket.       *)
Answered(p) == RP!Count(RP!Final(p), Carried)
Streamed(p) == RP!Count(RP!Chunk(p), Carried)

LinkInv ==
    /\ asked = arrived
    /\ carried \in 0..Len(out)
    /\ \A p \in Performs : /\ Len(sent[p]) <= Answered(p) + Streamed(p)
                           /\ HasFinal(sent[p]) => Answered(p) # 0

PeerInv == TypeOK /\ RouterInv /\ LinkInv

(* The next frame to be carried.                                            *)
LEMMA NextFrame ==
    ASSUME PeerInv, carried < Len(out)
    PROVE  LET f == out[carried + 1]
               more == SubSeq(out, 1, carried + 1)
           IN /\ f.id \in Performs /\ f.id \in asked /\ f.id # Stray
              /\ f.kind \in {"final", "chunk"}
              /\ \A p \in Performs :
                    /\ Answered(p) \in Nat /\ Streamed(p) \in Nat
                    /\ RP!Count(RP!Final(p), more) =
                          Answered(p) + (IF p = f.id /\ f.kind = "final" THEN 1 ELSE 0)
                    /\ RP!Count(RP!Chunk(p), more) =
                          Streamed(p) + (IF p = f.id /\ f.kind = "chunk" THEN 1 ELSE 0)
                    /\ RP!Count(RP!Final(p), more) <= 1
                    /\ RP!Count(RP!Chunk(p), more) <= MaxChunks
  <1> DEFINE f == out[carried + 1]
             more == SubSeq(out, 1, carried + 1)
  <1>1. carried \in 0..Len(out) /\ Len(out) \in Nat /\ out \in Seq(RP!Frames)
        /\ carried + 1 \in DOMAIN out /\ carried + 1 \in 0..Len(out)
    <2>1. out \in Seq(RP!Frames)
      BY DEF PeerInv, RouterInv, RP!OnceInv, RP!TypeInv, RP!TypeOK
    <2> QED
      BY <2>1, LenProperties DEF PeerInv, LinkInv
  <1>2. /\ f.id \in Performs /\ f.id \in asked /\ f.id # Stray
        /\ \/ f.kind = "final" /\ f = RP!Final(f.id)
           \/ f.kind = "chunk" /\ f = RP!Chunk(f.id)
    BY <1>1, FramesOut, ConstantsAssumption DEF PeerInv, LinkInv
  <1>3. more = Append(Carried, f) /\ Carried \in Seq(RP!Frames)
    BY <1>1, PrefixGrows DEF Carried
  <1>4. f \in RP!Frames /\ RP!ConstantsAssumption
    BY <1>1, RouterConstants, ElementOfSeq, LenProperties
  <1>5. ASSUME NEW p \in Performs
        PROVE  RP!Count(RP!Final(p), more) <= 1 /\ RP!Count(RP!Chunk(p), more) <= MaxChunks
    BY <1>1, FramesBound DEF PeerInv
  <1> HIDE DEF more, f
  <1>6. ASSUME NEW e
        PROVE  /\ RP!Count(e, more) = RP!Count(e, Carried) + (IF e = f THEN 1 ELSE 0)
               /\ RP!Count(e, Carried) \in Nat
    BY <1>3, <1>4, RP!CountAppend, RP!CountType
  <1>7. ASSUME NEW p \in Performs
        PROVE  /\ RP!Final(p) = f <=> p = f.id /\ f.kind = "final"
               /\ RP!Chunk(p) = f <=> p = f.id /\ f.kind = "chunk"
    BY <1>2 DEF RP!Final, RP!Chunk
  <1>8. ASSUME NEW p \in Performs
        PROVE  /\ Answered(p) \in Nat /\ Streamed(p) \in Nat
               /\ RP!Count(RP!Final(p), more) =
                     Answered(p) + (IF p = f.id /\ f.kind = "final" THEN 1 ELSE 0)
               /\ RP!Count(RP!Chunk(p), more) =
                     Streamed(p) + (IF p = f.id /\ f.kind = "chunk" THEN 1 ELSE 0)
    BY <1>6, <1>7 DEF Answered, Streamed
  <1> QED
    BY <1>2, <1>5, <1>8 DEF f, more

(* A reply that the connection carries is one the peer of Client may send.  *)
LEMMA CarryIsReply ==
    ASSUME PeerInv, CarryAnswer, alive
    PROVE  LET f == out[carried + 1] IN
           \E kind \in AnswerKinds(f) : PeerReply(f.id, kind)
  <1> DEFINE f == out[carried + 1]
  <1>1. /\ f.id \in Performs /\ f.id \in asked /\ f.id # Stray
        /\ Answered(f.id) \in Nat /\ Streamed(f.id) \in Nat
        /\ f.kind = "final" => Answered(f.id) = 0
        /\ Answered(f.id) + Streamed(f.id) <= MaxChunks
    <2>1. carried < Len(out)
      BY DEF CarryAnswer
    <2> QED
      BY <2>1, NextFrame, SystemAssumption
  <1>2. Len(sent[f.id]) < MaxReplies[f.id]
    <2>1. Len(sent[f.id]) \in Nat
      BY <1>1, LenProperties DEF PeerInv, TypeOK, Ids
    <2>2. Len(sent[f.id]) <= Answered(f.id) + Streamed(f.id)
      BY <1>1 DEF PeerInv, LinkInv
    <2>3. MaxChunks \in Nat /\ MaxChunks < MaxReplies[f.id] /\ MaxReplies[f.id] \in Nat
      BY <1>1, SystemAssumption, ConstantsAssumption
    <2> HIDE DEF f
    <2> QED
      BY <1>1, <2>1, <2>2, <2>3
  <1>3. f.kind = "final" => ~HasFinal(sent[f.id])
    BY <1>1 DEF PeerInv, LinkInv
  <1>4. PICK kind \in AnswerKinds(f) :
           LET reply == [id |-> f.id, kind |-> kind, n |-> Len(sent[f.id]) + 1] IN
           /\ wireIn' = Append(wireIn, reply)
           /\ sent'   = [sent EXCEPT ![f.id] = Append(@, reply)]
           /\ UNCHANGED <<mainVars, running, sendQueue, recvQueue, zpc, wireOut, asked>>
    BY DEF CarryAnswer
  <1>5. kind \in FinalAnswers => ~HasFinal(sent[f.id])
    BY <1>3, <1>4 DEF AnswerKinds, FinalAnswers
  <1> HIDE DEF f
  <1>6. PeerReply(f.id, kind)
    BY <1>1, <1>2, <1>4, <1>5 DEF PeerReply
  <1> QED
    BY <1>6 DEF f

(* Seen from the client, the system's steps are the client's.               *)
LEMMA ClientMoves ==
    ASSUME PeerInv, [SystemNext]_allVars
    PROVE  [Next]_vars
  <1>1. CASE ClientStep
    BY <1>1 DEF ClientStep, Next
  <1>2. CASE RouterStep \/ UNCHANGED allVars
    BY <1>2 DEF RouterStep, allVars
  <1>3. CASE CarryPerform
    BY <1>3 DEF CarryPerform, Next
  <1>4. CASE CarryAnswer
    <2>1. CASE alive
      <3> DEFINE f == out[carried + 1]
      <3>1. PICK kind \in AnswerKinds(f) : PeerReply(f.id, kind)
        BY <1>4, <2>1, CarryIsReply
      <3>2. kind \in ReplyKinds
        BY <3>1 DEF AnswerKinds, ReplyKinds, FinalAnswers
      <3>3. f.id \in Ids
        BY <3>1, <1>4, FramesOut, LenProperties
        DEF PeerReply, PeerInv, TypeOK, Ids
      <3> QED
        BY <3>1, <3>2, <3>3 DEF Next
    <2>2. CASE ~alive
      BY <1>4, <2>2 DEF CarryAnswer
    <2> QED
      BY <2>1, <2>2
  <1> QED
    BY <1>1, <1>2, <1>3, <1>4 DEF SystemNext

(* The client's own steps leave its peer alone and open nothing.            *)
LEMMA OwnStepsKeepPeer == OwnNext => UNCHANGED peerVars /\ (alive' => alive)
  BY DEF OwnNext, PollStep, PollBegin, Deliver, Discard, SweepBegin, SweepEnd,
     NestedPollEnd, SweepDangling, SweepTimeout, CallbackReturn, NestedPoll,
     CallbackThrow, CloseBegin, CloseEnd, Perform, Expire, ZNext, ZCheck, ZSend,
     ZDrained, ZRecv, ZRecvThrows, ZPollTimeout, mainVars

(* What has left the ROUTER socket stays so.                                *)
LEMMA CarriedGrows ==
    ASSUME PeerInv, [SystemNext]_allVars
    PROVE  /\ carried' \in 0..Len(out')
           /\ \A f : RP!Count(f, Carried) \in Nat /\ RP!Count(f, Carried)' \in Nat
                    /\ RP!Count(f, Carried) <= RP!Count(f, Carried)'
  <1>1. /\ RP!ConstantsAssumption /\ RP!TypeOK /\ RP!FrameStep
        /\ out \in Seq(RP!Frames) /\ Len(out) \in Nat /\ carried \in 0..Len(out)
    <2>1. RP!ConstantsAssumption /\ RP!TypeInv
      BY RouterConstants DEF PeerInv, RouterInv, RP!OnceInv
    <2>2. RP!FrameStep
      BY <2>1, RouterMoves, RP!FrameSteps DEF PeerInv
    <2> QED
      BY <2>1, <2>2, LenProperties DEF RP!TypeInv, RP!TypeOK, PeerInv, LinkInv
  <1>2. out' = out \/ \E x \in RP!Frames : out' = Append(out, x)
    BY <1>1, RP!OutGrows
  <1>3. carried' \in carried..Len(out)
    BY <1>1 DEF SystemNext, ClientStep, RouterStep, CarryPerform, CarryAnswer, allVars
  <1>4. Len(out) <= Len(out') /\ SubSeq(out', 1, carried') = SubSeq(out, 1, carried')
    <2>1. ASSUME NEW x \in RP!Frames, out' = Append(out, x)
          PROVE  Len(out) <= Len(out') /\ SubSeq(out', 1, carried') = SubSeq(out, 1, carried')
      <3>1. carried' \in 0..Len(out)
        BY <1>1, <1>3
      <3> QED
        BY <1>1, <2>1, <3>1, PrefixGrows, AppendProperties
    <2>2. CASE out' = out
      BY <1>1, <2>2
    <2> QED
      BY <1>2, <2>1, <2>2
  <1>5. SubSeq(out, 1, carried') \in Seq(RP!Frames) /\ Carried \in Seq(RP!Frames)
    BY <1>1, <1>3, PrefixGrows DEF Carried
  <1>6. \A f : RP!Count(f, Carried) <= RP!Count(f, SubSeq(out, 1, carried'))
    BY <1>1, <1>3, RP!CountLonger DEF Carried
  <1>7. \A f : RP!Count(f, Carried) \in Nat /\ RP!Count(f, SubSeq(out, 1, carried')) \in Nat
    BY <1>1, <1>5, RP!CountType
  <1>8. Carried' = SubSeq(out, 1, carried')
    BY <1>4 DEF Carried
  <1>9. carried' \in 0..Len(out')
    BY <1>1, <1>2, <1>3, <1>4, LenProperties, AppendProperties
  <1> QED
    BY <1>6, <1>7, <1>8, <1>9 DEF RP!Count

(* The steps that leave the connection's two ends alone.                    *)
LEMMA LinkStep ==
    ASSUME PeerInv, [SystemNext]_allVars
    PROVE  LinkInv'
  <1>1. /\ carried' \in 0..Len(out')
        /\ \A p \in Performs :
              /\ Answered(p) \in Nat /\ Answered(p)' \in Nat /\ Answered(p) <= Answered(p)'
              /\ Streamed(p) \in Nat /\ Streamed(p)' \in Nat /\ Streamed(p) <= Streamed(p)'
    BY CarriedGrows DEF Answered, Streamed, RP!Final, RP!Chunk
  <1>2. /\ asked = arrived
        /\ \A p \in Performs : /\ Len(sent[p]) <= Answered(p) + Streamed(p)
                               /\ HasFinal(sent[p]) => Answered(p) # 0
                               /\ Len(sent[p]) \in Nat
    BY LenProperties DEF PeerInv, LinkInv, TypeOK, Ids
  <1>3. ASSUME asked' = arrived', sent' = sent
        PROVE  LinkInv'
    <2>1. ASSUME NEW p \in Performs
          PROVE  /\ Len(sent'[p]) <= Answered(p)' + Streamed(p)'
                 /\ HasFinal(sent'[p]) => Answered(p)' # 0
      BY <1>1, <1>2, <1>3 DEF HasFinal
    <2> QED
      BY <1>1, <1>3, <2>1 DEF LinkInv, HasFinal
  <1>4. CASE ClientStep \/ UNCHANGED allVars
    <2>1. UNCHANGED <<asked, arrived, sent>>
      BY <1>4, OwnStepsKeepPeer DEF ClientStep, allVars, vars, peerVars, rVars
    <2> QED
      BY <1>2, <1>3, <2>1
  <1>5. CASE RouterStep
    <2>1. UNCHANGED <<asked, arrived, sent>>
      BY <1>5, SameSteps, RouterConstants, RP!NothingArrives DEF RouterStep, vars, peerVars
    <2> QED
      BY <1>2, <1>3, <2>1
  <1>6. CASE CarryPerform
    <2>1. asked' = arrived' /\ sent' = sent
      BY <1>2, <1>6 DEF CarryPerform, PeerTake, R!ClientSends
    <2> QED
      BY <1>3, <2>1
  <1>7. CASE CarryAnswer
    <2>1. UNCHANGED <<asked, arrived, out>> /\ carried' = carried + 1 /\ carried < Len(out)
      BY <1>7 DEF CarryAnswer, rVars, vars, peerVars
    <2>2. CASE ~alive
      BY <1>2, <1>3, <1>7, <2>1, <2>2 DEF CarryAnswer, vars, peerVars
    <2>3. CASE alive
      <3> DEFINE f == out[carried + 1]
      <3>1. PICK kind \in AnswerKinds(f) :
               sent' = [sent EXCEPT ![f.id] =
                          Append(@, [id |-> f.id, kind |-> kind, n |-> Len(sent[f.id]) + 1])]
        BY <1>7, <2>3 DEF CarryAnswer
      <3> DEFINE reply == [id |-> f.id, kind |-> kind, n |-> Len(sent[f.id]) + 1]
      <3>2. /\ f.id \in Performs /\ f.kind \in {"final", "chunk"}
            /\ \A p \in Performs :
                 /\ Answered(p)' = Answered(p)
                                     + (IF p = f.id /\ f.kind = "final" THEN 1 ELSE 0)
                 /\ Streamed(p)' = Streamed(p)
                                     + (IF p = f.id /\ f.kind = "chunk" THEN 1 ELSE 0)
        BY <2>1, NextFrame DEF Answered, Streamed, Carried, RP!Count, RP!Final, RP!Chunk
      <3>3. kind \in FinalKinds => f.kind = "final"
        BY <3>1 DEF AnswerKinds, FinalKinds, FinalAnswers
      <3>4. reply \in Replies /\ reply.kind = kind
        BY <3>1, <3>2, <1>2 DEF AnswerKinds, Replies, Ids, ReplyKinds, FinalAnswers
      <3>5. sent \in [Ids -> Seq(Replies)]
        BY DEF PeerInv, TypeOK
      <3> HIDE DEF f, reply
      <3>6. ASSUME NEW p \in Performs
            PROVE  /\ Len(sent'[p]) <= Answered(p)' + Streamed(p)'
                   /\ HasFinal(sent'[p]) => Answered(p)' # 0
        <4>1. CASE p # f.id
          <5>1. sent'[p] = sent[p]
            BY <3>1, <3>5, <4>1 DEF Ids
          <5> QED
            BY <1>1, <1>2, <3>2, <4>1, <5>1 DEF HasFinal
        <4>2. CASE p = f.id
          <5>1. sent'[p] = Append(sent[p], reply) /\ sent[p] \in Seq(Replies)
            BY <3>1, <3>5, <4>2 DEF Ids, reply
          <5>2. Len(sent'[p]) = Len(sent[p]) + 1
            BY <3>4, <5>1, AppendProperties
          <5>3. HasFinal(sent'[p]) => HasFinal(sent[p]) \/ kind \in FinalKinds
            BY <3>4, <5>1, AppendProperties, LenProperties DEF HasFinal
          <5>4. Answered(p)' + Streamed(p)' = Answered(p) + Streamed(p) + 1
            BY <1>1, <3>2, <4>2
          <5>5. Len(sent'[p]) <= Answered(p)' + Streamed(p)'
            BY <1>1, <1>2, <5>2, <5>4
          <5>6. ASSUME HasFinal(sent'[p]) PROVE Answered(p)' # 0
            <6>1. CASE HasFinal(sent[p])
              BY <1>1, <1>2, <6>1
            <6>2. CASE kind \in FinalKinds
              BY <1>1, <3>2, <3>3, <4>2, <6>2
            <6> QED
              BY <5>3, <5>6, <6>1, <6>2
          <5> QED
            BY <5>5, <5>6
        <4> QED
          BY <4>1, <4>2
      <3> QED
        BY <1>1, <1>2, <2>1, <3>6 DEF LinkInv, HasFinal
    <2> QED
      BY <2>2, <2>3
  <1> QED
    BY <1>4, <1>5, <1>6, <1>7 DEF SystemNext

LEMMA PeerInvInit ==
    ASSUME IsFiniteSet(Performs), SystemInit
    PROVE  PeerInv
  <1>1. TypeOK /\ RouterInv
    BY TypeInit, RouterInvInit DEF SystemInit
  <1>2. out = <<>> /\ arrived = {} /\ RP!ConstantsAssumption
    BY RouterInit, RouterConstants DEF SystemInit, RP!Init
  <1>3. Carried = <<>>
    BY <1>2 DEF Carried, SystemInit
  <1>4. \A p \in Performs : sent[p] = <<>> /\ Answered(p) = 0 /\ Streamed(p) = 0
    BY <1>2, <1>3, RP!CountEmpty DEF SystemInit, Init, Ids, Answered, Streamed
  <1>5. LinkInv
    BY <1>2, <1>4 DEF LinkInv, SystemInit, Init, HasFinal
  <1> QED
    BY <1>1, <1>5 DEF PeerInv

LEMMA PeerInvStep ==
    ASSUME IsFiniteSet(Performs), PeerInv, [SystemNext]_allVars
    PROVE  PeerInv'
  <1>1. TypeOK'
    BY ClientMoves, TypeStep DEF PeerInv
  <1>2. RouterInv'
    BY RouterMoves, RouterInvStep DEF PeerInv
  <1> QED
    BY <1>1, <1>2, LinkStep DEF PeerInv

LEMMA PeerInvAlways == ASSUME IsFiniteSet(Performs) PROVE SystemSpec => []PeerInv
  <1>1. SystemInit => PeerInv
    BY PeerInvInit
  <1>2. PeerInv /\ [SystemNext]_allVars => PeerInv'
    BY PeerInvStep
  <1> QED
    BY <1>1, <1>2, PTL DEF SystemSpec

(* The assumptions Client makes about the other end are what a Router does  *)
(* over a connection that keeps the order: it answers nothing it was not    *)
(* asked, sends no second final frame for a perform, and stays within the   *)
(* bound.  So what is proved of Client holds of a client with a router.     *)
THEOREM RouterIsPeerAlways ==
    ASSUME IsFiniteSet(Performs) PROVE SystemSpec => RouterIsPeer
  <1>1. SystemInit => Init
    BY DEF SystemInit
  <1>2. PeerInv /\ [SystemNext]_allVars => [Next]_vars
    BY ClientMoves
  <1> QED
    BY <1>1, <1>2, PeerInvAlways, PTL DEF SystemSpec, RouterIsPeer, Spec

-----------------------------------------------------------------------------
(* No perform that waits is forgotten.  A final frame that left the ROUTER  *)
(* socket was sent to the client, and what is on the wire to the client is  *)
(* what was sent, under the number it was sent with.                        *)

FinalsCarried ==
    alive /\ rAlive =>
        \A p \in Performs : Answered(p) # 0 => HasFinal(sent[p])

WireSent ==
    /\ \A i \in DOMAIN wireIn :
          LET m == wireIn[i] IN m.n \in DOMAIN sent[m.id] /\ sent[m.id][m.n] = m
    /\ \A i \in Ids : \A n \in DOMAIN sent[i] : sent[i][n].n = n

LEMMA WireSentStep ==
    ASSUME "throw" \notin AnswerActs, "poll" \notin AnswerActs, "poll" \notin TimeoutActs,
           AnswerInv, WireSent, [Next]_vars
    PROVE  WireSent'
  <1>1. TypeOK /\ IInv /\ ItemsOK
    BY DEF AnswerInv, IInv
  <1>2. CASE sent' = sent /\ wireIn' = wireIn
    BY <1>2 DEF WireSent
  <1>3. CASE ZRecv \/ CloseEnd
    <2>1. sent' = sent
      BY <1>3 DEF ZRecv, CloseEnd, peerVars
    <2>2. ASSUME NEW i \in DOMAIN wireIn'
          PROVE  \E j \in DOMAIN wireIn : wireIn'[i] = wireIn[j]
      <3>1. CASE ZRecv
        BY <1>1, <2>2, <3>1, PopEntries DEF ZRecv, TypeOK
      <3>2. CASE CloseEnd
        BY <2>2, <3>2, EmptySeq DEF CloseEnd
      <3> QED
        BY <1>3, <3>1, <3>2
    <2> QED
      BY <2>1, <2>2 DEF WireSent
  <1>4. ASSUME NEW i \in Ids, NEW kind \in ReplyKinds, PeerReply(i, kind)
        PROVE  WireSent'
    <2> DEFINE reply == [id |-> i, kind |-> kind, n |-> Len(sent[i]) + 1]
    <2>1. /\ wireIn' = Append(wireIn, reply)
          /\ sent' = [sent EXCEPT ![i] = Append(@, reply)]
      BY <1>4 DEF PeerReply
    <2>2. /\ wireIn \in Seq(Replies) /\ sent \in [Ids -> Seq(Replies)]
          /\ sent[i] \in Seq(Replies) /\ Len(sent[i]) \in Nat
          /\ DOMAIN sent[i] = 1..Len(sent[i])
      BY <1>1, LenProperties DEF TypeOK
    <2>3. reply \in Replies /\ reply.id = i /\ reply.n = Len(sent[i]) + 1
      BY <2>2 DEF Replies
    <2> HIDE DEF reply
    <2>4. /\ sent'[i] = Append(sent[i], reply)
          /\ \A j \in Ids : j # i => sent'[j] = sent[j]
      BY <2>1, <2>2
    <2>5. /\ DOMAIN sent'[i] = 1..(Len(sent[i]) + 1)
          /\ sent'[i][Len(sent[i]) + 1] = reply
          /\ \A n \in DOMAIN sent[i] : n \in DOMAIN sent'[i] /\ sent'[i][n] = sent[i][n]
      BY <2>2, <2>3, <2>4, AppendProperties, LenProperties
    <2>6. ASSUME NEW k \in DOMAIN wireIn'
          PROVE  LET m == wireIn'[k] IN m.n \in DOMAIN sent'[m.id] /\ sent'[m.id][m.n] = m
      <3>1. CASE wireIn'[k] = reply
        BY <2>2, <2>3, <2>5, <3>1
      <3>2. CASE k \in DOMAIN wireIn /\ wireIn'[k] = wireIn[k]
        <4>1. wireIn[k] \in Replies
          BY <2>2, <3>2, LenProperties, ElementOfSeq
        <4>2. wireIn[k].id \in Ids
          BY <4>1 DEF Replies
        <4> QED
          BY <2>4, <2>5, <3>2, <4>2 DEF WireSent
      <3> QED
        BY <2>1, <2>2, <2>3, <2>6, <3>1, <3>2, AppendProperties, LenProperties
    <2>7. ASSUME NEW j \in Ids, NEW n \in DOMAIN sent'[j]
          PROVE  sent'[j][n].n = n
      <3>1. CASE j # i
        BY <2>4, <2>7, <3>1 DEF WireSent
      <3>2. CASE j = i
        <4>1. n \in 1..(Len(sent[i]) + 1)
          BY <2>5, <2>7, <3>2
        <4>2. CASE n = Len(sent[i]) + 1
          BY <2>3, <2>5, <3>2, <4>2
        <4>3. CASE n \in DOMAIN sent[i]
          BY <2>5, <3>2, <4>3 DEF WireSent
        <4> QED
          BY <2>2, <4>1, <4>2, <4>3
      <3> QED
        BY <3>1, <3>2
    <2> QED
      BY <2>6, <2>7 DEF WireSent
  <1>5. CASE \/ SameAnswers \/ PollBegin \/ Deliver \/ Discard
             \/ \E p \in Performs : Perform(p)
    <2>1. sent' = sent /\ wireIn' = wireIn
      BY <1>5 DEF SameAnswers, PollBegin, Deliver, Discard, Perform, peerVars
    <2> QED
      BY <1>2, <2>1
  <1> QED
    BY <1>1, <1>3, <1>4, <1>5, AnswerSteps

(* While both ends are open no final frame is dropped between them.         *)
LEMMA FinalsCarriedStep ==
    ASSUME PeerInv, FinalsCarried, [SystemNext]_allVars
    PROVE  FinalsCarried'
  <1> SUFFICES ASSUME alive', rAlive', NEW p \in Performs, Answered(p)' # 0
               PROVE  HasFinal(sent'[p])
    BY DEF FinalsCarried, HasFinal
  <1>1. ASSUME sent' = sent, Answered(p)' = Answered(p), alive, rAlive
        PROVE  HasFinal(sent'[p])
    BY <1>1 DEF FinalsCarried, HasFinal
  <1>2. CASE ClientStep \/ CarryPerform \/ UNCHANGED allVars
    <2>1. /\ UNCHANGED <<out, carried, sent>> /\ alive /\ rAlive
      BY <1>2, OwnStepsKeepPeer
      DEF ClientStep, CarryPerform, PeerTake, R!ClientSends, allVars, rVars, vars,
          mainVars, peerVars
    <2>2. Answered(p)' = Answered(p)
      BY <2>1 DEF Answered, Carried, RP!Count, RP!Final
    <2> QED
      BY <1>1, <2>1, <2>2
  <1>3. CASE RouterStep
    <2>1. RP!ConstantsAssumption /\ RP!OwnNext
      BY <1>3, RouterConstants, SameSteps DEF RouterStep
    <2>2. alive /\ rAlive /\ sent' = sent /\ carried' = carried
      BY <1>3, <2>1, RP!NothingArrives DEF RouterStep, vars, mainVars, peerVars
    <2>3. RP!TypeInv /\ RP!FrameStep
      BY <2>1, RP!FrameSteps DEF PeerInv, RouterInv, RP!OnceInv, RP!Next
    <2>4. /\ out \in Seq(RP!Frames) /\ carried \in 0..Len(out)
          /\ out' = out \/ \E x \in RP!Frames : out' = Append(out, x)
      BY <2>1, <2>3, RP!OutGrows DEF RP!TypeInv, RP!TypeOK, PeerInv, LinkInv
    <2>5. SubSeq(out', 1, carried) = SubSeq(out, 1, carried)
      <3>1. ASSUME NEW x \in RP!Frames, out' = Append(out, x)
            PROVE  SubSeq(out', 1, carried) = SubSeq(out, 1, carried)
        BY <2>4, <3>1, PrefixGrows
      <3> QED
        BY <2>4, <3>1
    <2>6. Answered(p)' = Answered(p)
      BY <2>2, <2>5 DEF Answered, Carried, RP!Count, RP!Final
    <2> QED
      BY <1>1, <2>2, <2>6
  <1>4. CASE CarryAnswer
    <2> DEFINE f == out[carried + 1]
    <2>1. UNCHANGED <<out, rAlive, alive>> /\ carried' = carried + 1 /\ carried < Len(out)
      BY <1>4 DEF CarryAnswer, rVars, vars, mainVars
    <2>2. PICK kind \in AnswerKinds(f) :
             sent' = [sent EXCEPT ![f.id] =
                        Append(@, [id |-> f.id, kind |-> kind, n |-> Len(sent[f.id]) + 1])]
      BY <1>4, <2>1 DEF CarryAnswer
    <2>3. /\ f.id \in Performs /\ Answered(p) \in Nat
          /\ Answered(p)' = Answered(p) + (IF p = f.id /\ f.kind = "final" THEN 1 ELSE 0)
      BY <2>1, NextFrame DEF Answered, Carried, RP!Count, RP!Final
    <2> DEFINE reply == [id |-> f.id, kind |-> kind, n |-> Len(sent[f.id]) + 1]
    <2>4. /\ sent \in [Ids -> Seq(Replies)] /\ sent[f.id] \in Seq(Replies)
          /\ Len(sent[f.id]) \in Nat
      BY <2>3, LenProperties DEF PeerInv, TypeOK, Ids
    <2>5. reply \in Replies /\ reply.kind = kind
      BY <2>2, <2>3, <2>4 DEF AnswerKinds, Replies, Ids, ReplyKinds, FinalAnswers
    <2>6. f.kind = "final" => kind \in FinalKinds
      BY <2>2 DEF AnswerKinds, FinalAnswers, FinalKinds
    <2> HIDE DEF reply, f
    <2>7. CASE p # f.id
      <3>1. sent'[p] = sent[p] /\ Answered(p)' = Answered(p)
        BY <2>2, <2>3, <2>4, <2>7 DEF Ids
      <3> QED
        BY <2>1, <3>1 DEF FinalsCarried, HasFinal
    <2>8. CASE p = f.id
      <3>1. sent'[p] = Append(sent[p], reply) /\ sent[p] \in Seq(Replies)
        BY <2>2, <2>3, <2>4, <2>8 DEF Ids, reply
      <3>2. /\ HasFinal(sent[p]) => HasFinal(sent'[p])
            /\ kind \in FinalKinds => HasFinal(sent'[p])
        BY <2>5, <3>1, AppendProperties, LenProperties DEF HasFinal
      <3>3. CASE f.kind = "final"
        BY <2>6, <3>2, <3>3
      <3>4. CASE f.kind # "final"
        <4>1. Answered(p) # 0
          BY <2>3, <3>4
        <4> QED
          BY <2>1, <3>2, <4>1 DEF FinalsCarried
      <3> QED
        BY <3>3, <3>4
    <2> QED
      BY <2>7, <2>8
  <1> QED
    BY <1>2, <1>3, <1>4 DEF SystemNext

(* The final answer of a pending perform that was sent to the client is on  *)
(* its way to the callback.                                                 *)
LEMMA SentIsOnItsWay ==
    ASSUME AnswerInv, WireSent, NEW p \in pending, alive, HasFinal(sent[p])
    PROVE  \E s \in {wireIn, recvQueue, items} : HasFinal(For(p, s))
  <1> DEFINE c == callbacks[p]
             i == For(p, items)
             r == For(p, recvQueue)
             w == For(p, wireIn)
  <1>1. TypeOK /\ p \in Performs /\ ~HasFinal(c)
    BY DEF AnswerInv, IInv, PendingExact, TypeOK
  <1>2. /\ c \in Seq(Results) /\ i \in Seq(Results) /\ r \in Seq(Results)
        /\ w \in Seq(Replies) /\ ParsedAll(w) \in Seq(Results) /\ sent[p] \in Seq(Replies)
    BY <1>1, PipeTypes
  <1>3. c \o i \o r \o ParsedAll(w) = ParsedAll(sent[p])
    BY DEF AnswerInv, NoAnswerLost
  <1>4. PICK k \in DOMAIN sent[p] : sent[p][k].kind \in FinalKinds
    BY DEF HasFinal
  <1> DEFINE m == sent[p][k]
  <1>5. /\ k \in DOMAIN ParsedAll(sent[p]) /\ ParsedAll(sent[p])[k] = Parsed(m)
        /\ m \in Replies /\ m.n = k
    <2>1. m.n = k
      BY <1>1, <1>4 DEF WireSent, Ids
    <2>2. Len(sent[p]) \in Nat /\ k \in 1..Len(sent[p]) /\ m \in Replies
      BY <1>2, <1>4, LenProperties, ElementOfSeq
    <2>3. /\ ParsedAll(sent[p]) \in Seq(Results) /\ Len(ParsedAll(sent[p])) = Len(sent[p])
          /\ \A l \in 1..Len(sent[p]) : ParsedAll(sent[p])[l] = Parsed(sent[p][l])
      BY <1>2, ParsedAllType
    <2> QED
      BY <2>1, <2>2, <2>3, LenProperties
  <1>6. Parsed(m) = m
    BY <1>4 DEF Parsed, FinalKinds, FinalAnswers
  <1> HIDE DEF c, i, r, w, m
  <1>7. \E s \in {c, i, r, ParsedAll(w)} : \E j \in DOMAIN s : s[j] = m
    <2>1. c \o i \in Seq(Results) /\ c \o i \o r \in Seq(Results)
      BY <1>2, ConcatProperties
    <2>2. k \in DOMAIN (c \o i \o r \o ParsedAll(w)) /\ (c \o i \o r \o ParsedAll(w))[k] = m
      BY <1>3, <1>5, <1>6
    <2>3. \/ \E j \in DOMAIN (c \o i \o r) : (c \o i \o r)[j] = m
          \/ \E j \in DOMAIN ParsedAll(w) : ParsedAll(w)[j] = m
      BY <1>2, <2>1, <2>2, InConcat
    <2>4. ASSUME NEW j \in DOMAIN (c \o i \o r), (c \o i \o r)[j] = m
          PROVE  \E s \in {c, i, r} : \E l \in DOMAIN s : s[l] = m
      <3>1. \/ \E l \in DOMAIN (c \o i) : (c \o i)[l] = m
            \/ \E l \in DOMAIN r : r[l] = m
        BY <1>2, <2>1, <2>4, InConcat
      <3>2. ASSUME NEW l \in DOMAIN (c \o i), (c \o i)[l] = m
            PROVE  \E s \in {c, i} : \E x \in DOMAIN s : s[x] = m
        BY <1>2, <3>2, InConcat
      <3> QED
        BY <3>1, <3>2
    <2> QED
      BY <2>3, <2>4
  <1>8. ASSUME NEW j \in DOMAIN ParsedAll(w), ParsedAll(w)[j] = m
        PROVE  HasFinal(w)
    <2>1. j \in DOMAIN w /\ w[j] \in Replies /\ Parsed(w[j]) = m
      BY <1>2, <1>8, ParsedAllType, LenProperties, ElementOfSeq
    <2>2. w[j].n = k
      BY <1>5, <2>1 DEF Parsed, Replies
    <2>3. w[j].id = p /\ \E x \in DOMAIN wireIn : w[j] = wireIn[x]
      BY <1>1, <2>1, ForElements DEF w, TypeOK
    <2>4. w[j] = m
      BY <2>2, <2>3 DEF WireSent, m
    <2> QED
      BY <1>4, <2>1, <2>4 DEF HasFinal, m
  <1> QED
    BY <1>1, <1>4, <1>7, <1>8 DEF HasFinal, c, i, r, w, m

LEMMA NotForgottenNow ==
    ASSUME PeerInv, AnswerInv, WireSent, FinalsCarried
    PROVE  NotForgotten
  <1> SUFFICES ASSUME alive, rAlive, NEW p \in pending
               PROVE  \/ RequestOnItsWay(p)
                      \/ AnswerOnItsWay(p)
                      \/ p \notin resumed /\ owners[p] # {}
    BY DEF NotForgotten
  <1>1. TypeOK /\ p \in Performs /\ p \in issued
    BY DEF AnswerInv, IInv, PendingExact, TypeOK
  <1>2. \/ Count(p, sendQueue) # 0 \/ Count(p, wireOut) # 0 \/ p \in asked
    <2>1. Copies(p) = 1
      BY <1>1 DEF AnswerInv, SentOnce
    <2> QED
      BY <2>1 DEF Copies
  <1>3. CASE Count(p, sendQueue) # 0 \/ Count(p, wireOut) # 0
    BY <1>3, CountFind DEF RequestOnItsWay
  <1>4. CASE p \in asked /\ \E i \in DOMAIN inbox : inbox[i] = p
    BY <1>4 DEF RequestOnItsWay
  <1>5. CASE p \in asked /\ ~\E i \in DOMAIN inbox : inbox[i] = p
    <2>1. RP!Received(p)
      BY <1>5 DEF RP!Received, PeerInv, LinkInv
    <2>2. p \in resumed \/ owners[p] # {}
      BY <1>1, <2>1 DEF PeerInv, RouterInv, RP!NoneForgotten
    <2>3. CASE p \notin resumed
      BY <2>2, <2>3
    <2>4. CASE p \in resumed
      <3>1. RP!Count(RP!Final(p), rSendQueue) + RP!Count(RP!Final(p), out) = 1
        BY <1>1, <2>4 DEF PeerInv, RouterInv, RP!OnceInv, RP!AnsweredOnce, RP!FinalsOf
      <3>2. RP!ConstantsAssumption /\ RP!Final(p) = R!Final(p)
        BY RouterConstants DEF RP!Final, R!Final
      <3>3. CASE RP!Count(RP!Final(p), rSendQueue) # 0
        <4>1. PICK i \in DOMAIN rSendQueue : rSendQueue[i] = RP!Final(p)
          BY <3>2, <3>3, RP!CountFind
        <4> QED
          BY <3>2, <4>1 DEF AnswerOnItsWay
      <3>4. CASE RP!Count(RP!Final(p), out) # 0
        <4>1. PICK i \in DOMAIN out : out[i] = RP!Final(p)
          BY <3>2, <3>4, RP!CountFind
        <4>2. /\ out \in Seq(RP!Frames) /\ Len(out) \in Nat
              /\ carried \in 0..Len(out) /\ i \in 1..Len(out)
          BY <4>1, LenProperties DEF PeerInv, RouterInv, RP!OnceInv, RP!TypeInv,
             RP!TypeOK, LinkInv
        <4>3. CASE i > carried
          <5>1. i \in (carried + 1)..Len(out)
            BY <4>2, <4>3
          <5> QED
            BY <3>2, <4>1, <5>1 DEF AnswerOnItsWay
        <4>4. CASE i <= carried
          <5>1. /\ Carried \in Seq(RP!Frames) /\ i \in 1..Len(Carried)
                /\ Carried[i] = RP!Final(p)
            BY <4>1, <4>2, <4>4, PrefixGrows DEF Carried
          <5>2. Answered(p) # 0
            BY <3>2, <5>1, RP!CountSome DEF Answered
          <5>3. HasFinal(sent[p])
            BY <1>1, <5>2 DEF FinalsCarried
          <5> QED
            BY <5>3, SentIsOnItsWay DEF AnswerOnItsWay
        <4> QED
          BY <4>2, <4>3, <4>4
      <3> QED
        BY <3>1, <3>3, <3>4
    <2> QED
      BY <2>3, <2>4
  <1> QED
    BY <1>2, <1>3, <1>4, <1>5

(* While both ends are open a perform that waits for its final result is on *)
(* its way, in the hands of somebody at the router who can still answer, or *)
(* its answer is on its way back: none is forgotten between two queues, two *)
(* sockets, a vector and its owners, when callbacks of answers neither      *)
(* throw nor poll and those of timeouts do not poll.                        *)
THEOREM NotForgottenAlways ==
    ASSUME IsFiniteSet(Performs),
           "throw" \notin AnswerActs, "poll" \notin AnswerActs, "poll" \notin TimeoutActs
    PROVE  SystemSpec => []NotForgotten
  <1> DEFINE WayInv == WireSent /\ FinalsCarried
  <1>1. SystemSpec => [](PeerInv /\ AnswerInv)
    BY PeerInvAlways, RouterIsPeerAlways, AnswerInvAlways, PTL DEF RouterIsPeer
  <1>2. SystemInit => WayInv
    <2> SUFFICES ASSUME SystemInit PROVE WayInv
      OBVIOUS
    <2>1. out = <<>> /\ carried = 0 /\ RP!ConstantsAssumption
      BY RouterInit, RouterConstants DEF SystemInit, RP!Init
    <2>2. \A p \in Performs : Answered(p) = 0
      <3>1. Carried = <<>>
        BY <2>1 DEF Carried
      <3> QED
        BY <2>1, <3>1, RP!CountEmpty DEF Answered
    <2> QED
      BY <2>2 DEF SystemInit, Init, WireSent, FinalsCarried
  <1>3. PeerInv /\ AnswerInv /\ WayInv /\ [SystemNext]_allVars => WayInv'
    BY ClientMoves, WireSentStep, FinalsCarriedStep
  <1>4. PeerInv /\ AnswerInv /\ WayInv => NotForgotten
    BY NotForgottenNow
  <1> QED
    BY <1>1, <1>2, <1>3, <1>4, PTL DEF SystemSpec

=============================================================================
