------------------------ MODULE PerformContextProofs ------------------------
(***************************************************************************)
(* Proofs about PerformContext, for every set of threads.                  *)
(***************************************************************************)
EXTENDS PerformContext, SequenceTheorems, TLAPS

(* What a push does to the queue.                                           *)
LEMMA QueuePush ==
    ASSUME sendQueue \in Seq(Frames), NEW frame \in Frames,
           sendQueue' = Append(sendQueue, frame)
    PROVE  /\ sendQueue' \in Seq(Frames)
           /\ Len(sendQueue) \in Nat
           /\ DOMAIN sendQueue = 1..Len(sendQueue)
           /\ DOMAIN sendQueue' = 1..(Len(sendQueue) + 1)
           /\ \A i \in DOMAIN sendQueue : sendQueue'[i] = sendQueue[i]
           /\ sendQueue'[Len(sendQueue) + 1] = frame
  <1>1. /\ sendQueue' \in Seq(Frames)
        /\ Len(sendQueue') = Len(sendQueue) + 1
        /\ \A i \in 1..Len(sendQueue) : sendQueue'[i] = sendQueue[i]
        /\ sendQueue'[Len(sendQueue) + 1] = frame
    BY AppendProperties
  <1>2. /\ Len(sendQueue) \in Nat
        /\ DOMAIN sendQueue = 1..Len(sendQueue)
        /\ DOMAIN sendQueue' = 1..Len(sendQueue')
    BY <1>1, LenProperties
  <1> QED
    BY <1>1, <1>2

-----------------------------------------------------------------------------
(* The invariant.  A thread inside a call owns the context; the destructor  *)
(* runs alone; a context that is gone was resumed.                          *)

OwnersOK ==
    /\ \A t \in Threads : pc[t] \in Kinds => t \in holders
    /\ \A t \in Threads : pc[t] = "destroy" =>
          /\ holders = {}
          /\ \A u \in Threads : u # t => pc[u] = "idle"
    /\ Destroyed => resumed

(* A thread still holding a chunk when the final frame is queued has pushed *)
(* nothing behind it yet, and is not the thread that sent it.               *)
ChunkInHandOK ==
    \A t \in Threads : pc[t] = "chunk" =>
        \A f, i \in DOMAIN sendQueue :
            FinalAt(f) /\ f <= i => sendQueue[i].by # t

CtxInv == /\ TypeOK /\ OwnersOK /\ ResumedMeansOwed /\ OneFinalFrame
          /\ ChunkInHandOK /\ OneLateChunkEach

LEMMA CtxInit == Init => CtxInv
  <1> SUFFICES ASSUME Init PROVE CtxInv
    OBVIOUS
  <1>1. sendQueue \in Seq(Frames) /\ DOMAIN sendQueue = {}
    BY EmptySeq DEF Init
  <1>2. \A t \in Threads : pc[t] = "idle"
    BY DEF Init
  <1>3. TypeOK
    BY <1>1, ConstantsAssumption DEF Init, TypeOK, Steps
  <1>4. holders # {}
    BY DEF Init
  <1> QED
    BY <1>1, <1>2, <1>3, <1>4 DEF Init, CtxInv, OwnersOK, ResumedMeansOwed,
       OneFinalFrame, ChunkInHandOK, OneLateChunkEach, Destroyed, Answered,
       FinalAt, Claimed, Kinds, Finals

(* The parts of the invariant about the queue survive a push; a frame that  *)
(* is final may be pushed only on a queue that holds none.                  *)
LEMMA PushKeepsQueueOK ==
    ASSUME CtxInv, NEW t \in Threads, NEW kind \in Kinds,
           sendQueue' = Append(sendQueue, [kind |-> kind, by |-> t]),
           kind \in Finals => ~Answered,
           kind \notin Finals => pc[t] = "chunk",
           \A u \in Threads : pc'[u] = "chunk" => pc[u] = "chunk" /\ u # t
    PROVE  /\ sendQueue' \in Seq(Frames)
           /\ OneFinalFrame' /\ ChunkInHandOK' /\ OneLateChunkEach'
           /\ Answered' <=> (Answered \/ kind \in Finals)
  <1> DEFINE frame == [kind |-> kind, by |-> t]
  <1>0. PICK n : n = Len(sendQueue) + 1
    OBVIOUS
  <1>1. frame \in Frames /\ sendQueue \in Seq(Frames)
    BY DEF Frames, CtxInv, TypeOK
  <1>2. /\ sendQueue' \in Seq(Frames)
        /\ Len(sendQueue) \in Nat
        /\ DOMAIN sendQueue = 1..Len(sendQueue)
        /\ DOMAIN sendQueue' = 1..n
        /\ \A i \in DOMAIN sendQueue : sendQueue'[i] = sendQueue[i]
        /\ sendQueue'[n] = frame
    BY <1>0, <1>1, QueuePush
  <1>3. \A i \in DOMAIN sendQueue' : i \in DOMAIN sendQueue \/ i = n
    BY <1>0, <1>2
  <1>4. \A i \in DOMAIN sendQueue : i \in DOMAIN sendQueue' /\ i < n /\ i \in Nat
    BY <1>0, <1>2
  <1>5. n \in DOMAIN sendQueue' /\ n \notin DOMAIN sendQueue /\ n \in Nat
    BY <1>0, <1>2
  <1>6. \A i \in DOMAIN sendQueue : FinalAt(i)' <=> FinalAt(i)
    BY <1>2, <1>4 DEF FinalAt
  <1>7. FinalAt(n)' <=> kind \in Finals
    BY <1>2, <1>5 DEF FinalAt
  <1>8. Answered' <=> (Answered \/ kind \in Finals)
    BY <1>3, <1>4, <1>5, <1>6, <1>7 DEF Answered
  <1>9. OneFinalFrame'
    BY <1>3, <1>6, <1>7 DEF CtxInv, OneFinalFrame, Answered
  <1>10. ChunkInHandOK'
    <2> SUFFICES ASSUME NEW u \in Threads, pc'[u] = "chunk",
                        NEW f \in DOMAIN sendQueue', NEW i \in DOMAIN sendQueue',
                        FinalAt(f)', f <= i
                 PROVE  sendQueue'[i].by # u
      BY DEF ChunkInHandOK
    <2>1. pc[u] = "chunk" /\ u # t
      OBVIOUS
    <2>2. CASE i = n
      BY <1>2, <2>1, <2>2
    <2>3. CASE i \in DOMAIN sendQueue
      <3>1. f \in DOMAIN sendQueue
        BY <1>3, <1>4, <1>5, <2>3
      <3> QED
        BY <1>2, <1>6, <2>1, <2>3, <3>1 DEF CtxInv, ChunkInHandOK
    <2> QED
      BY <1>3, <2>2, <2>3
  <1>11. OneLateChunkEach'
    <2> SUFFICES ASSUME NEW f \in DOMAIN sendQueue', NEW i \in DOMAIN sendQueue',
                        FinalAt(f)', f < i
                 PROVE  /\ sendQueue'[i].by # sendQueue'[f].by
                        /\ \A j \in DOMAIN sendQueue' :
                             f < j /\ sendQueue'[j].by = sendQueue'[i].by => i = j
      BY DEF OneLateChunkEach
    <2>1. f \in DOMAIN sendQueue /\ FinalAt(f) /\ sendQueue'[f] = sendQueue[f]
      BY <1>2, <1>3, <1>4, <1>5, <1>6
    <2>2. pc[t] = "chunk"
      BY <2>1 DEF Answered
    <2>3. \A k \in DOMAIN sendQueue : f <= k => sendQueue[k].by # t
      BY <2>1, <2>2 DEF CtxInv, ChunkInHandOK
    <2>4. sendQueue[f].by # t
      BY <1>4, <2>1, <2>3
    <2>5. sendQueue'[n].by = t
      <3>1. frame.by = t
        OBVIOUS
      <3> QED
        BY <1>2, <3>1
    <2>6. \A k \in DOMAIN sendQueue : f < k =>
             /\ sendQueue[k].by # t
             /\ sendQueue[k].by # sendQueue[f].by
             /\ \A j \in DOMAIN sendQueue :
                   f < j /\ sendQueue[j].by = sendQueue[k].by => k = j
      BY <1>4, <2>1, <2>3 DEF CtxInv, OneLateChunkEach
    <2>7. CASE i = n
      BY <1>2, <1>3, <2>1, <2>4, <2>5, <2>6, <2>7
    <2>8. CASE i \in DOMAIN sendQueue
      BY <1>2, <1>3, <2>1, <2>5, <2>6, <2>8
    <2> QED
      BY <1>3, <2>7, <2>8
  <1> QED
    BY <1>2, <1>8, <1>9, <1>10, <1>11

LEMMA CtxStep ==
    ASSUME CtxInv, [Next]_vars
    PROVE  CtxInv'
  <1>0. TypeOK
    BY DEF CtxInv
  <1>1. ASSUME NEW t \in Threads, NEW kind \in Finals, Claim(t, kind)
        PROVE  CtxInv'
    <2>1. /\ t \in holders /\ pc[t] = "idle" /\ UNCHANGED <<holders, sendQueue, lost>>
      BY <1>1 DEF Claim, CanCall
    <2>2. TypeOK'
      <3>1. pc' \in [Threads -> Steps] /\ resumed' \in BOOLEAN
        BY <1>0, <1>1 DEF Claim, FinalAllowed, TypeOK, Steps, Kinds
      <3>2. calls' \in [Threads -> Nat]
        BY <1>0, <1>1 DEF Claim, TypeOK
      <3> QED
        BY <1>0, <2>1, <3>1, <3>2 DEF TypeOK
    <2>3. CASE resumed' = TRUE /\ ~resumed /\ pc' = [pc EXCEPT ![t] = kind]
      <3>1. /\ pc'[t] = kind /\ pc'[t] \in Finals
            /\ \A u \in Threads : u # t => pc'[u] = pc[u]
        BY <1>0, <2>3 DEF TypeOK
      <3>2. ~Answered /\ ~lost /\ \A u \in Threads : ~Claimed(u)
        BY <2>3 DEF CtxInv, ResumedMeansOwed
      <3>3. ~Answered' /\ ~lost'
        BY <2>1, <3>2 DEF Answered, FinalAt
      <3>4. \A u \in Threads : Claimed(u)' <=> u = t
        BY <3>1, <3>2 DEF Claimed
      <3>5. ResumedMeansOwed'
        BY <2>3, <3>3, <3>4 DEF ResumedMeansOwed
      <3>6. OwnersOK'
        BY <2>1, <2>3, <3>1 DEF CtxInv, OwnersOK, Destroyed, Kinds, Finals
      <3>7. OneFinalFrame' /\ OneLateChunkEach' /\ ChunkInHandOK'
        BY <2>1, <3>1 DEF CtxInv, OneFinalFrame, OneLateChunkEach, ChunkInHandOK,
           FinalAt, Finals
      <3> QED
        BY <2>2, <3>5, <3>6, <3>7 DEF CtxInv
    <2>4. CASE UNCHANGED <<resumed, pc>>
      BY <2>1, <2>2, <2>4 DEF CtxInv, OwnersOK, ResumedMeansOwed, OneFinalFrame,
         ChunkInHandOK, OneLateChunkEach, Destroyed, Answered, FinalAt, Claimed
    <2> QED
      BY <1>1, <2>3, <2>4 DEF Claim, FinalAllowed
  <1>2. ASSUME NEW t \in Threads, StreamCheck(t) PROVE CtxInv'
    <2>1. /\ t \in holders /\ pc[t] = "idle"
          /\ UNCHANGED <<resumed, holders, sendQueue, lost>>
      BY <1>2 DEF StreamCheck, CanCall
    <2>2. TypeOK'
      <3>1. pc' \in [Threads -> Steps]
        BY <1>0, <1>2 DEF StreamCheck, ChunkAllowed, TypeOK, Steps, Kinds
      <3>2. calls' \in [Threads -> Nat]
        BY <1>0, <1>2 DEF StreamCheck, TypeOK
      <3> QED
        BY <1>0, <2>1, <3>1, <3>2 DEF TypeOK
    <2>3. CASE ~resumed /\ pc' = [pc EXCEPT ![t] = "chunk"]
      <3>1. /\ pc'[t] = "chunk"
            /\ \A u \in Threads : u # t => pc'[u] = pc[u]
        BY <1>0, <2>3 DEF TypeOK
      <3>2. ~Answered
        BY <2>3 DEF CtxInv, ResumedMeansOwed
      <3>3. \A f \in DOMAIN sendQueue : ~FinalAt(f)
        BY <3>2 DEF Answered
      <3>4. \A u \in Threads : Claimed(u)' <=> Claimed(u)
        BY <2>1, <3>1 DEF Claimed, Finals
      <3>5. ResumedMeansOwed'
        BY <2>1, <3>4 DEF CtxInv, ResumedMeansOwed, Answered, FinalAt
      <3>6. OwnersOK'
        BY <2>1, <2>3, <3>1 DEF CtxInv, OwnersOK, Destroyed, Kinds
      <3>7. OneFinalFrame' /\ OneLateChunkEach' /\ ChunkInHandOK'
        BY <2>1, <3>3 DEF CtxInv, OneFinalFrame, OneLateChunkEach, ChunkInHandOK,
           FinalAt
      <3> QED
        BY <2>2, <3>5, <3>6, <3>7 DEF CtxInv
    <2>4. CASE pc' = pc
      BY <2>1, <2>2, <2>4 DEF CtxInv, OwnersOK, ResumedMeansOwed, OneFinalFrame,
         ChunkInHandOK, OneLateChunkEach, Destroyed, Answered, FinalAt, Claimed
    <2> QED
      BY <1>2, <2>3, <2>4 DEF StreamCheck, ChunkAllowed
  <1>3. ASSUME NEW t \in Threads, Push(t) PROVE CtxInv'
    <2>1. /\ pc[t] \in Kinds /\ pc' = [pc EXCEPT ![t] = "idle"]
          /\ sendQueue' = Append(sendQueue, [kind |-> pc[t], by |-> t])
          /\ UNCHANGED <<resumed, holders, calls, lost>>
      BY <1>3 DEF Push
    <2>2. /\ pc'[t] = "idle" /\ \A u \in Threads : u # t => pc'[u] = pc[u]
      BY <1>0, <2>1 DEF TypeOK
    <2>3. /\ pc[t] \in Finals => ~Answered
          /\ pc[t] \notin Finals => pc[t] = "chunk"
      BY <2>1 DEF CtxInv, ResumedMeansOwed, Claimed, Kinds
    <2>4. /\ sendQueue' \in Seq(Frames)
          /\ OneFinalFrame' /\ ChunkInHandOK' /\ OneLateChunkEach'
          /\ Answered' <=> (Answered \/ pc[t] \in Finals)
      BY <2>1, <2>2, <2>3, PushKeepsQueueOK
    <2>5. TypeOK'
      BY <1>0, <2>1, <2>4 DEF TypeOK, Steps
    <2>6. ResumedMeansOwed'
      BY <2>1, <2>2, <2>4 DEF CtxInv, ResumedMeansOwed, Claimed, Finals
    <2>7. OwnersOK'
      <3>1. t \in holders
        BY <2>1 DEF CtxInv, OwnersOK
      <3> QED
        BY <2>1, <2>2, <3>1 DEF CtxInv, OwnersOK, Destroyed, Kinds, Finals
    <2> QED
      BY <2>4, <2>5, <2>6, <2>7 DEF CtxInv
  <1>4. ASSUME NEW t \in Threads, SerializeThrows(t) PROVE CtxInv'
    <2>1. /\ pc[t] \in Kinds /\ pc' = [pc EXCEPT ![t] = "idle"]
          /\ lost' = (lost \/ pc[t] \in Finals)
          /\ UNCHANGED <<resumed, holders, calls, sendQueue>>
      BY <1>4 DEF SerializeThrows
    <2>2. /\ pc'[t] = "idle" /\ \A u \in Threads : u # t => pc'[u] = pc[u]
      BY <1>0, <2>1 DEF TypeOK
    <2>3. TypeOK'
      BY <1>0, <2>1 DEF TypeOK, Steps
    <2>4. Answered' <=> Answered
      BY <2>1 DEF Answered, FinalAt
    <2>5. ResumedMeansOwed'
      BY <2>1, <2>2, <2>4 DEF CtxInv, ResumedMeansOwed, Claimed, Finals
    <2>6. OwnersOK'
      <3>1. t \in holders
        BY <2>1 DEF CtxInv, OwnersOK
      <3> QED
        BY <2>1, <2>2, <3>1 DEF CtxInv, OwnersOK, Destroyed, Kinds, Finals
    <2>7. OneFinalFrame' /\ OneLateChunkEach' /\ ChunkInHandOK'
      BY <2>1, <2>2 DEF CtxInv, OneFinalFrame, OneLateChunkEach, ChunkInHandOK,
         FinalAt
    <2> QED
      BY <2>3, <2>5, <2>6, <2>7 DEF CtxInv
  <1>5. ASSUME NEW t \in Threads, NEW u \in Threads, Share(t, u) PROVE CtxInv'
    <2>1. /\ t \in holders /\ holders' = holders \cup {u}
          /\ UNCHANGED <<resumed, pc, sendQueue, lost>>
      BY <1>5 DEF Share, CanCall
    <2>2. TypeOK'
      BY <1>0, <1>5 DEF Share, TypeOK
    <2> QED
      BY <2>1, <2>2 DEF CtxInv, OwnersOK, ResumedMeansOwed, OneFinalFrame,
         ChunkInHandOK, OneLateChunkEach, Destroyed, Answered, FinalAt, Claimed
  <1>6. ASSUME NEW t \in Threads, Release(t) PROVE CtxInv'
    <2>1. /\ t \in holders /\ pc[t] = "idle" /\ holders' = holders \ {t}
          /\ pc' = IF holders = {t} THEN [pc EXCEPT ![t] = "destroy"] ELSE pc
          /\ UNCHANGED <<resumed, calls, sendQueue, lost>>
      BY <1>6 DEF Release
    <2>2. TypeOK'
      BY <1>0, <2>1 DEF TypeOK, Steps
    <2>3. \A u \in Threads : /\ u # t => pc'[u] = pc[u]
                             /\ pc'[u] \in Kinds <=> pc[u] \in Kinds
      BY <1>0, <2>1 DEF TypeOK, Kinds, Finals
    <2>4. \A u \in Threads : Claimed(u)' <=> Claimed(u)
      BY <2>1, <2>3 DEF Claimed, Finals, Kinds, TypeOK, CtxInv
    <2>5. ResumedMeansOwed'
      BY <2>1, <2>4 DEF CtxInv, ResumedMeansOwed, Answered, FinalAt
    <2>6. OwnersOK'
      <3>1. CASE holders = {t}
        <4>1. pc'[t] = "destroy" /\ holders' = {}
          BY <1>0, <2>1, <3>1 DEF TypeOK
        <4>2. \A u \in Threads : u # t => pc[u] = "idle"
          BY <1>0, <2>1, <3>1 DEF CtxInv, OwnersOK, TypeOK, Steps
        <4> QED
          BY <2>1, <2>3, <4>1, <4>2 DEF OwnersOK, Destroyed, Kinds, Finals
      <3>2. CASE holders # {t}
        BY <2>1, <3>2 DEF CtxInv, OwnersOK, Destroyed, Kinds, Finals
      <3> QED
        BY <3>1, <3>2
    <2>7. OneFinalFrame' /\ OneLateChunkEach' /\ ChunkInHandOK'
      <3>1. \A u \in Threads : pc'[u] = "chunk" => pc[u] = "chunk"
        BY <1>0, <2>1 DEF TypeOK
      <3> QED
        BY <2>1, <3>1 DEF CtxInv, OneFinalFrame, OneLateChunkEach,
           ChunkInHandOK, FinalAt
    <2> QED
      BY <2>2, <2>5, <2>6, <2>7 DEF CtxInv
  <1>7. ASSUME NEW t \in Threads, Destroy(t) PROVE CtxInv'
    <2>1. /\ pc[t] = "destroy" /\ pc' = [pc EXCEPT ![t] = "idle"]
          /\ resumed' = TRUE /\ UNCHANGED <<holders, calls, lost>>
          /\ sendQueue' = sendQueue \o DropFrames(t)
      BY <1>7 DEF Destroy
    <2>2. holders = {} /\ \A u \in Threads : pc'[u] = "idle"
      BY <1>0, <2>1 DEF CtxInv, OwnersOK, TypeOK
    <2>3. \A u \in Threads : ~Claimed(u) /\ ~Claimed(u)'
      BY <2>1, <2>2 DEF Claimed, Finals, CtxInv, OwnersOK
    <2>4. OwnersOK'
      BY <2>1, <2>2 DEF OwnersOK, Kinds, Finals
    <2>5. CASE resumed
      <3>1. sendQueue' = sendQueue
        BY <1>0, <2>1, <2>5, ConcatEmptySeq DEF DropFrames, TypeOK
      <3>2. TypeOK'
        BY <1>0, <2>1, <3>1 DEF TypeOK, Steps
      <3>3. ResumedMeansOwed'
        BY <2>1, <2>3, <2>5, <3>1 DEF CtxInv, ResumedMeansOwed, Answered, FinalAt
      <3>4. OneFinalFrame' /\ OneLateChunkEach' /\ ChunkInHandOK'
        BY <2>2, <3>1 DEF CtxInv, OneFinalFrame, OneLateChunkEach,
           ChunkInHandOK, FinalAt
      <3> QED
        BY <2>4, <3>2, <3>3, <3>4 DEF CtxInv
    <2>6. CASE ~resumed
      <3>1. ~Answered /\ ~lost
        BY <2>6 DEF CtxInv, ResumedMeansOwed
      <3>2. DropError(t) \in Frames /\ sendQueue \in Seq(Frames)
        BY <1>0 DEF DropError, Frames, Kinds, Finals, TypeOK
      <3>3. sendQueue' = Append(sendQueue, [kind |-> "error", by |-> t])
        BY <2>1, <2>6, <3>2, AppendIsConcat DEF DropFrames, DropError
      <3>4. /\ sendQueue' \in Seq(Frames)
            /\ OneFinalFrame' /\ ChunkInHandOK' /\ OneLateChunkEach'
            /\ Answered'
        BY <2>2, <3>1, <3>3, PushKeepsQueueOK DEF Kinds, Finals
      <3>5. TypeOK'
        BY <1>0, <2>1, <3>4 DEF TypeOK, Steps
      <3>6. ResumedMeansOwed'
        BY <2>1, <2>3, <3>1, <3>4 DEF ResumedMeansOwed
      <3> QED
        BY <2>4, <3>4, <3>5, <3>6 DEF CtxInv
    <2> QED
      BY <1>0, <2>5, <2>6 DEF TypeOK
  <1>8. CASE UNCHANGED vars
    BY <1>8 DEF vars, CtxInv, TypeOK, OwnersOK, ResumedMeansOwed, OneFinalFrame,
       ChunkInHandOK, OneLateChunkEach, Destroyed, Answered, FinalAt, Claimed
  <1> QED
    BY <1>1, <1>2, <1>3, <1>4, <1>5, <1>6, <1>7, <1>8 DEF Next, Step, Done

(* The invariant from which the theorems below follow.                      *)
LEMMA ContextInvariant == Spec => []CtxInv
  BY CtxInit, CtxStep, PTL DEF Spec

(* A thread is always at one of the steps of resume(), error() and the      *)
(* destructor, and every frame it pushed is an answer of that thread.       *)
THEOREM TypeCorrect == Spec => []TypeOK
  BY ContextInvariant, PTL DEF CtxInv

(* At most one final frame is sent, for any number of threads racing to     *)
(* resume, fail and drop the context.                                       *)
THEOREM OneFinalFrameAlways == Spec => []OneFinalFrame
  BY ContextInvariant, PTL DEF CtxInv

(* A context whose resumed_ is set has sent its final frame, or one thread  *)
(* is about to, or its value could not be serialised.                       *)
THEOREM ResumedMeansOwedAlways == Spec => []ResumedMeansOwed
  BY ContextInvariant, PTL DEF CtxInv

(* No thread pushes two chunks behind the final frame.                      *)
THEOREM OneLateChunkEachAlways == Spec => []OneLateChunkEach
  BY ContextInvariant, PTL DEF CtxInv

(* A context that is gone was answered, or its final value was lost.        *)
THEOREM AnsweredOrLostAlways == Spec => []AnsweredOrLost
  <1>1. CtxInv => AnsweredOrLost
    BY DEF CtxInv, OwnersOK, ResumedMeansOwed, AnsweredOrLost, Destroyed,
       Claimed, Finals
  <1> QED
    BY <1>1, ContextInvariant, PTL
=============================================================================
