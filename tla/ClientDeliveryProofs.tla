------------------------ MODULE ClientDeliveryProofs ------------------------
(***************************************************************************)
(* Proofs about what the client's queues carry: every perform to the       *)
(* router once, and every answer back once and in order.                   *)
(***************************************************************************)
EXTENDS ClientProofs, QueueLemmas

-----------------------------------------------------------------------------
(* Requests.  A step makes a perform, moves a frame from the queue to the   *)
(* socket or from the socket to the router, or loses what close() drops.    *)

SameRequests == UNCHANGED <<alive, issued, sendQueue, wireOut, asked>>

LEMMA RequestSteps ==
    ASSUME [Next]_vars
    PROVE  \/ SameRequests \/ ZSend \/ PeerTake \/ CloseEnd
           \/ \E p \in Performs : Perform(p)
  BY DEF Next, OwnNext, PollStep, ZNext, Closed, PollBegin, Deliver, Discard,
     SweepBegin, SweepEnd, NestedPollEnd, SweepDangling, SweepTimeout,
     CallbackReturn, NestedPoll, CallbackThrow, CloseBegin, Expire, ZCheck,
     ZDrained, ZRecv, ZRecvThrows, ZPollTimeout, PeerReply, SameRequests, vars, mainVars,
     peerVars

LEMMA CopiesType ==
    ASSUME TypeOK, NEW p \in Performs
    PROVE  /\ Count(p, sendQueue) \in Nat /\ Count(p, wireOut) \in Nat
           /\ Copies(p) \in Nat
  <1>1. Count(p, sendQueue) \in Nat /\ Count(p, wireOut) \in Nat
    BY CountType DEF TypeOK
  <1> QED
    BY <1>1 DEF Copies

LEMMA SentOnceStep ==
    ASSUME TypeOK, SentOnce, [Next]_vars
    PROVE  SentOnce'
  <1> DEFINE Once(p) == IF alive THEN Copies(p) = (IF p \in issued THEN 1 ELSE 0)
                                 ELSE Copies(p) <= 1
  <1>0. sendQueue \in Seq(Performs) /\ wireOut \in Seq(Performs)
    BY DEF TypeOK
  <1> SUFFICES ASSUME NEW q \in Performs PROVE Once(q)'
    BY DEF SentOnce
  <1>1. Once(q)
    BY DEF SentOnce
  <1>2. Count(q, sendQueue) \in Nat /\ Count(q, wireOut) \in Nat
    BY CopiesType
  <1>3. CASE SameRequests
    BY <1>1, <1>3 DEF SameRequests, Copies
  <1>4. CASE ZSend
    <2>1. /\ UNCHANGED <<alive, issued, asked>> /\ sendQueue # <<>>
          /\ wireOut' = Append(wireOut, Head(sendQueue))
          /\ sendQueue' = Tail(sendQueue)
      BY <1>4 DEF ZSend, mainVars, peerVars
    <2>2. /\ Head(sendQueue) \in Performs /\ Tail(sendQueue) \in Seq(Performs)
          /\ Count(q, sendQueue) = (IF q = Head(sendQueue) THEN 1 ELSE 0)
                                     + Count(q, Tail(sendQueue))
      BY <1>0, <2>1, HeadAndTail, CountHeadTail
    <2>3. Count(q, Append(wireOut, Head(sendQueue)))
             = Count(q, wireOut) + (IF q = Head(sendQueue) THEN 1 ELSE 0)
      BY <1>0, <2>2, CountAppend
    <2>4. Count(q, Tail(sendQueue)) \in Nat
      BY <2>2, CountType
    <2>5. Copies(q)' = Copies(q)
      BY <1>2, <2>1, <2>2, <2>3, <2>4 DEF Copies
    <2> QED
      BY <1>1, <2>1, <2>5
  <1>5. CASE PeerTake
    <2>1. /\ UNCHANGED <<alive, issued, sendQueue>> /\ wireOut # <<>>
          /\ asked' = asked \cup {Head(wireOut)}
          /\ wireOut' = Tail(wireOut)
      BY <1>5 DEF PeerTake, mainVars
    <2>2. /\ Tail(wireOut) \in Seq(Performs)
          /\ Count(q, wireOut) = (IF q = Head(wireOut) THEN 1 ELSE 0)
                                   + Count(q, Tail(wireOut))
      BY <1>0, <2>1, HeadAndTail, CountHeadTail
    <2>3. Count(q, Tail(wireOut)) \in Nat
      BY <2>2, CountType
    <2>4. Copies(q)' = Count(q, sendQueue) + Count(q, Tail(wireOut))
                         + IF q \in asked \/ q = Head(wireOut) THEN 1 ELSE 0
      BY <2>1 DEF Copies
    <2>5. Copies(q) <= 1
      BY <1>1
    <2>6. Copies(q)' = Copies(q)
      BY <1>2, <2>2, <2>3, <2>4, <2>5 DEF Copies
    <2> QED
      BY <1>1, <2>1, <2>6
  <1>6. CASE CloseEnd
    <2>1. /\ alive' = FALSE /\ sendQueue' = <<>> /\ asked' = asked
          /\ \E k \in 0..Len(wireOut) : wireOut' = SubSeq(wireOut, 1, k)
      BY <1>6 DEF CloseEnd, peerVars
    <2>2. Count(q, wireOut') <= Count(q, wireOut) /\ Count(q, wireOut') \in Nat
      <3>1. PICK k \in 0..Len(wireOut) : wireOut' = SubSeq(wireOut, 1, k)
        BY <2>1
      <3>2. SubSeq(wireOut, 1, k) \in Seq(Performs)
        BY <1>0, SubSeqProperties, LenProperties
      <3> QED
        BY <1>0, <3>1, <3>2, CountPrefix, CountType
    <2>3. Count(q, sendQueue') = 0
      BY <2>1, CountEmpty
    <2>4. Copies(q)' <= Copies(q) /\ Copies(q) <= 1 /\ Copies(q)' \in Nat
      BY <1>1, <1>2, <2>1, <2>2, <2>3 DEF Copies
    <2> QED
      BY <1>2, <2>1, <2>4 DEF Copies
  <1>7. ASSUME NEW p \in Performs, Perform(p) PROVE Once(q)'
    <2>1. /\ alive /\ p \notin issued /\ issued' = issued \cup {p}
          /\ sendQueue' = Append(sendQueue, p)
          /\ UNCHANGED <<alive, wireOut, asked>>
      BY <1>7 DEF Perform, peerVars
    <2>2. Count(q, sendQueue') = Count(q, sendQueue) + (IF q = p THEN 1 ELSE 0)
      BY <1>0, <2>1, CountAppend
    <2>3. Copies(q)' = Copies(q) + (IF q = p THEN 1 ELSE 0)
      BY <1>2, <2>1, <2>2 DEF Copies
    <2> QED
      BY <1>1, <1>2, <2>1, <2>3
  <1> QED
    BY <1>3, <1>4, <1>5, <1>6, <1>7, RequestSteps

(* No perform is sent twice, whatever the callbacks do, and none is left    *)
(* out: while the client is open each one made is in the queue, in the      *)
(* socket or at the router, in one of them.                                 *)
THEOREM SentOnceAlways == Spec => []SentOnce
  <1>1. Init => SentOnce
    <2> SUFFICES ASSUME Init, NEW p \in Performs PROVE Copies(p) = 0
      BY DEF Init, SentOnce
    <2> QED
      BY CountEmpty DEF Init, Copies
  <1>2. TypeOK /\ SentOnce /\ [Next]_vars => SentOnce'
    BY SentOnceStep
  <1> QED
    BY <1>1, <1>2, TypeCorrect, PTL DEF Spec

-----------------------------------------------------------------------------
(* Answers.                                                                 *)

LEMMA ParsedType ==
    ASSUME NEW m \in Replies
    PROVE  Parsed(m) \in Results /\ Parsed(m).id = m.id /\ Parsed(m).kind # "timeout"
  BY DEF Parsed, Replies, Results, ReplyKinds, FinalKinds, FinalAnswers

LEMMA ParsedAllType ==
    ASSUME NEW s \in Seq(Replies)
    PROVE  /\ ParsedAll(s) \in Seq(Results)
           /\ Len(ParsedAll(s)) = Len(s)
           /\ \A i \in 1..Len(s) : ParsedAll(s)[i] = Parsed(s[i])
  <1>1. Len(s) \in Nat /\ DOMAIN s = 1..Len(s) /\ \A i \in 1..Len(s) : s[i] \in Replies
    BY LenProperties, ElementOfSeq
  <1>2. \A i \in 1..Len(s) : Parsed(s[i]) \in Results
    BY <1>1, ParsedType
  <1>3. ParsedAll(s) = [i \in 1..Len(s) |-> Parsed(s[i])]
    BY <1>1 DEF ParsedAll
  <1>4. ParsedAll(s) \in [1..Len(s) -> Results]
    BY <1>2, <1>3
  <1> QED
    BY <1>1, <1>3, <1>4, IsASeq, LenProperties

LEMMA ParsedAllConcat ==
    ASSUME NEW s \in Seq(Replies), NEW t \in Seq(Replies)
    PROVE  ParsedAll(s \o t) = ParsedAll(s) \o ParsedAll(t)
  <1>1. /\ s \o t \in Seq(Replies) /\ Len(s \o t) = Len(s) + Len(t)
        /\ \A i \in 1..(Len(s) + Len(t)) :
              (s \o t)[i] = IF i <= Len(s) THEN s[i] ELSE t[i - Len(s)]
        /\ Len(s) \in Nat /\ Len(t) \in Nat
    BY ConcatProperties, LenProperties
  <1>2. /\ ParsedAll(s) \in Seq(Results) /\ Len(ParsedAll(s)) = Len(s)
        /\ ParsedAll(t) \in Seq(Results) /\ Len(ParsedAll(t)) = Len(t)
        /\ ParsedAll(s \o t) \in Seq(Results) /\ Len(ParsedAll(s \o t)) = Len(s) + Len(t)
        /\ \A i \in 1..Len(s) : ParsedAll(s)[i] = Parsed(s[i])
        /\ \A i \in 1..Len(t) : ParsedAll(t)[i] = Parsed(t[i])
        /\ \A i \in 1..(Len(s) + Len(t)) : ParsedAll(s \o t)[i] = Parsed((s \o t)[i])
    BY <1>1, ParsedAllType
  <1>3. /\ ParsedAll(s) \o ParsedAll(t) \in Seq(Results)
        /\ Len(ParsedAll(s) \o ParsedAll(t)) = Len(s) + Len(t)
        /\ \A i \in 1..(Len(s) + Len(t)) :
              (ParsedAll(s) \o ParsedAll(t))[i]
                 = IF i <= Len(s) THEN ParsedAll(s)[i] ELSE ParsedAll(t)[i - Len(s)]
    <2>1. \A a, b \in Seq(Results) :
             /\ a \o b \in Seq(Results) /\ Len(a \o b) = Len(a) + Len(b)
             /\ \A i \in 1..(Len(a) + Len(b)) :
                   (a \o b)[i] = IF i <= Len(a) THEN a[i] ELSE b[i - Len(a)]
      BY ConcatProperties
    <2> QED
      BY <1>2, <2>1
  <1>4. ASSUME NEW i \in 1..(Len(s) + Len(t))
        PROVE  ParsedAll(s \o t)[i] = (ParsedAll(s) \o ParsedAll(t))[i]
    <2>1. CASE i <= Len(s)
      <3>1. i \in 1..Len(s)
        BY <1>1, <2>1
      <3> QED
        BY <1>1, <1>2, <1>3, <2>1, <3>1
    <2>2. CASE ~(i <= Len(s))
      <3>1. i - Len(s) \in 1..Len(t)
        BY <1>1, <2>2
      <3> QED
        BY <1>1, <1>2, <1>3, <2>2, <3>1
    <2> QED
      BY <2>1, <2>2
  <1> QED
    BY <1>2, <1>3, <1>4, SeqEqual

LEMMA ParsedAllOne ==
    ASSUME NEW r \in Replies
    PROVE  ParsedAll(<<r>>) = <<Parsed(r)>>
  <1>1. DOMAIN <<r>> = {1} /\ <<r>>[1] = r
    OBVIOUS
  <1>2. ParsedAll(<<r>>) = [i \in {1} |-> Parsed(r)]
    BY <1>1 DEF ParsedAll
  <1>3. DOMAIN <<Parsed(r)>> = {1} /\ <<Parsed(r)>>[1] = Parsed(r)
    OBVIOUS
  <1> QED
    BY <1>2, <1>3

LEMMA ParsedAllEmpty == ParsedAll(<<>>) = <<>>
  BY DEF ParsedAll

(* Outside the dispatch loop poll() holds no results, unless it crashed in  *)
(* it, and no poll is under way under another.                              *)
ItemsOK == /\ Place \notin {"dispatch", "answerCb", "crashed"} => items = <<>>
           /\ stack = <<>>

(* Nothing is on its way for a perform that was not made.                   *)
UnmadeOK ==
    \A p \in Performs \ issued :
        /\ For(p, items) = <<>> /\ For(p, recvQueue) = <<>> /\ For(p, wireIn) = <<>>
        /\ sent[p] = <<>>

AnswerInv == IInv /\ SentOnce /\ ItemsOK /\ UnmadeOK /\ NoAnswerLost

(* A step that leaves answers on their way as they are, and the histories   *)
(* of the performs that stay pending.                                       *)
SameAnswers ==
    /\ UNCHANGED <<items, recvQueue, wireIn, sent, issued>>
    /\ pending' \subseteq pending
    /\ \A p \in pending' : callbacks'[p] = callbacks[p]

LEMMA AnswerSteps ==
    ASSUME "throw" \notin AnswerActs, "poll" \notin AnswerActs, "poll" \notin TimeoutActs,
           IInv, ItemsOK, [Next]_vars
    PROVE  /\ ItemsOK'
           /\ \/ SameAnswers \/ PollBegin \/ Deliver \/ Discard \/ ZRecv
              \/ CloseEnd \/ (\E p \in Performs : Perform(p))
              \/ (\E i \in Ids, kind \in ReplyKinds : PeerReply(i, kind))
  <1>0. TypeOK
    BY DEF IInv
  <1>1. ASSUME NEW p \in Performs, Perform(p) PROVE ItemsOK'
    BY <1>1 DEF Perform, ItemsOK, Place
  <1>2. CASE PollBegin \/ Deliver \/ Discard
    BY <1>2 DEF PollBegin, Deliver, Discard, ItemsOK, Place
  <1>3. CASE SweepBegin \/ SweepEnd
    <2>1. ItemsOK'
      BY <1>3 DEF SweepBegin, AllDispatched, SweepEnd, ItemsOK, Place
    <2>2. SameAnswers
      BY <1>3 DEF SweepBegin, SweepEnd, SameAnswers, peerVars
    <2> QED
      BY <2>1, <2>2
  <1>4. ASSUME NEW p \in Performs, SweepTimeout(p) PROVE ItemsOK' /\ SameAnswers
    <2>1. ItemsOK'
      BY <1>4 DEF SweepTimeout, ItemsOK, Place
    <2>2. SameAnswers
      BY <1>0, <1>4 DEF SweepTimeout, SameAnswers, peerVars, TypeOK
    <2> QED
      BY <2>1, <2>2
  <1>5. CASE SweepDangling
    <2>1. ItemsOK'
      BY <1>5 DEF SweepDangling, ItemsOK, Place
    <2>2. pending = {} /\ pending' = {}
      BY <1>5 DEF SweepDangling, IInv, DanglingOK, ClosedOK
    <2>3. SameAnswers
      BY <1>5, <2>2 DEF SweepDangling, SameAnswers, peerVars
    <2> QED
      BY <2>1, <2>3
  <1>6. CASE CallbackReturn
    BY <1>6 DEF CallbackReturn, InCallback, ItemsOK, Place, SameAnswers, peerVars
  <1>7. CASE NestedPoll \/ NestedPollEnd
    BY <1>7 DEF NestedPoll, NestedPollEnd, InCallback, MayAct, ItemsOK
  <1>8. CASE CallbackThrow
    <2>1. mainPc = "timeoutCb" /\ items = <<>> /\ stack = <<>>
      BY <1>8 DEF CallbackThrow, MayAct, ItemsOK, Place
    <2> QED
      BY <1>8, <2>1 DEF CallbackThrow, ItemsOK, Place, SameAnswers, peerVars
  <1>9. CASE CloseBegin
    <2>1. mainPc # "join" /\ Place' = Place
      BY <1>9 DEF CloseBegin, MayAct, Place
    <2> QED
      BY <1>9, <2>1 DEF CloseBegin, ItemsOK, SameAnswers, peerVars
  <1>10. CASE CloseEnd
    <2>1. Place' = Place
      BY <1>0, <1>10 DEF CloseEnd, Place, TypeOK
    <2> QED
      BY <1>10, <2>1 DEF CloseEnd, ItemsOK
  <1>11. ASSUME NEW p \in Performs, Expire(p) PROVE ItemsOK' /\ SameAnswers
    BY <1>11 DEF Expire, ItemsOK, Place, SameAnswers, peerVars
  <1>12. CASE ZCheck \/ ZSend \/ ZDrained \/ ZRecvThrows \/ ZPollTimeout \/ PeerTake
    BY <1>12 DEF ZCheck, ZSend, ZDrained, ZRecvThrows, ZPollTimeout, PeerTake, mainVars,
       peerVars, ItemsOK, Place, SameAnswers
  <1>13. CASE ZRecv \/ (\E i \in Ids, kind \in ReplyKinds : PeerReply(i, kind))
    <2>1. UNCHANGED mainVars
      BY <1>13 DEF ZRecv, PeerReply
    <2> QED
      BY <1>13, <2>1 DEF mainVars, ItemsOK, Place
  <1>14. CASE UNCHANGED vars
    BY <1>14 DEF vars, mainVars, peerVars, ItemsOK, Place, SameAnswers
  <1> QED
    BY <1>1, <1>2, <1>3, <1>4, <1>5, <1>6, <1>7, <1>8, <1>9, <1>10, <1>11, <1>12,
       <1>13, <1>14 DEF Next, OwnNext, PollStep, ZNext, Closed

(* What a pending perform's answers are found in, in the order of arrival.  *)
Pipe(p) == callbacks[p] \o For(p, items) \o For(p, recvQueue) \o ParsedAll(For(p, wireIn))

LEMMA PipeTypes ==
    ASSUME TypeOK, NEW p \in Performs
    PROVE  /\ callbacks[p] \in Seq(Results) /\ For(p, items) \in Seq(Results)
           /\ For(p, recvQueue) \in Seq(Results) /\ For(p, wireIn) \in Seq(Replies)
           /\ ParsedAll(For(p, wireIn)) \in Seq(Results)
           /\ sent[p] \in Seq(Replies)
  <1>1. /\ callbacks[p] \in Seq(Results) /\ items \in Seq(Results)
        /\ recvQueue \in Seq(Results) /\ wireIn \in Seq(Replies)
        /\ sent[p] \in Seq(Replies)
    BY DEF TypeOK, Ids
  <1> QED
    BY <1>1, ForType, ParsedAllType

(* What the socket holds for p, when a reply leaves it and enters it.       *)
LEMMA WireHead ==
    ASSUME NEW w \in Seq(Replies), w # <<>>, NEW p
    PROVE  ParsedAll(For(p, w)) =
              IF Head(w).id = p THEN <<Parsed(Head(w))>> \o ParsedAll(For(p, Tail(w)))
                                ELSE ParsedAll(For(p, Tail(w)))
  <1>1. Head(w) \in Replies /\ Tail(w) \in Seq(Replies)
    BY HeadAndTail
  <1>2. For(p, Tail(w)) \in Seq(Replies) /\ <<Head(w)>> \in Seq(Replies)
    BY <1>1, ForType, Assoc, EmptySeq
  <1>3. For(p, w) = IF Head(w).id = p THEN <<Head(w)>> \o For(p, Tail(w))
                                      ELSE For(p, Tail(w))
    BY ForHeadTail
  <1>4. ParsedAll(<<Head(w)>> \o For(p, Tail(w)))
           = ParsedAll(<<Head(w)>>) \o ParsedAll(For(p, Tail(w)))
    BY <1>2, ParsedAllConcat
  <1>5. ParsedAll(<<Head(w)>>) = <<Parsed(Head(w))>>
    BY <1>1, ParsedAllOne
  <1> QED
    BY <1>3, <1>4, <1>5

LEMMA ParsedAllAppend ==
    ASSUME NEW s \in Seq(Replies), NEW r \in Replies
    PROVE  ParsedAll(Append(s, r)) = Append(ParsedAll(s), Parsed(r))
  <1>1. Append(s, r) = s \o <<r>> /\ <<r>> \in Seq(Replies)
    BY Assoc
  <1>2. ParsedAll(s \o <<r>>) = ParsedAll(s) \o <<Parsed(r)>>
    BY <1>1, ParsedAllConcat, ParsedAllOne
  <1>3. Append(ParsedAll(s), Parsed(r)) = ParsedAll(s) \o <<Parsed(r)>>
    BY ParsedAllType, ParsedType, Assoc
  <1> QED
    BY <1>1, <1>2, <1>3

(* The answers of a pending perform move along the pipe.                    *)
LEMMA PipeStep ==
    ASSUME "throw" \notin AnswerActs, "poll" \notin AnswerActs, "poll" \notin TimeoutActs,
           AnswerInv, [Next]_vars, NEW p \in pending', p \in pending
    PROVE  Pipe(p)' = ParsedAll(sent[p])'
  <1>0. TypeOK /\ p \in Performs /\ Pipe(p) = ParsedAll(sent[p])
    BY DEF AnswerInv, IInv, TypeOK, NoAnswerLost, Pipe
  <1> DEFINE C == callbacks[p]
             I == For(p, items)
             Q == For(p, recvQueue)
             W == ParsedAll(For(p, wireIn))
  <1>a. /\ C \in Seq(Results) /\ I \in Seq(Results) /\ Q \in Seq(Results)
        /\ W \in Seq(Results) /\ sent[p] \in Seq(Replies)
        /\ For(p, wireIn) \in Seq(Replies)
    BY <1>0, PipeTypes
  <1>b. C \o I \o Q \o W = ParsedAll(sent[p])
    BY <1>0 DEF Pipe
  <1>c. \A a, b, c \in Seq(Results) : (a \o b) \o c = a \o (b \o c)
    BY ConcatAssociative, SMTT(30)
  <1>d. /\ \A a, b \in Seq(Results) : a \o b \in Seq(Results)
        /\ \A a \in Seq(Results) : a \o <<>> = a /\ <<>> \o a = a
    BY Assoc
  <1>e. Pipe(p)' = callbacks'[p] \o For(p, items') \o For(p, recvQueue')
                       \o ParsedAll(For(p, wireIn'))
    BY DEF Pipe
  <1> HIDE DEF C, I, Q, W
  <1>1. CASE SameAnswers
    BY <1>0, <1>1, <1>e DEF SameAnswers, Pipe
  <1>2. CASE PollBegin
    <2>1. items = <<>> /\ items' = recvQueue /\ recvQueue' = <<>>
          /\ UNCHANGED <<callbacks, wireIn, sent>>
      BY <1>2 DEF PollBegin, AnswerInv, ItemsOK, Place, peerVars
    <2>2. Pipe(p)' = C \o Q \o <<>> \o W
      BY <1>e, <2>1, ForEmpty DEF C, Q, W
    <2>3. I = <<>>
      BY <2>1, ForEmpty DEF I
    <2> QED
      BY <1>a, <1>b, <1>d, <2>1, <2>2, <2>3
  <1>3. CASE Deliver
    <2> DEFINE item == Head(items)
               J == For(p, Tail(items))
               E == <<item>>
    <2>1. /\ items # <<>> /\ items' = Tail(items)
          /\ callbacks' = [callbacks EXCEPT ![item.id] = Append(@, item)]
          /\ item.id \in Performs
          /\ UNCHANGED <<recvQueue, wireIn, sent>>
      BY <1>0, <1>3 DEF Deliver, peerVars, TypeOK
    <2>2. item \in Results /\ Tail(items) \in Seq(Results) /\ J \in Seq(Results)
      BY <1>0, <2>1, HeadAndTail, ForType DEF TypeOK
    <2>3. I = IF item.id = p THEN <<item>> \o J ELSE J
      BY <1>0, <2>1, ForHeadTail DEF I, TypeOK
    <2>4. callbacks'[p] = IF item.id = p THEN Append(C, item) ELSE C
      BY <1>0, <2>1 DEF C, TypeOK
    <2>5. Pipe(p)' = callbacks'[p] \o J \o Q \o W
      BY <1>e, <2>1 DEF Q, W
    <2>6. E \in Seq(Results) /\ Append(C, item) = C \o E
      BY <1>a, <2>2, AppendIsConcat
    <2>7. I = IF item.id = p THEN E \o J ELSE J
      BY <2>3
    <2> HIDE DEF item, J, E
    <2>8. callbacks'[p] \o J = C \o I
      <3>1. (C \o E) \o J = C \o (E \o J)
        <4>1. C \in Seq(Results) /\ E \in Seq(Results) /\ J \in Seq(Results)
          BY <1>a, <2>2, <2>6
        <4> QED
          BY <1>c, <4>1, Zenon
      <3> QED
        BY <2>4, <2>6, <2>7, <3>1, Zenon
    <2> QED
      BY <1>b, <2>1, <2>5, <2>8
  <1>4. CASE Discard
    <2>1. /\ items # <<>> /\ items' = Tail(items) /\ Head(items).id # p
          /\ UNCHANGED <<callbacks, recvQueue, wireIn, sent>>
      BY <1>4 DEF Discard, peerVars
    <2>2. I = For(p, Tail(items))
      BY <1>0, <2>1, ForHeadTail DEF I, TypeOK
    <2> QED
      BY <1>b, <1>e, <2>1, <2>2 DEF C, Q, W
  <1>5. CASE ZRecv
    <2> DEFINE m == Parsed(Head(wireIn))
               V == ParsedAll(For(p, Tail(wireIn)))
               E == <<m>>
    <2>1. /\ wireIn # <<>> /\ wireIn' = Tail(wireIn)
          /\ recvQueue' = Append(recvQueue, m)
          /\ UNCHANGED <<callbacks, items, sent>>
      BY <1>5 DEF ZRecv, Pushed, mainVars, peerVars
    <2>2. Head(wireIn) \in Replies /\ Tail(wireIn) \in Seq(Replies)
      BY <1>0, <2>1, HeadAndTail DEF TypeOK
    <2>3. m \in Results /\ m.id = Head(wireIn).id /\ V \in Seq(Results)
      BY <2>2, ParsedType, ParsedAllType, ForType
    <2>4. W = IF m.id = p THEN <<m>> \o V ELSE V
      BY <1>0, <2>1, <2>3, WireHead DEF W, TypeOK
    <2>5. For(p, recvQueue') = IF m.id = p THEN Append(Q, m) ELSE Q
      BY <1>0, <2>1, <2>3, ForAppend DEF Q, TypeOK
    <2>6. Pipe(p)' = C \o I \o For(p, recvQueue') \o V
      BY <1>e, <2>1 DEF C, I
    <2>7. CASE m.id = p
      <3>1. E \in Seq(Results) /\ Append(Q, m) = Q \o E
        BY <1>a, <2>3, AppendIsConcat
      <3>2. For(p, recvQueue') = Q \o E /\ W = E \o V
        BY <2>4, <2>5, <2>7, <3>1
      <3> HIDE DEF m, V, E
      <3>3. C \o I \in Seq(Results) /\ C \o I \o Q \in Seq(Results)
        BY <1>a, <1>d
      <3>4. C \o I \o (Q \o E) = C \o I \o Q \o E
        <4>1. C \o I \in Seq(Results) /\ Q \in Seq(Results) /\ E \in Seq(Results)
          BY <1>a, <3>1, <3>3
        <4> QED
          BY <1>c, <4>1, Zenon
      <3>5. C \o I \o Q \o E \o V = C \o I \o Q \o (E \o V)
        <4>1. C \o I \o Q \in Seq(Results) /\ E \in Seq(Results) /\ V \in Seq(Results)
          BY <2>3, <3>1, <3>3
        <4> QED
          BY <1>c, <4>1, Zenon
      <3> QED
        BY <1>b, <2>1, <2>6, <3>2, <3>4, <3>5
    <2>8. CASE m.id # p
      BY <1>b, <2>1, <2>4, <2>5, <2>6, <2>8
    <2> QED
      BY <2>7, <2>8
  <1>6. ASSUME NEW i \in Ids, NEW kind \in ReplyKinds, PeerReply(i, kind)
        PROVE  Pipe(p)' = ParsedAll(sent[p])'
    <2> DEFINE r == [id |-> i, kind |-> kind, n |-> Len(sent[i]) + 1]
    <2>1. /\ wireIn' = Append(wireIn, r)
          /\ sent' = [sent EXCEPT ![i] = Append(@, r)]
          /\ UNCHANGED <<callbacks, items, recvQueue>>
      BY <1>6 DEF PeerReply, mainVars
    <2>2. r \in Replies /\ r.id = i
      BY <1>0, LenProperties DEF Replies, TypeOK
    <2> HIDE DEF r
    <2>3. For(p, wireIn') = IF i = p THEN Append(For(p, wireIn), r) ELSE For(p, wireIn)
      BY <1>0, <2>1, <2>2, ForAppend DEF TypeOK
    <2>4. sent'[p] = IF i = p THEN Append(sent[p], r) ELSE sent[p]
      BY <1>0, <2>1 DEF TypeOK, Ids
    <2>5. Pipe(p)' = C \o I \o Q \o ParsedAll(For(p, wireIn'))
      BY <1>e, <2>1 DEF C, I, Q
    <2>6. CASE i = p
      <3>1. ParsedAll(For(p, wireIn')) = Append(W, Parsed(r))
        BY <1>a, <2>2, <2>3, <2>6, ParsedAllAppend DEF W
      <3>2. ParsedAll(sent'[p]) = Append(ParsedAll(sent[p]), Parsed(r))
        BY <1>a, <2>2, <2>4, <2>6, ParsedAllAppend
      <3> DEFINE E == <<Parsed(r)>>
      <3>3. /\ E \in Seq(Results) /\ Append(W, Parsed(r)) = W \o E
            /\ Append(ParsedAll(sent[p]), Parsed(r)) = ParsedAll(sent[p]) \o E
        BY <1>a, <2>2, ParsedType, ParsedAllType, AppendIsConcat
      <3> HIDE DEF E
      <3>4. C \o I \o Q \in Seq(Results)
        BY <1>a, <1>d
      <3>5. C \o I \o Q \o (W \o E) = C \o I \o Q \o W \o E
        <4>1. C \o I \o Q \in Seq(Results) /\ W \in Seq(Results) /\ E \in Seq(Results)
          BY <1>a, <3>3, <3>4
        <4> QED
          BY <1>c, <4>1, Zenon
      <3> QED
        BY <1>b, <2>5, <3>1, <3>2, <3>3, <3>5
    <2>7. CASE i # p
      BY <1>b, <2>3, <2>4, <2>5, <2>7 DEF W
    <2> QED
      BY <2>6, <2>7
  <1>7. CASE CloseEnd
    BY <1>7 DEF CloseEnd, PendingAfterClose
  <1>8. ASSUME NEW q \in Performs, Perform(q) PROVE Pipe(p)' = ParsedAll(sent[p])'
    BY <1>0, <1>8, <1>e DEF Perform, Pipe, peerVars
  <1> QED
    BY <1>1, <1>2, <1>3, <1>4, <1>5, <1>6, <1>7, <1>8, AnswerSteps DEF AnswerInv

LEMMA NoneForTail ==
    ASSUME NEW S, NEW s \in Seq(S), s # <<>>, NEW p, For(p, s) = <<>>
    PROVE  Head(s).id # p /\ For(p, Tail(s)) = <<>>
  <1>1. For(p, s) = IF Head(s).id = p THEN <<Head(s)>> \o For(p, Tail(s))
                                      ELSE For(p, Tail(s))
    BY ForHeadTail
  <1>2. Head(s).id # p
    <2> SUFFICES ASSUME Head(s).id = p PROVE FALSE
      OBVIOUS
    <2>1. Head(s) \in S /\ Tail(s) \in Seq(S) /\ <<Head(s)>> \in Seq(S)
      BY HeadTailProperties
    <2>2. For(p, Tail(s)) \in Seq(S)
      BY <2>1, ForType
    <2>3. <<Head(s)>> \o For(p, Tail(s)) # <<>>
      BY <2>1, <2>2, ConcatEqualIffEmpty
    <2> QED
      BY <1>1, <2>3
  <1> QED
    BY <1>1, <1>2

LEMMA UnmadeStep ==
    ASSUME "throw" \notin AnswerActs, "poll" \notin AnswerActs, "poll" \notin TimeoutActs,
           AnswerInv, [Next]_vars
    PROVE  UnmadeOK'
  <1> SUFFICES ASSUME NEW p \in Performs, p \notin issued'
               PROVE  /\ For(p, items') = <<>> /\ For(p, recvQueue') = <<>>
                      /\ For(p, wireIn') = <<>> /\ sent'[p] = <<>>
    BY DEF UnmadeOK
  <1>0. /\ TypeOK /\ ItemsOK
        /\ items \in Seq(Results) /\ recvQueue \in Seq(Results) /\ wireIn \in Seq(Replies)
    BY DEF AnswerInv, IInv, TypeOK
  <1>a. p \notin issued =>
           /\ For(p, items) = <<>> /\ For(p, recvQueue) = <<>> /\ For(p, wireIn) = <<>>
           /\ sent[p] = <<>>
    BY DEF AnswerInv, UnmadeOK
  <1>1. CASE SameAnswers
    BY <1>a, <1>1 DEF SameAnswers
  <1>2. CASE PollBegin
    BY <1>a, <1>2, ForEmpty DEF PollBegin, peerVars
  <1>3. CASE Deliver \/ Discard
    <2>1. /\ items # <<>> /\ items' = Tail(items)
          /\ UNCHANGED <<recvQueue, wireIn, sent, issued>>
      BY <1>3 DEF Deliver, Discard, peerVars
    <2> QED
      BY <1>0, <1>a, <2>1, NoneForTail
  <1>4. CASE ZRecv
    <2>1. /\ wireIn # <<>> /\ wireIn' = Tail(wireIn)
          /\ recvQueue' = Append(recvQueue, Parsed(Head(wireIn)))
          /\ UNCHANGED <<items, sent, issued>>
      BY <1>4 DEF ZRecv, Pushed, mainVars, peerVars
    <2>2. Head(wireIn).id # p /\ For(p, Tail(wireIn)) = <<>>
      BY <1>0, <1>a, <2>1, NoneForTail
    <2>3. Parsed(Head(wireIn)) \in Results /\ Parsed(Head(wireIn)).id # p
      BY <1>0, <2>1, <2>2, HeadAndTail, ParsedType
    <2>4. For(p, recvQueue') = For(p, recvQueue)
      BY <1>0, <2>1, <2>3, ForAppend
    <2> QED
      BY <1>a, <2>1, <2>2, <2>4
  <1>5. ASSUME NEW i \in Ids, NEW kind \in ReplyKinds, PeerReply(i, kind)
        PROVE  /\ For(p, items') = <<>> /\ For(p, recvQueue') = <<>>
               /\ For(p, wireIn') = <<>> /\ sent'[p] = <<>>
    <2> DEFINE r == [id |-> i, kind |-> kind, n |-> Len(sent[i]) + 1]
    <2>1. /\ wireIn' = Append(wireIn, r) /\ alive
          /\ sent' = [sent EXCEPT ![i] = Append(@, r)]
          /\ UNCHANGED <<items, recvQueue, issued>>
          /\ i = Stray \/ i \in asked
      BY <1>5 DEF PeerReply, mainVars
    <2>2. i # p
      <3>1. CASE i = Stray
        BY <3>1, ConstantsAssumption
      <3>2. CASE i \in asked
        <4>1. i \in Performs /\ Count(i, sendQueue) \in Nat /\ Count(i, wireOut) \in Nat
          BY <1>0, <3>2, CopiesType DEF TypeOK
        <4>2. Copies(i) >= 1
          BY <3>2, <4>1 DEF Copies
        <4>3. Copies(i) = (IF i \in issued THEN 1 ELSE 0)
          BY <2>1, <4>1 DEF AnswerInv, SentOnce
        <4> QED
          BY <2>1, <4>2, <4>3
      <3> QED
        BY <2>1, <3>1, <3>2
    <2>3. r \in Replies /\ r.id = i
      BY <1>0, LenProperties DEF Replies, TypeOK
    <2> HIDE DEF r
    <2>4. For(p, wireIn') = For(p, wireIn) /\ sent'[p] = sent[p]
      BY <1>0, <2>1, <2>2, <2>3, ForAppend DEF TypeOK, Ids
    <2> QED
      BY <1>a, <2>1, <2>4
  <1>6. CASE CloseEnd
    BY <1>a, <1>6, ForEmpty DEF CloseEnd, peerVars
  <1>7. ASSUME NEW q \in Performs, Perform(q)
        PROVE  /\ For(p, items') = <<>> /\ For(p, recvQueue') = <<>>
               /\ For(p, wireIn') = <<>> /\ sent'[p] = <<>>
    BY <1>a, <1>7 DEF Perform, peerVars
  <1> QED
    BY <1>0, <1>1, <1>2, <1>3, <1>4, <1>5, <1>6, <1>7, AnswerSteps DEF AnswerInv

LEMMA AnswerInvStep ==
    ASSUME "throw" \notin AnswerActs, "poll" \notin AnswerActs, "poll" \notin TimeoutActs,
           AnswerInv, [Next]_vars
    PROVE  AnswerInv'
  <1>0. TypeOK /\ IInv
    BY DEF AnswerInv, IInv
  <1>1. IInv'
    BY <1>0, IInvStep
  <1>2. SentOnce'
    BY <1>0, SentOnceStep DEF AnswerInv
  <1>3. ItemsOK'
    BY AnswerSteps DEF AnswerInv
  <1>4. UnmadeOK'
    BY UnmadeStep
  <1>5. NoAnswerLost'
    <2> SUFFICES ASSUME NEW p \in pending' PROVE Pipe(p)' = ParsedAll(sent[p])'
      BY DEF NoAnswerLost, Pipe
    <2>1. CASE p \in pending
      BY <2>1, PipeStep
    <2>2. CASE p \notin pending
      <3>1. Perform(p) /\ p \in Performs
        BY <1>0, <2>2 DEF Next, OwnNext, PollStep, ZNext, Closed, PollBegin, Deliver,
           Remaining, Discard, SweepBegin, SweepEnd, NestedPollEnd, SweepDangling,
           SweepTimeout, CallbackReturn, NestedPoll, CallbackThrow, CloseBegin,
           CloseEnd, PendingAfterClose, Perform, Expire, ZCheck, ZSend, ZDrained,
           ZRecv, ZRecvThrows, ZPollTimeout, PeerTake, PeerReply, vars, mainVars, TypeOK
      <3>2. /\ UNCHANGED <<callbacks, items, recvQueue, wireIn, sent>> /\ p \notin issued
        BY <3>1 DEF Perform, peerVars
      <3>3. /\ callbacks[p] = <<>> /\ For(p, items) = <<>> /\ For(p, recvQueue) = <<>>
            /\ For(p, wireIn) = <<>> /\ sent[p] = <<>>
        BY <3>1, <3>2 DEF AnswerInv, IInv, UnissuedOK, UnmadeOK
      <3>4. <<>> \o <<>> = <<>>
        BY ConcatEmptySeq, EmptySeq
      <3> QED
        BY <3>2, <3>3, <3>4, ParsedAllEmpty DEF Pipe
    <2> QED
      BY <2>1, <2>2
  <1> QED
    BY <1>1, <1>2, <1>3, <1>4, <1>5 DEF AnswerInv

LEMMA AnswerInvAlways ==
    ASSUME "throw" \notin AnswerActs, "poll" \notin AnswerActs, "poll" \notin TimeoutActs
    PROVE  Spec => []AnswerInv
  <1>1. Init => AnswerInv
    <2> SUFFICES ASSUME Init PROVE AnswerInv
      OBVIOUS
    <2>1. SentOnce
      BY CountEmpty DEF Init, SentOnce, Copies
    <2> QED
      BY <2>1, IInvInit, ForEmpty DEF Init, AnswerInv, ItemsOK, Place, UnmadeOK,
         NoAnswerLost, Ids
  <1>2. AnswerInv /\ [Next]_vars => AnswerInv'
    BY AnswerInvStep
  <1> QED
    BY <1>1, <1>2, PTL DEF Spec

(* No answer is lost, repeated or overtaken on its way to a callback that   *)
(* waits for it, if callbacks of answers do not throw, which drops what     *)
(* poll() holds, and no callback polls, which dispatches newer answers      *)
(* before older ones.                                                       *)
THEOREM NoAnswerLostAlways ==
    ASSUME "throw" \notin AnswerActs, "poll" \notin AnswerActs, "poll" \notin TimeoutActs
    PROVE  Spec => []NoAnswerLost
  <1>1. AnswerInv => NoAnswerLost
    BY DEF AnswerInv
  <1> QED
    BY <1>1, AnswerInvAlways, PTL

-----------------------------------------------------------------------------
(* The answer beats the timeout: the sweep runs when nothing is left to     *)
(* dispatch, and what is dispatched is never a timeout.                     *)

NoTimeoutIn(s) == \A i \in DOMAIN s : s[i].kind # "timeout"

BeatsInv == /\ Place \in {"sweep", "timeoutCb"} => items = <<>>
            /\ NoTimeoutIn(items) /\ NoTimeoutIn(recvQueue)
            /\ \A i \in DOMAIN stack : NoTimeoutIn(stack[i].items)

LEMMA NoTimeoutTail ==
    ASSUME NEW s \in Seq(Results), s # <<>>, NoTimeoutIn(s)
    PROVE  Head(s).kind # "timeout" /\ NoTimeoutIn(Tail(s))
  <1>1. /\ DOMAIN s = 1..Len(s) /\ Len(s) \in Nat
        /\ Head(s) = s[1] /\ Tail(s) \in Seq(Results)
        /\ Len(Tail(s)) = Len(s) - 1 /\ Len(s) # 0
        /\ \A i \in 1..Len(Tail(s)) : Tail(s)[i] = s[i + 1]
    BY HeadTailProperties, LenProperties, EmptySeq
  <1>2. 1 \in DOMAIN s /\ DOMAIN Tail(s) = 1..(Len(s) - 1)
    BY <1>1, LenProperties
  <1>3. \A i \in 1..(Len(s) - 1) : i + 1 \in DOMAIN s
    BY <1>1
  <1> QED
    BY <1>1, <1>2, <1>3 DEF NoTimeoutIn

LEMMA NoTimeoutAppend ==
    ASSUME NEW s \in Seq(Results), NEW r \in Results, r.kind # "timeout", NoTimeoutIn(s)
    PROVE  NoTimeoutIn(Append(s, r))
  <1>1. /\ Append(s, r) \in Seq(Results) /\ Len(Append(s, r)) = Len(s) + 1
        /\ \A i \in 1..Len(s) : Append(s, r)[i] = s[i]
        /\ Append(s, r)[Len(s) + 1] = r
    BY AppendProperties
  <1>2. /\ DOMAIN Append(s, r) = 1..(Len(s) + 1) /\ DOMAIN s = 1..Len(s)
        /\ \A i \in 1..(Len(s) + 1) : i \in 1..Len(s) \/ i = Len(s) + 1
    BY <1>1, LenProperties
  <1> QED
    BY <1>1, <1>2 DEF NoTimeoutIn

(* The stack after a push and a pop, entry by entry.                        *)
LEMMA PushEntries ==
    ASSUME NEW S, NEW s \in Seq(S), NEW x \in S
    PROVE  \A i \in DOMAIN (<<x>> \o s) :
              \/ (<<x>> \o s)[i] = x
              \/ \E j \in DOMAIN s : (<<x>> \o s)[i] = s[j]
  <1>1. <<x>> \in Seq(S) /\ Len(<<x>>) = 1 /\ <<x>>[1] = x
    OBVIOUS
  <1>2. /\ <<x>> \o s \in Seq(S) /\ Len(<<x>> \o s) = Len(<<x>>) + Len(s)
        /\ \A i \in 1..(Len(<<x>>) + Len(s)) :
              (<<x>> \o s)[i] = IF i <= Len(<<x>>) THEN <<x>>[i] ELSE s[i - Len(<<x>>)]
    BY <1>1, ConcatProperties
  <1>3. Len(s) \in Nat /\ DOMAIN s = 1..Len(s)
        /\ DOMAIN (<<x>> \o s) = 1..(1 + Len(s))
    BY <1>1, <1>2, LenProperties
  <1>4. ASSUME NEW i \in DOMAIN (<<x>> \o s)
        PROVE  \/ (<<x>> \o s)[i] = x
               \/ \E j \in DOMAIN s : (<<x>> \o s)[i] = s[j]
    <2>1. CASE i = 1
      BY <1>1, <1>2, <1>3, <2>1
    <2>2. CASE i # 1
      <3>1. i - 1 \in DOMAIN s /\ ~(i <= 1) /\ i \in 1..(1 + Len(s))
        BY <1>3, <2>2
      <3> QED
        BY <1>1, <1>2, <3>1
    <2> QED
      BY <2>1, <2>2
  <1> QED
    BY <1>4

LEMMA PopEntries ==
    ASSUME NEW S, NEW s \in Seq(S), s # <<>>
    PROVE  /\ \E j \in DOMAIN s : Head(s) = s[j]
           /\ \A i \in DOMAIN Tail(s) : \E j \in DOMAIN s : Tail(s)[i] = s[j]
  <1>1. /\ DOMAIN s = 1..Len(s) /\ Len(s) \in Nat
        /\ Head(s) = s[1] /\ Tail(s) \in Seq(S)
        /\ Len(Tail(s)) = Len(s) - 1 /\ Len(s) # 0
        /\ \A i \in 1..Len(Tail(s)) : Tail(s)[i] = s[i + 1]
    BY HeadTailProperties, LenProperties, EmptySeq
  <1>2. 1 \in DOMAIN s /\ DOMAIN Tail(s) = 1..(Len(s) - 1)
    BY <1>1, LenProperties
  <1>3. \A i \in 1..(Len(s) - 1) : i + 1 \in DOMAIN s
    BY <1>1
  <1> QED
    BY <1>1, <1>2, <1>3

LEMMA BeatsResume ==
    ASSUME IInv, BeatsInv, stack # <<>>, Resume
    PROVE  /\ mainPc' = "answerCb" /\ NoTimeoutIn(items')
           /\ \A i \in DOMAIN stack' : NoTimeoutIn(stack'[i].items)
  <1>1. mainPc' = "answerCb"
    BY StackPop DEF IInv
  <1>2. stack \in Seq(Frames) /\ stack' = Tail(stack) /\ items' = Head(stack).items
    BY DEF IInv, TypeOK, Resume
  <1>3. /\ \E j \in DOMAIN stack : Head(stack) = stack[j]
        /\ \A i \in DOMAIN Tail(stack) : \E j \in DOMAIN stack : Tail(stack)[i] = stack[j]
    BY <1>2, PopEntries
  <1> QED
    BY <1>1, <1>2, <1>3 DEF BeatsInv

LEMMA BeatsStep ==
    ASSUME "poll" \notin TimeoutActs, IInv, BeatsInv, [Next]_vars
    PROVE  BeatsInv'
  <1> USE DEF BeatsInv
  <1>0. TypeOK /\ items \in Seq(Results) /\ recvQueue \in Seq(Results)
    BY DEF IInv, TypeOK
  <1>1. ASSUME NEW p \in Performs, Perform(p) \/ Expire(p) PROVE BeatsInv'
    BY <1>1 DEF Perform, Expire, Place
  <1>2. CASE PollBegin
    BY <1>2 DEF PollBegin, Place, NoTimeoutIn
  <1>3. CASE Deliver \/ Discard
    <2>1. /\ items # <<>> /\ items' = Tail(items) /\ Place' \notin {"sweep", "timeoutCb"}
          /\ UNCHANGED <<recvQueue, stack>>
      BY <1>3 DEF Deliver, Discard, Place
    <2> QED
      BY <1>0, <2>1, NoTimeoutTail
  <1>4. CASE SweepBegin \/ SweepEnd \/ CallbackReturn
    BY <1>4 DEF SweepBegin, AllDispatched, SweepEnd, CallbackReturn, InCallback, Place
  <1>5. CASE SweepDangling \/ \E p \in Performs : SweepTimeout(p)
    <2>1. /\ items = <<>> /\ UNCHANGED <<items, recvQueue, stack>>
      BY <1>5 DEF SweepDangling, SweepTimeout, Place
    <2> QED
      BY <2>1
  <1>6. CASE NestedPollEnd
    <2>1. stack # <<>> /\ Resume /\ recvQueue' = recvQueue
      BY <1>6 DEF NestedPollEnd
    <2> QED
      BY <2>1, BeatsResume DEF Place
  <1>7. CASE NestedPoll
    <2> DEFINE frame == [pc |-> mainPc, items |-> items, todo |-> todo,
                         dangling |-> dangling, issued |-> issued,
                         under |-> IF mainPc = "timeoutCb" THEN pending ELSE {}]
    <2>1. /\ stack' = <<frame>> \o stack /\ items' = recvQueue /\ recvQueue' = <<>>
          /\ mainPc' = "dispatch"
      BY <1>7 DEF NestedPoll
    <2>2. frame \in Frames /\ stack \in Seq(Frames) /\ frame.items = items
      BY <1>0, <1>7 DEF NestedPoll, InCallback, TypeOK, Frames
    <2> HIDE DEF frame
    <2>3. \A i \in DOMAIN (<<frame>> \o stack) :
             \/ (<<frame>> \o stack)[i] = frame
             \/ \E j \in DOMAIN stack : (<<frame>> \o stack)[i] = stack[j]
      BY <2>2, PushEntries
    <2>4. \A i \in DOMAIN stack' : NoTimeoutIn(stack'[i].items)
      BY <2>1, <2>2, <2>3
    <2> QED
      BY <2>1, <2>4 DEF Place, NoTimeoutIn
  <1>8. CASE CallbackThrow
    <2>1. CASE /\ mainPc' = "app" /\ items' = <<>> /\ stack' = <<>>
      BY <1>8, <2>1 DEF CallbackThrow, Place, NoTimeoutIn
    <2>2. CASE stack # <<>> /\ Resume
      <3>1. recvQueue' = recvQueue
        BY <1>8 DEF CallbackThrow
      <3> QED
        BY <2>2, <3>1, BeatsResume DEF Place
    <2> QED
      BY <1>8, <2>1, <2>2 DEF CallbackThrow
  <1>9. CASE CloseBegin
    <2>1. mainPc # "join" /\ Place' = Place
      BY <1>9 DEF CloseBegin, MayAct, Place
    <2> QED
      BY <1>9, <2>1 DEF CloseBegin
  <1>10. CASE CloseEnd
    <2>1. Place' = Place
      BY <1>0, <1>10 DEF CloseEnd, Place, TypeOK
    <2> QED
      BY <1>10, <2>1 DEF CloseEnd, NoTimeoutIn
  <1>11. CASE ZRecv
    <2>1. /\ wireIn # <<>> /\ recvQueue' = Append(recvQueue, Parsed(Head(wireIn)))
          /\ UNCHANGED <<items, stack, Place>>
      BY <1>11 DEF ZRecv, Pushed, mainVars, Place
    <2>2. Head(wireIn) \in Replies
      BY <1>0, <2>1, HeadAndTail DEF TypeOK
    <2>3. Parsed(Head(wireIn)) \in Results /\ Parsed(Head(wireIn)).kind # "timeout"
      BY <2>2, ParsedType
    <2> QED
      BY <1>0, <2>1, <2>3, NoTimeoutAppend
  <1>12. CASE ZCheck \/ ZSend \/ ZDrained \/ ZPollTimeout \/ PeerTake \/ UNCHANGED vars
              \/ (\E i \in Ids, kind \in ReplyKinds : PeerReply(i, kind))
    <2>1. UNCHANGED <<mainVars, recvQueue>>
      BY <1>12 DEF ZCheck, ZSend, ZDrained, ZPollTimeout, PeerTake, PeerReply, vars
    <2> QED
      BY <2>1 DEF mainVars, Place
  <1>13. CASE ZRecvThrows
    BY <1>13 DEF ZRecvThrows, Place
  <1> QED
    BY <1>1, <1>2, <1>3, <1>4, <1>5, <1>6, <1>7, <1>8, <1>9, <1>10, <1>11, <1>12,
       <1>13 DEF Next, OwnNext, PollStep, ZNext, Closed

LEMMA BeatsTimeout ==
    ASSUME "poll" \notin TimeoutActs, IInv, BeatsInv, [Next]_vars,
           NEW p \in Performs, p \in pending,
           NEW i \in DOMAIN callbacks'[p], callbacks'[p][i] = Timeout(p)
    PROVE  ~HasFinal(For(p, items))
  <1>1. /\ p \in Waiting /\ alive /\ ~dangling
        /\ callbacks[p] \in Seq(Results) /\ ~HasFinal(callbacks[p])
    BY DEF IInv, ClosedOK, DanglingOK, PendingExact, Waiting, TypeOK
  <1>2. callbacks'[p] # callbacks[p]
    BY <1>1, TimeoutIsResult DEF HasFinal
  <1>3. CASE Deliver
    <2> DEFINE item == Head(items)
    <2>1. item \in Results /\ item.kind # "timeout"
      BY <1>3, HeadAndTail, NoTimeoutTail DEF Deliver, IInv, TypeOK, BeatsInv
    <2>2. callbacks'[p] = Append(callbacks[p], item)
      BY <1>2, <1>3 DEF Deliver, IInv, TypeOK
    <2> HIDE DEF item
    <2>3. /\ Append(callbacks[p], item) \in Seq(Results)
          /\ Len(Append(callbacks[p], item)) = Len(callbacks[p]) + 1
          /\ \A j \in 1..Len(callbacks[p]) : Append(callbacks[p], item)[j] = callbacks[p][j]
          /\ Append(callbacks[p], item)[Len(callbacks[p]) + 1] = item
      BY <1>1, <2>1, AppendProperties
    <2>4. Len(callbacks[p]) \in Nat /\ DOMAIN callbacks[p] = 1..Len(callbacks[p])
          /\ DOMAIN callbacks'[p] = 1..(Len(callbacks[p]) + 1)
      BY <1>1, <2>2, <2>3, LenProperties
    <2>5. i \in DOMAIN callbacks[p] \/ i = Len(callbacks[p]) + 1
      BY <2>4
    <2>6. callbacks[p][i].kind \notin FinalKinds \/ i \notin DOMAIN callbacks[p]
      BY <1>1 DEF HasFinal
    <2>7. Timeout(p).kind = "timeout" /\ "timeout" \in FinalKinds
      BY DEF Timeout, FinalKinds
    <2> QED
      BY <2>1, <2>2, <2>3, <2>4, <2>5, <2>6, <2>7
  <1>4. CASE \E q \in Performs : SweepTimeout(q)
    <2>1. items = <<>>
      BY <1>4 DEF SweepTimeout, BeatsInv, Place
    <2> QED
      BY <2>1, ForEmpty, EmptyHistory
  <1>5. UNCHANGED callbacks \/ Deliver \/ (\E q \in Performs : SweepTimeout(q))
    BY <1>1 DEF Next, OwnNext, PollStep, ZNext, Closed, PollBegin, Discard, SweepBegin,
       SweepEnd, NestedPollEnd, SweepDangling, CallbackReturn, NestedPoll,
       CallbackThrow, CloseBegin, CloseEnd, Perform, Expire, ZCheck, ZSend, ZDrained,
       ZRecv, ZRecvThrows, ZPollTimeout, PeerTake, PeerReply, vars, mainVars
  <1> QED
    BY <1>2, <1>3, <1>4, <1>5

(* A poll() that has drained a final answer never times its perform out,    *)
(* polls inside callbacks and exceptions included, if callbacks of timeouts *)
(* do not poll.                                                             *)
THEOREM AnswerBeatsTimeoutAlways ==
    ASSUME "poll" \notin TimeoutActs
    PROVE  Spec => AnswerBeatsTimeout
  <1>1. Init => BeatsInv
    BY DEF Init, BeatsInv, NoTimeoutIn, Place
  <1>2. IInv /\ BeatsInv /\ [Next]_vars => BeatsInv'
    BY BeatsStep
  <1>3. IInv /\ BeatsInv /\ [Next]_vars =>
           [\A p \in Performs :
              (p \in pending /\ Timeout(p) \in {callbacks'[p][i] : i \in DOMAIN callbacks'[p]})
                 => ~HasFinal(For(p, items))]_vars
    BY BeatsTimeout
  <1> QED
    BY <1>1, <1>2, <1>3, InductiveInvariant, PTL DEF Spec, AnswerBeatsTimeout
=============================================================================
