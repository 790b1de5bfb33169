---------------------------- MODULE ClientProofs ----------------------------
(***************************************************************************)
(* Proofs about Client, for every set of performs, every pipe size and     *)
(* every number of replies, and for callbacks that do what they please.    *)
(***************************************************************************)
EXTENDS Client, SequenceTheorems, TLAPS

-----------------------------------------------------------------------------
(* Histories of results.                                                    *)

(* Appending to a history without a final result keeps finals last, and     *)
(* the new history has a final result exactly when the new entry is one.    *)
LEMMA AppendResult ==
    ASSUME NEW s \in Seq(Results), NEW r \in Results, ~HasFinal(s)
    PROVE  /\ Append(s, r) \in Seq(Results)
           /\ HasFinal(Append(s, r)) <=> r.kind \in FinalKinds
           /\ \A i \in DOMAIN Append(s, r) :
                 Append(s, r)[i].kind \in FinalKinds => i = Len(Append(s, r))
  <1>1. /\ Append(s, r) \in Seq(Results)
        /\ Len(Append(s, r)) = Len(s) + 1
        /\ \A i \in 1..Len(s) : Append(s, r)[i] = s[i]
        /\ Append(s, r)[Len(s) + 1] = r
    BY AppendProperties
  <1>2. /\ DOMAIN s = 1..Len(s)
        /\ DOMAIN Append(s, r) = 1..(Len(s) + 1)
        /\ Len(s) \in Nat
    BY <1>1, LenProperties
  <1>3. \A i \in 1..Len(s) : Append(s, r)[i].kind \notin FinalKinds
    BY <1>1, <1>2 DEF HasFinal
  <1>4. \A i \in 1..(Len(s) + 1) : i \in 1..Len(s) \/ i = Len(s) + 1
    BY <1>2
  <1>5. Len(s) + 1 \in 1..(Len(s) + 1)
    BY <1>2
  <1> QED
    BY <1>1, <1>2, <1>3, <1>4, <1>5 DEF HasFinal

(* The first entry and the rest of a queue that is not empty.               *)
LEMMA HeadAndTail ==
    ASSUME NEW S, NEW s \in Seq(S), s # <<>>
    PROVE  Head(s) \in S /\ Tail(s) \in Seq(S)
  BY HeadTailProperties

LEMMA TimeoutIsResult ==
    ASSUME NEW p \in Performs
    PROVE  Timeout(p) \in Results /\ Timeout(p).kind \in FinalKinds
  BY DEF Timeout, Results, Ids, FinalKinds

-----------------------------------------------------------------------------
(* Type correctness.                                                        *)

LEMMA TypeInit == Init => TypeOK
  <1> SUFFICES ASSUME Init PROVE TypeOK
    OBVIOUS
  <1>1. \A S : <<>> \in Seq(S)
    BY EmptySeq
  <1>2. callbacks \in [Performs -> Seq(Results)]
    BY <1>1 DEF Init
  <1>3. sent \in [Ids -> Seq(Replies)]
    BY <1>1 DEF Init
  <1> QED
    BY <1>1, <1>2, <1>3 DEF Init, TypeOK

(* A callback that goes on after an inner poll() finds locals of their type. *)
LEMMA ResumeType ==
    ASSUME TypeOK, stack # <<>>, Resume
    PROVE  /\ stack' \in Seq(Frames)
           /\ mainPc' \in {"answerCb", "timeoutCb"}
           /\ items' \in Seq(Results)
           /\ todo' \subseteq Performs
           /\ dangling' \in BOOLEAN
  <1>1. Head(stack) \in Frames /\ Tail(stack) \in Seq(Frames)
    BY HeadAndTail DEF TypeOK
  <1> QED
    BY <1>1 DEF Resume, Frames

LEMMA TypeStep ==
    ASSUME TypeOK, [Next]_vars
    PROVE  TypeOK'
  <1> USE DEF TypeOK
  <1>0. \A S : <<>> \in Seq(S)
    BY EmptySeq
  <1>1. ASSUME NEW p \in Performs, Perform(p) PROVE TypeOK'
    BY <1>1 DEF Perform, peerVars
  <1>2. CASE PollBegin
    BY <1>2 DEF PollBegin, peerVars
  <1>3. CASE Deliver
    <2> DEFINE item == Head(items)
    <2>1. item \in Results /\ Tail(items) \in Seq(Results)
      BY <1>3, HeadAndTail DEF Deliver
    <2>2. item.id \in Performs
      BY <1>3 DEF Deliver
    <2>3. Append(callbacks[item.id], item) \in Seq(Results)
      BY <2>1, <2>2
    <2>4. callbacks' \in [Performs -> Seq(Results)]
      BY <1>3, <2>2, <2>3 DEF Deliver
    <2>5. pending' \subseteq Performs
      BY <1>3 DEF Deliver, Remaining
    <2> QED
      BY <1>3, <2>1, <2>4, <2>5 DEF Deliver, peerVars
  <1>4. CASE Discard
    BY <1>4, HeadAndTail DEF Discard, peerVars
  <1>5. CASE SweepBegin
    BY <1>5 DEF SweepBegin, Due, peerVars
  <1>6. ASSUME NEW p \in Performs, SweepTimeout(p) PROVE TypeOK'
    <2>1. Append(callbacks[p], Timeout(p)) \in Seq(Results)
      BY TimeoutIsResult
    <2>2. callbacks' \in [Performs -> Seq(Results)]
      BY <1>6, <2>1 DEF SweepTimeout
    <2> QED
      BY <1>6, <2>2 DEF SweepTimeout, peerVars
  <1>7. CASE SweepEnd
    BY <1>7 DEF SweepEnd, peerVars
  <1>8. CASE SweepDangling
    <2>1. callbacks' \in [Performs -> Seq(Results)]
      <3>1. \A p \in Performs : Append(callbacks[p], Timeout(p)) \in Seq(Results)
        BY TimeoutIsResult
      <3>2. CASE UNCHANGED callbacks
        BY <3>2
      <3>3. CASE \E p \in todo :
                   callbacks' = [callbacks EXCEPT ![p] = Append(@, Timeout(p))]
        BY <3>1, <3>3
      <3> QED
        BY <1>8, <3>2, <3>3 DEF SweepDangling
    <2>2. /\ mainPc' \in {"sweep", "crashed", "timeoutCb"}
          /\ todo' \subseteq Performs
          /\ pending' \subseteq Performs
          /\ dangling' \in BOOLEAN
      BY <1>8 DEF SweepDangling
    <2> QED
      BY <1>8, <2>1, <2>2 DEF SweepDangling, peerVars
  <1>9. CASE CallbackReturn
    BY <1>9 DEF CallbackReturn, peerVars
  <1>10. CASE CallbackThrow
    <2>1. /\ stack' \in Seq(Frames) /\ items' \in Seq(Results)
          /\ mainPc' \in {"app", "answerCb", "timeoutCb"}
          /\ todo' \subseteq Performs /\ dangling' \in BOOLEAN
      BY <1>0, <1>10, ResumeType DEF CallbackThrow
    <2> QED
      BY <1>10, <2>1 DEF CallbackThrow, peerVars
  <1>11. CASE CloseBegin
    BY <1>11 DEF CloseBegin, MayAct, peerVars
  <1>12. CASE CloseEnd
    <2>1. wireOut' \in Seq(Performs)
      <3>1. PICK k \in 0..Len(wireOut) : wireOut' = SubSeq(wireOut, 1, k)
        BY <1>12 DEF CloseEnd
      <3> QED
        BY <3>1, SubSeqProperties, LenProperties
    <2> QED
      BY <1>0, <1>12, <2>1 DEF CloseEnd, PendingAfterClose, peerVars
  <1>13. ASSUME NEW p \in Performs, Expire(p) PROVE TypeOK'
    BY <1>13 DEF Expire, peerVars
  <1>14. CASE ZCheck
    BY <1>14 DEF ZCheck, NextRound, mainVars, peerVars
  <1>15. CASE ZSend
    BY <1>15, HeadAndTail DEF ZSend, mainVars, peerVars
  <1>16. CASE ZDrained
    BY <1>16 DEF ZDrained, mainVars, peerVars
  <1>17. CASE ZRecv
    <2>1. Head(wireIn) \in Replies /\ Tail(wireIn) \in Seq(Replies)
      BY <1>17, HeadAndTail DEF ZRecv
    <2>2. Parsed(Head(wireIn)) \in Results
      BY <2>1 DEF Parsed, Replies, Results, ReplyKinds, FinalKinds, FinalAnswers
    <2>3. recvQueue' \in Seq(Results)
      BY <1>17, <2>2 DEF ZRecv, Pushed
    <2> QED
      BY <1>17, <2>1, <2>3 DEF ZRecv, mainVars, peerVars
  <1>18. CASE ZPollTimeout
    BY <1>18 DEF ZPollTimeout, mainVars, peerVars
  <1>19. CASE PeerTake
    BY <1>19, HeadAndTail DEF PeerTake, mainVars
  <1>20. ASSUME NEW i \in Ids, NEW kind \in ReplyKinds, PeerReply(i, kind)
         PROVE  TypeOK'
    <2> DEFINE reply == [id |-> i, kind |-> kind, n |-> Len(sent[i]) + 1]
    <2>1. reply \in Replies
      BY LenProperties DEF Replies
    <2>2. Append(wireIn, reply) \in Seq(Replies)
      BY <2>1
    <2>3. Append(sent[i], reply) \in Seq(Replies)
      BY <2>1
    <2>4. wireIn' \in Seq(Replies) /\ sent' \in [Ids -> Seq(Replies)]
      BY <1>20, <2>2, <2>3 DEF PeerReply
    <2> QED
      BY <1>20, <2>4 DEF PeerReply, mainVars
  <1>21. CASE NestedPoll
    <2> DEFINE frame == [pc |-> mainPc, items |-> items, todo |-> todo,
                         dangling |-> dangling, issued |-> issued,
                         under |-> IF mainPc = "timeoutCb" THEN pending ELSE {}]
    <2>1. frame \in Frames
      BY <1>21 DEF NestedPoll, InCallback, Frames
    <2>2. <<frame>> \o stack \in Seq(Frames)
      BY <2>1, ConcatProperties
    <2>3. stack' \in Seq(Frames)
      BY <1>21, <2>2 DEF NestedPoll
    <2> QED
      BY <1>0, <1>21, <2>3 DEF NestedPoll, peerVars
  <1>22. CASE NestedPollEnd
    BY <1>22, ResumeType DEF NestedPollEnd, peerVars
  <1>23. CASE UNCHANGED vars
    BY <1>23 DEF vars, mainVars, peerVars
  <1>24. CASE ZRecvThrows
    BY <1>24 DEF ZRecvThrows, peerVars
  <1> QED
    BY <1>1, <1>2, <1>3, <1>4, <1>5, <1>6, <1>7, <1>8, <1>9, <1>10, <1>11, <1>12,
       <1>13, <1>14, <1>15, <1>16, <1>17, <1>18, <1>19, <1>20, <1>21, <1>22, <1>23, <1>24
       DEF Next, OwnNext, PollStep, ZNext, Closed

(* Every variable of the client keeps its type: queues of results hold only *)
(* messages that parsed, and pending_ only ids perform() generated.         *)
THEOREM TypeCorrect == Spec => []TypeOK
  BY TypeInit, TypeStep, PTL DEF Spec

-----------------------------------------------------------------------------
(* One final result per callback, and pending_ exact.  Neither is inductive *)
(* alone: the sweep and a sweep left dangling append to callbacks they find *)
(* in todo, so todo may hold only performs without a final result, which in *)
(* turn needs it empty whenever the dispatch loop can finish a perform.     *)

Waiting == {p \in issued : ~HasFinal(callbacks[p])}

(* The place in poll(), or out of it, that the thread is in or returns to.  *)
Place == IF mainPc = "join" THEN ret ELSE mainPc

(* The sweep's list exists only during the sweep, and names waiting callbacks; *)
(* a crash may cut the sweep short.                                            *)
TodoOK == /\ todo \subseteq Waiting
          /\ Place \notin {"sweep", "timeoutCb", "crashed"} => todo = {}

(* The iterator dangles only in a closed client, which has nothing pending. *)
ClosedOK == ~alive => pending = {} /\ mainPc # "join"

DanglingOK == dangling => ~alive

(* The callback of a perform that was not made was not invoked.             *)
UnissuedOK == \A p \in Performs \ issued : callbacks[p] = <<>>

(* Only callbacks of answers poll, so no outer frame has a sweep under way. *)
StackOK == \A i \in DOMAIN stack : /\ stack[i].pc = "answerCb"
                                   /\ stack[i].todo = {} /\ stack[i].under = {}
                                   /\ ~stack[i].dangling

IInv == TypeOK /\ OneFinal /\ PendingExact /\ TodoOK /\ ClosedOK
               /\ DanglingOK /\ UnissuedOK /\ StackOK

LEMMA EmptyHistory == ~HasFinal(<<>>)
  BY DEF HasFinal

(* Appending one result to the history of a waiting callback.               *)
LEMMA AppendToWaiting ==
    ASSUME TypeOK, OneFinal, UnissuedOK,
           NEW p \in Waiting, NEW r \in Results,
           callbacks' = [callbacks EXCEPT ![p] = Append(@, r)],
           issued' = issued
    PROVE  /\ OneFinal'
           /\ UnissuedOK'
           /\ Waiting' = IF r.kind \in FinalKinds THEN Waiting \ {p} ELSE Waiting
  <1>1. p \in Performs /\ p \in issued /\ callbacks[p] \in Seq(Results)
    BY DEF Waiting, TypeOK
  <1>2. ~HasFinal(callbacks[p])
    BY DEF Waiting
  <1>3. /\ callbacks'[p] = Append(callbacks[p], r)
        /\ \A q \in Performs : q # p => callbacks'[q] = callbacks[q]
    BY <1>1 DEF TypeOK
  <1>4. /\ HasFinal(callbacks'[p]) <=> r.kind \in FinalKinds
        /\ \A i \in DOMAIN callbacks'[p] :
              callbacks'[p][i].kind \in FinalKinds => i = Len(callbacks'[p])
    BY <1>1, <1>2, <1>3, AppendResult
  <1>5. OneFinal'
    BY <1>3, <1>4 DEF OneFinal
  <1>6. UnissuedOK'
    BY <1>1, <1>3 DEF UnissuedOK
  <1>7. Waiting' = IF r.kind \in FinalKinds THEN Waiting \ {p} ELSE Waiting
    <2>1. \A q \in issued : q \in Performs
      BY DEF TypeOK
    <2>2. \A q \in issued : q # p => (HasFinal(callbacks'[q]) <=> HasFinal(callbacks[q]))
      BY <1>3, <2>1 DEF HasFinal
    <2> QED
      BY <1>1, <1>2, <1>4, <2>2 DEF Waiting
  <1> QED
    BY <1>5, <1>6, <1>7

LEMMA IInvInit == Init => IInv
  <1> SUFFICES ASSUME Init PROVE IInv
    OBVIOUS
  <1>1. TypeOK
    BY TypeInit
  <1>2. \A p \in Performs : callbacks[p] = <<>>
    BY DEF Init
  <1>3. OneFinal
    BY <1>2, EmptyHistory DEF OneFinal, HasFinal
  <1> QED
    BY <1>1, <1>2, <1>3 DEF Init, IInv, PendingExact, TodoOK, ClosedOK,
       DanglingOK, UnissuedOK, StackOK, Waiting, Place

(* Pushing the frame of an answer's callback on the stack ...               *)
LEMMA StackPush ==
    ASSUME TypeOK, StackOK, NestedPoll, mainPc = "answerCb", todo = {}, ~dangling
    PROVE  StackOK'
  <1> DEFINE frame == [pc |-> mainPc, items |-> items, todo |-> todo,
                       dangling |-> dangling, issued |-> issued,
                       under |-> IF mainPc = "timeoutCb" THEN pending ELSE {}]
  <1>1. frame \in Frames /\ stack \in Seq(Frames) /\ <<frame>> \in Seq(Frames)
    BY DEF TypeOK, Frames
  <1>2. stack' = <<frame>> \o stack
    BY DEF NestedPoll
  <1>3. /\ Len(<<frame>> \o stack) = Len(stack) + 1
        /\ \A i \in 1..(Len(stack) + 1) :
              (<<frame>> \o stack)[i] = IF i <= 1 THEN frame ELSE stack[i - 1]
    <2>1. Len(<<frame>>) = 1 /\ <<frame>>[1] = frame /\ Len(stack) \in Nat
      BY <1>1, LenProperties
    <2>2. /\ Len(<<frame>> \o stack) = Len(<<frame>>) + Len(stack)
          /\ \A i \in 1..(Len(<<frame>>) + Len(stack)) :
                (<<frame>> \o stack)[i] =
                   IF i <= Len(<<frame>>) THEN <<frame>>[i]
                                          ELSE stack[i - Len(<<frame>>)]
      <3> HIDE DEF frame
      <3> QED
        BY <1>1, ConcatProperties
    <2> HIDE DEF frame
    <2>3. ASSUME NEW i \in 1..(Len(stack) + 1)
          PROVE  (<<frame>> \o stack)[i] = IF i <= 1 THEN frame ELSE stack[i - 1]
      <3>1. CASE i = 1
        BY <2>1, <2>2, <3>1
      <3>2. CASE i > 1
        BY <2>1, <2>2, <3>2
      <3> QED
        BY <3>1, <3>2
    <2> QED
      BY <2>1, <2>2, <2>3
  <1>4. DOMAIN stack = 1..Len(stack) /\ Len(stack) \in Nat
        /\ DOMAIN stack' = 1..(Len(stack) + 1)
    BY <1>1, <1>2, <1>3, ConcatProperties, LenProperties
  <1>5. ASSUME NEW i \in DOMAIN stack'
        PROVE  /\ stack'[i].pc = "answerCb" /\ stack'[i].todo = {}
               /\ stack'[i].under = {} /\ ~stack'[i].dangling
    <2>1. CASE i = 1
      BY <1>2, <1>3, <1>4, <2>1
    <2>2. CASE i # 1
      <3>1. stack'[i] = stack[i - 1] /\ i - 1 \in DOMAIN stack
        BY <1>2, <1>3, <1>4, <1>5, <2>2
      <3> QED
        BY <3>1 DEF StackOK
    <2> QED
      BY <2>1, <2>2
  <1> QED
    BY <1>5 DEF StackOK

(* ... and going on with it: there is no sweep to go on with.               *)
LEMMA StackPop ==
    ASSUME TypeOK, StackOK, stack # <<>>, Resume
    PROVE  /\ StackOK' /\ mainPc' = "answerCb"
           /\ todo' = {} /\ dangling' = FALSE
  <1>1. /\ DOMAIN stack = 1..Len(stack) /\ Len(stack) \in Nat
        /\ stack' = Tail(stack)
        /\ Head(stack) = stack[1] /\ Tail(stack) \in Seq(Frames)
        /\ Len(Tail(stack)) = Len(stack) - 1 /\ Len(stack) # 0
        /\ \A i \in 1..Len(Tail(stack)) : Tail(stack)[i] = stack[i + 1]
    BY HeadTailProperties, LenProperties, EmptySeq DEF TypeOK, Resume
  <1>2. 1 \in DOMAIN stack
    BY <1>1
  <1>3. StackOK'
    <2>1. DOMAIN stack' = 1..(Len(stack) - 1)
      BY <1>1, LenProperties
    <2>2. \A i \in DOMAIN stack' : i + 1 \in DOMAIN stack /\ stack'[i] = stack[i + 1]
      BY <1>1, <2>1
    <2> QED
      BY <2>2 DEF StackOK
  <1>4. LET outer == Head(stack) IN
          /\ outer.pc = "answerCb" /\ outer.todo = {} /\ outer.under = {}
          /\ ~outer.dangling
    BY <1>1, <1>2 DEF StackOK
  <1> QED
    BY <1>3, <1>4 DEF Resume

(* A step that leaves the histories, pending_ and the sweep as they are.    *)
LEMMA SameCallbacks ==
    ASSUME IInv, TypeOK',
           UNCHANGED <<callbacks, issued, pending, alive, todo, dangling, stack,
                       Place>>,
           alive \/ mainPc' # "join"
    PROVE  IInv'
  BY DEF IInv, OneFinal, PendingExact, TodoOK, ClosedOK, DanglingOK, UnissuedOK,
         StackOK, Waiting, HasFinal

LEMMA IInvStep ==
    ASSUME "poll" \notin TimeoutActs, IInv, [Next]_vars
    PROVE  IInv'
  <1>0. TypeOK /\ TypeOK'
    BY TypeStep DEF IInv
  <1>1. ASSUME NEW p \in Performs, Perform(p) PROVE IInv'
    <2>1. /\ callbacks' = callbacks /\ alive' = alive /\ alive
          /\ issued' = issued \cup {p} /\ pending' = pending \cup {p}
          /\ p \notin issued /\ todo' \subseteq todo /\ dangling' = dangling
          /\ Place' = Place /\ mainPc' = mainPc /\ stack' = stack
      BY <1>1 DEF Perform, Place
    <2>2. ~HasFinal(callbacks[p])
      BY <2>1, EmptyHistory DEF IInv, UnissuedOK, StackOK
    <2>3. Waiting' = Waiting \cup {p}
      BY <2>1, <2>2 DEF Waiting, HasFinal
    <2> QED
      BY <1>0, <2>1, <2>3 DEF IInv, OneFinal, PendingExact, TodoOK, ClosedOK,
         DanglingOK, UnissuedOK, StackOK, Waiting, HasFinal
  <1>2. CASE PollBegin
    <2>1. Place' # "timeoutCb" /\ Place' # "sweep" /\ todo = {}
      BY <1>2 DEF PollBegin, Place, IInv, TodoOK
    <2> QED
      BY <1>0, <1>2, <2>1 DEF PollBegin, IInv, OneFinal, PendingExact, TodoOK,
         ClosedOK, DanglingOK, UnissuedOK, StackOK, Waiting, HasFinal
  <1>3. CASE Deliver
    <2> DEFINE item == Head(items)
    <2>1. item \in Results /\ item.id \in pending /\ alive /\ pending = Waiting
      BY <1>0, <1>3, HeadAndTail
         DEF Deliver, IInv, ClosedOK, PendingExact, TypeOK, Waiting
    <2>2. /\ callbacks' = [callbacks EXCEPT ![item.id] = Append(@, item)]
          /\ issued' = issued /\ alive' = alive /\ dangling' = dangling
          /\ pending' = Remaining(item) /\ todo' = todo /\ stack' = stack
      BY <1>3 DEF Deliver
    <2>3. /\ OneFinal' /\ UnissuedOK'
          /\ Waiting' = IF item.kind \in FinalKinds THEN Waiting \ {item.id}
                                                    ELSE Waiting
      BY <1>0, <2>1, <2>2, AppendToWaiting DEF IInv
    <2>4. todo = {} /\ Place' = "answerCb" /\ mainPc' = "answerCb"
      BY <1>3 DEF Deliver, IInv, TodoOK, Place
    <2>5. PendingExact'
      BY <2>1, <2>2, <2>3 DEF PendingExact, Remaining, Waiting
    <2> QED
      BY <1>0, <2>1, <2>2, <2>3, <2>4, <2>5
         DEF IInv, TodoOK, ClosedOK, DanglingOK, StackOK
  <1>4. CASE Discard
    BY <1>0, <1>4, SameCallbacks DEF Discard, Place
  <1>5. CASE SweepBegin
    <2>1. /\ callbacks' = callbacks /\ alive' = alive /\ issued' = issued
          /\ pending' = pending /\ dangling' = dangling
          /\ todo' \subseteq pending /\ mainPc' = "sweep" /\ Place' = "sweep"
          /\ stack' = stack
      BY <1>5 DEF SweepBegin, Due, Place
    <2>2. pending \subseteq Waiting
      BY DEF IInv, PendingExact, ClosedOK, Waiting
    <2>3. Waiting' = Waiting
      BY <2>1 DEF Waiting, HasFinal
    <2> QED
      BY <1>0, <2>1, <2>2, <2>3 DEF IInv, OneFinal, PendingExact, TodoOK,
         ClosedOK, DanglingOK, UnissuedOK, StackOK, Waiting, HasFinal
  <1>6. ASSUME NEW p \in Performs, SweepTimeout(p) PROVE IInv'
    <2>1. /\ p \in todo /\ p \in Waiting
          /\ callbacks' = [callbacks EXCEPT ![p] = Append(@, Timeout(p))]
          /\ issued' = issued /\ alive' = alive /\ dangling' = dangling
          /\ pending' = pending \ {p} /\ todo' = todo \ {p}
          /\ Place' = "timeoutCb" /\ mainPc' = "timeoutCb" /\ stack' = stack
      BY <1>6 DEF SweepTimeout, IInv, TodoOK, Place
    <2>2. OneFinal' /\ UnissuedOK' /\ Waiting' = Waiting \ {p}
      BY <1>0, <2>1, AppendToWaiting, TimeoutIsResult DEF IInv
    <2>3. PendingExact'
      BY <2>1, <2>2 DEF IInv, PendingExact, Waiting
    <2> QED
      BY <1>0, <2>1, <2>2, <2>3 DEF IInv, TodoOK, ClosedOK, DanglingOK, StackOK
  <1>7. CASE SweepEnd
    BY <1>0, <1>7 DEF SweepEnd, IInv, OneFinal, PendingExact, TodoOK,
       ClosedOK, DanglingOK, UnissuedOK, StackOK, Waiting, HasFinal, Place
  <1>8. CASE SweepDangling
    <2>1. /\ ~alive /\ alive' = alive /\ pending' = pending /\ issued' = issued
          /\ stack' = stack
      BY <1>8 DEF SweepDangling, IInv, DanglingOK, ClosedOK
    <2>2. CASE /\ mainPc' \in {"sweep", "crashed"} /\ todo' = {}
               /\ dangling' = FALSE /\ UNCHANGED callbacks
      <3>1. Waiting' = Waiting
        BY <2>1, <2>2 DEF Waiting, HasFinal
      <3> QED
        BY <1>0, <2>1, <2>2, <3>1 DEF IInv, OneFinal, PendingExact, TodoOK,
           ClosedOK, DanglingOK, UnissuedOK, StackOK, HasFinal
    <2>3. ASSUME NEW p \in todo,
                 callbacks' = [callbacks EXCEPT ![p] = Append(@, Timeout(p))],
                 todo' = todo \ {p}, mainPc' = "timeoutCb", UNCHANGED dangling
          PROVE  IInv'
      <3>1. p \in Waiting /\ p \in Performs
        BY <1>0 DEF IInv, TodoOK, TypeOK
      <3>2. OneFinal' /\ UnissuedOK' /\ Waiting' = Waiting \ {p}
        BY <1>0, <2>1, <2>3, <3>1, AppendToWaiting, TimeoutIsResult DEF IInv
      <3> QED
        BY <1>0, <2>1, <2>3, <3>1, <3>2
           DEF IInv, TodoOK, ClosedOK, DanglingOK, PendingExact, StackOK, Place
    <2> QED
      BY <1>8, <2>2, <2>3 DEF SweepDangling
  <1>9. CASE CallbackReturn
    BY <1>0, <1>9 DEF CallbackReturn, InCallback, IInv, OneFinal, PendingExact,
       TodoOK, ClosedOK, DanglingOK, UnissuedOK, StackOK, Waiting, HasFinal, Place
  <1>10. CASE CallbackThrow
    <2>1. /\ callbacks' = callbacks /\ issued' = issued /\ pending' = pending
          /\ alive' = alive
      BY <1>10 DEF CallbackThrow
    <2>2. /\ todo' = {} /\ dangling' = FALSE /\ StackOK'
          /\ mainPc' \in {"app", "answerCb"}
      <3>1. CASE mainPc' = "app" /\ todo' = {} /\ dangling' = FALSE /\ stack' = <<>>
        BY <3>1 DEF StackOK
      <3>2. CASE stack # <<>> /\ Resume
        BY <1>0, <3>2, StackPop DEF IInv
      <3> QED
        BY <1>10, <3>1, <3>2 DEF CallbackThrow
    <2> QED
      BY <1>0, <2>1, <2>2 DEF IInv, OneFinal, PendingExact,
         TodoOK, ClosedOK, DanglingOK, UnissuedOK, Waiting, HasFinal
  <1>11. CASE CloseBegin
    <2>1. mainPc # "join" /\ Place' = Place /\ alive
      BY <1>11 DEF CloseBegin, MayAct, Place
    <2> QED
      BY <1>0, <1>11, <2>1, SameCallbacks DEF CloseBegin
  <1>12. CASE CloseEnd
    <2>1. /\ alive' = FALSE /\ pending' = {} /\ todo' = todo /\ issued' = issued
          /\ callbacks' = callbacks /\ Place' = Place /\ mainPc' # "join"
          /\ stack' = stack
      BY <1>0, <1>12 DEF CloseEnd, PendingAfterClose, Place, TypeOK
    <2> QED
      BY <1>0, <2>1 DEF IInv, OneFinal, PendingExact, TodoOK, ClosedOK,
         DanglingOK, UnissuedOK, StackOK, Waiting, HasFinal
  <1>13. ASSUME NEW p \in Performs, Expire(p) PROVE IInv'
    BY <1>0, <1>13, SameCallbacks DEF Expire, Place, IInv, ClosedOK
  <1>14. CASE ZNext \/ PeerTake
              \/ (\E i \in Ids, kind \in ReplyKinds : PeerReply(i, kind))
    <2>1. CASE ZRecvThrows
      BY <1>0, <2>1 DEF ZRecvThrows, IInv, OneFinal, PendingExact, TodoOK,
         ClosedOK, DanglingOK, UnissuedOK, StackOK, Waiting, HasFinal, Place
    <2>2. CASE ~ZRecvThrows
      <3>1. UNCHANGED mainVars
        BY <1>14, <2>2 DEF ZNext, ZCheck, ZSend, ZDrained, ZRecv, ZPollTimeout,
           PeerTake, PeerReply
      <3> QED
        BY <1>0, <3>1, SameCallbacks DEF mainVars, Place, IInv, ClosedOK
    <2> QED
      BY <2>1, <2>2
  <1>15. CASE NestedPoll
    <2>1. mainPc = "answerCb"
      BY <1>15 DEF NestedPoll, InCallback, MayAct
    <2>2. todo = {} /\ ~dangling
      BY <1>15, <2>1 DEF NestedPoll, IInv, TodoOK, DanglingOK, Place
    <2>3. StackOK'
      BY <1>0, <1>15, <2>1, <2>2, StackPush DEF IInv
    <2> QED
      BY <1>0, <1>15, <2>2, <2>3 DEF NestedPoll, IInv, OneFinal, PendingExact,
         TodoOK, ClosedOK, DanglingOK, UnissuedOK, Waiting, HasFinal, Place
  <1>16. CASE NestedPollEnd
    <2>1. /\ StackOK' /\ mainPc' = "answerCb" /\ todo' = {} /\ dangling' = FALSE
      BY <1>0, <1>16, StackPop DEF NestedPollEnd, IInv
    <2> QED
      BY <1>0, <1>16, <2>1 DEF NestedPollEnd, IInv, OneFinal, PendingExact,
         TodoOK, ClosedOK, DanglingOK, UnissuedOK, Waiting, HasFinal, Place
  <1>17. CASE UNCHANGED vars
    BY <1>0, <1>17, SameCallbacks DEF vars, mainVars, Place, IInv, ClosedOK
  <1> QED
    BY <1>1, <1>2, <1>3, <1>4, <1>5, <1>6, <1>7, <1>8, <1>9, <1>10, <1>11, <1>12,
       <1>13, <1>14, <1>15, <1>16, <1>17 DEF Next, OwnNext, PollStep, Closed

(* The condition is needed: a poll() inside the sweep may erase the entry   *)
(* the sweep is at.                                                         *)
THEOREM InductiveInvariant ==
    ASSUME "poll" \notin TimeoutActs
    PROVE  Spec => []IInv
  BY IInvInit, IInvStep, PTL DEF Spec

(* No callback is given a second final result or a late chunk, whatever the *)
(* callbacks do, as long as those of timeouts do not poll: neither polls    *)
(* inside callbacks inside polls, nor a sweep that close() left with a      *)
(* dangling iterator, can invoke one callback twice.                        *)
THEOREM OneFinalAlways ==
    ASSUME "poll" \notin TimeoutActs
    PROVE  Spec => []OneFinal
  BY InductiveInvariant, PTL DEF IInv

(* pending_ holds the performs that wait for a final result, no more and no *)
(* fewer, as long as the client is open.                                    *)
THEOREM PendingExactAlways ==
    ASSUME "poll" \notin TimeoutActs
    PROVE  Spec => []PendingExact
  BY InductiveInvariant, PTL DEF IInv

-----------------------------------------------------------------------------
(* The ZMQ thread leaves nothing behind: it stops draining only after it    *)
(* saw running false, and from then on perform() pushes nothing.            *)

FlushInv ==
    /\ TypeOK
    /\ zpc \in {"flush", "exited"} => ~running
    /\ FlushedOnExit

LEMMA FlushInit == Init => FlushInv
  BY TypeInit DEF Init, FlushInv, FlushedOnExit

LEMMA FlushStep ==
    ASSUME FlushInv, [Next]_vars
    PROVE  FlushInv'
  <1>0. TypeOK /\ TypeOK'
    BY TypeStep DEF FlushInv
  <1>1. ASSUME NEW p \in Performs, Perform(p) PROVE FlushInv'
    BY <1>0, <1>1 DEF Perform, FlushInv, FlushedOnExit
  <1>2. CASE PollStep
    <2>1. /\ zpc' \in {zpc, "terminated"}
          /\ UNCHANGED <<running, sendQueue>>
      BY <1>2 DEF PollStep, PollBegin, Deliver, Discard, SweepBegin, SweepEnd,
         NestedPollEnd, SweepDangling, SweepTimeout, CallbackReturn
    <2> QED
      BY <1>0, <2>1 DEF FlushInv, FlushedOnExit
  <1>3. CASE NestedPoll \/ CallbackThrow
    BY <1>0, <1>3 DEF NestedPoll, CallbackThrow, FlushInv, FlushedOnExit
  <1>4. CASE CloseBegin
    BY <1>0, <1>4 DEF CloseBegin, FlushInv, FlushedOnExit
  <1>5. CASE CloseEnd
    BY <1>0, <1>5 DEF CloseEnd, FlushInv, FlushedOnExit
  <1>6. ASSUME NEW p \in Performs, Expire(p) PROVE FlushInv'
    BY <1>0, <1>6 DEF Expire, FlushInv, FlushedOnExit
  <1>7. CASE ZCheck
    BY <1>0, <1>7 DEF ZCheck, NextRound, FlushInv, FlushedOnExit
  <1>8. CASE ZSend
    BY <1>0, <1>8 DEF ZSend, FlushInv, FlushedOnExit
  <1>9. CASE ZDrained
    BY <1>0, <1>9 DEF ZDrained, FlushInv, FlushedOnExit
  <1>10. CASE ZRecv \/ ZRecvThrows \/ ZPollTimeout
    BY <1>0, <1>10 DEF ZRecv, ZRecvThrows, ZPollTimeout, FlushInv, FlushedOnExit
  <1>11. CASE PeerTake \/ (\E i \in Ids, kind \in ReplyKinds : PeerReply(i, kind))
    <2>1. UNCHANGED <<zpc, running, sendQueue>>
      BY <1>11 DEF PeerTake, PeerReply
    <2> QED
      BY <1>0, <2>1 DEF FlushInv, FlushedOnExit
  <1>12. CASE UNCHANGED vars
    BY <1>0, <1>12 DEF vars, FlushInv, FlushedOnExit
  <1> QED
    BY <1>1, <1>2, <1>3, <1>4, <1>5, <1>6, <1>7, <1>8, <1>9, <1>10, <1>11, <1>12
       DEF Next, OwnNext, ZNext, Closed

(* When the ZMQ thread has exited, every perform was handed to the socket.  *)
THEOREM FlushedOnExitAlways == Spec => []FlushedOnExit
  <1>1. Spec => []FlushInv
    BY FlushInit, FlushStep, PTL DEF Spec
  <1> QED
    BY <1>1, PTL DEF FlushInv

-----------------------------------------------------------------------------
(* Closing.  When no timeout callback polls or closes the client the        *)
(* sweep's iterator never dangles, and a closed client has nothing left to  *)
(* sweep.                                                                   *)

QuietInv ==
    /\ ~dangling
    /\ mainPc = "join" => ret # "timeoutCb"
    /\ ~alive => todo = {}

LEMMA QuietInit == Init => QuietInv
  BY DEF Init, QuietInv

LEMMA QuietStep ==
    ASSUME "close" \notin TimeoutActs, "poll" \notin TimeoutActs,
           IInv, QuietInv, [Next]_vars
    PROVE  QuietInv'
  <1> USE DEF QuietInv
  <1>1. ASSUME NEW p \in Performs, Perform(p) PROVE QuietInv'
    BY <1>1 DEF Perform
  <1>2. CASE PollStep
    <2>1. CASE NestedPollEnd
      BY <2>1, StackPop DEF NestedPollEnd, IInv
    <2> QED
      BY <1>2, <2>1 DEF PollStep, PollBegin, Deliver, Discard, SweepBegin, Due,
         SweepEnd, SweepDangling, SweepTimeout, CallbackReturn, IInv, ClosedOK
  <1>3. CASE NestedPoll \/ CallbackThrow
    <2>1. CASE stack # <<>> /\ Resume /\ CallbackThrow
      BY <2>1, StackPop DEF CallbackThrow, IInv
    <2> QED
      BY <1>3, <2>1 DEF NestedPoll, CallbackThrow
  <1>4. CASE CloseBegin
    BY <1>4 DEF CloseBegin, MayAct
  <1>5. CASE CloseEnd
    <2>1. todo = {} /\ todo' = {}
      BY <1>5 DEF CloseEnd, IInv, TypeOK, TodoOK, Place
    <2> QED
      BY <1>5, <2>1 DEF CloseEnd, IInv, TypeOK
  <1>6. ASSUME NEW p \in Performs, Expire(p) PROVE QuietInv'
    BY <1>6 DEF Expire
  <1>7. CASE ZNext \/ PeerTake
             \/ (\E i \in Ids, kind \in ReplyKinds : PeerReply(i, kind))
    <2>1. UNCHANGED <<alive, dangling, ret, todo>> /\ mainPc' \in {mainPc, "crashed"}
      BY <1>7 DEF ZNext, ZCheck, ZSend, ZDrained, ZRecv, ZRecvThrows, ZPollTimeout,
         PeerTake, PeerReply, mainVars
    <2> QED
      BY <2>1
  <1>8. CASE UNCHANGED vars
    BY <1>8 DEF vars, mainVars
  <1> QED
    BY <1>1, <1>2, <1>3, <1>4, <1>5, <1>6, <1>7, <1>8 DEF Next, OwnNext, Closed

LEMMA QuietAlways ==
    ASSUME "close" \notin TimeoutActs, "poll" \notin TimeoutActs
    PROVE  Spec => [](IInv /\ QuietInv)
  <1>1. Init => IInv /\ QuietInv
    BY IInvInit, QuietInit
  <1>2. IInv /\ QuietInv /\ [Next]_vars => (IInv /\ QuietInv)'
    BY IInvStep, QuietStep
  <1> QED
    BY <1>1, <1>2, PTL DEF Spec

LEMMA QuietNoCallback ==
    ASSUME IInv, QuietInv, [Next]_vars, ~alive
    PROVE  UNCHANGED callbacks
  <1>1. CASE PollStep
    BY <1>1 DEF PollStep, PollBegin, Deliver, Discard, SweepBegin, SweepEnd,
       NestedPollEnd, SweepDangling, SweepTimeout, CallbackReturn, IInv,
       ClosedOK, QuietInv
  <1>2. CASE ZNext \/ PeerTake
             \/ (\E i \in Ids, kind \in ReplyKinds : PeerReply(i, kind))
    BY <1>2 DEF ZNext, ZCheck, ZSend, ZDrained, ZRecv, ZRecvThrows, ZPollTimeout,
       PeerTake, PeerReply, mainVars
  <1>3. CASE UNCHANGED vars
    BY <1>3 DEF vars, mainVars
  <1> QED
    BY <1>1, <1>2, <1>3 DEF Next, OwnNext, Closed, NestedPoll, CallbackThrow, CloseBegin,
       CloseEnd, Perform, Expire

(* Once close() has returned no callback runs, provided no timeout callback *)
(* calls close() or poll(): the sweep would go on with a dead iterator.     *)
THEOREM NoCallbackAfterCloseAlways ==
    ASSUME "close" \notin TimeoutActs, "poll" \notin TimeoutActs
    PROVE  Spec => NoCallbackAfterClose
  <1>1. IInv /\ QuietInv /\ [Next]_vars => [~alive => UNCHANGED callbacks]_vars
    BY QuietNoCallback
  <1> QED
    BY <1>1, QuietAlways, PTL DEF Spec, NoCallbackAfterClose

-----------------------------------------------------------------------------
(* The client implements EffectCall.                                        *)

(* The kinds of a history after one more result.                            *)
LEMMA KindsOfAppend ==
    ASSUME NEW s \in Seq(Results), NEW r \in Results
    PROVE  KindsOf(Append(s, r)) = Append(KindsOf(s), r.kind)
  <1>1. /\ Len(Append(s, r)) = Len(s) + 1
        /\ \A i \in 1..Len(s) : Append(s, r)[i] = s[i]
        /\ Append(s, r)[Len(s) + 1] = r
        /\ Append(s, r) \in Seq(Results)
    BY AppendProperties
  <1>2. Len(s) \in Nat /\ DOMAIN s = 1..Len(s)
        /\ DOMAIN Append(s, r) = 1..(Len(s) + 1)
    BY <1>1, LenProperties
  <1>3. \A t \in Seq(Results) : \A i \in DOMAIN t : t[i].kind \in Abstract!Kinds
    <2>1. \A r1 \in Results : r1.kind \in Abstract!Kinds
      BY DEF Results, FinalKinds, FinalAnswers, Abstract!Kinds, Abstract!FinalKinds
    <2>2. \A t \in Seq(Results) : \A i \in DOMAIN t : t[i] \in Results
      BY ElementOfSeq, LenProperties
    <2> QED
      BY <2>1, <2>2
  <1>4. KindsOf(s) \in Seq(Abstract!Kinds) /\ Len(KindsOf(s)) = Len(s)
        /\ KindsOf(Append(s, r)) \in Seq(Abstract!Kinds)
        /\ Len(KindsOf(Append(s, r))) = Len(s) + 1
    <2>1. /\ KindsOf(s) = [i \in 1..Len(s) |-> s[i].kind]
          /\ KindsOf(Append(s, r)) = [i \in 1..(Len(s) + 1) |-> Append(s, r)[i].kind]
      BY <1>2 DEF KindsOf
    <2>2. /\ KindsOf(s) \in [1..Len(s) -> Abstract!Kinds]
          /\ KindsOf(Append(s, r)) \in [1..(Len(s) + 1) -> Abstract!Kinds]
      BY <1>1, <1>2, <1>3, <2>1
    <2> QED
      BY <1>2, <2>2, IsASeq, LenProperties
  <1>5. r.kind \in Abstract!Kinds
    BY DEF Results, FinalKinds, FinalAnswers, Abstract!Kinds, Abstract!FinalKinds
  <1>6. /\ Append(KindsOf(s), r.kind) \in Seq(Abstract!Kinds)
        /\ Len(Append(KindsOf(s), r.kind)) = Len(s) + 1
        /\ \A i \in 1..Len(s) : Append(KindsOf(s), r.kind)[i] = KindsOf(s)[i]
        /\ Append(KindsOf(s), r.kind)[Len(s) + 1] = r.kind
    BY <1>4, <1>5, AppendProperties
  <1>7. \A i \in 1..(Len(s) + 1) :
            KindsOf(Append(s, r))[i] = Append(KindsOf(s), r.kind)[i]
    <2> SUFFICES ASSUME NEW i \in 1..(Len(s) + 1)
                 PROVE  KindsOf(Append(s, r))[i] = Append(KindsOf(s), r.kind)[i]
      OBVIOUS
    <2>1. KindsOf(Append(s, r))[i] = Append(s, r)[i].kind
      BY <1>2 DEF KindsOf
    <2>2. CASE i \in 1..Len(s)
      BY <1>1, <1>2, <1>6, <2>1, <2>2 DEF KindsOf
    <2>3. CASE i = Len(s) + 1
      BY <1>1, <1>6, <2>1, <2>3
    <2> QED
      <3>1. i \in 1..Len(s) \/ i = Len(s) + 1
        BY <1>2
      <3> QED
        BY <2>2, <2>3, <3>1
  <1> QED
    BY <1>4, <1>6, <1>7, SeqEqual

LEMMA AbstractInit == Init => Abstract!Init
  <1> SUFFICES ASSUME Init PROVE Abstract!Init
    OBVIOUS
  <1>1. statusBar = [p \in Performs |-> "idle"]
    BY DEF Init, statusBar
  <1>2. KindsOf(<<>>) = <<>>
    BY DEF KindsOf
  <1>3. resultsBar = [p \in Performs |-> <<>>]
    BY <1>2 DEF Init, resultsBar
  <1> QED
    BY <1>1, <1>3 DEF Init, Abstract!Init

(* A result given to a waiting callback of an open client is a chunk or the *)
(* end of the abstract perform.                                             *)
LEMMA AbstractResult ==
    ASSUME IInv, TypeOK', alive, alive' = alive, issued' = issued,
           NEW p \in Waiting, NEW r \in Results,
           callbacks' = [callbacks EXCEPT ![p] = Append(@, r)]
    PROVE  Abstract!Stream(p) \/ \E kind \in Abstract!FinalKinds :
                                        Abstract!Finish(p, kind)
  <1>1. /\ p \in Performs /\ p \in issued /\ ~HasFinal(callbacks[p])
        /\ callbacks[p] \in Seq(Results)
        /\ callbacks'[p] = Append(callbacks[p], r)
        /\ \A q \in Performs : q # p => callbacks'[q] = callbacks[q]
    BY DEF IInv, TypeOK, Waiting
  <1>2. statusBar[p] = "pending"
    BY <1>1 DEF statusBar
  <1>3. resultsBar' = [resultsBar EXCEPT ![p] = Append(@, r.kind)]
    <2>1. KindsOf(callbacks'[p]) = Append(KindsOf(callbacks[p]), r.kind)
      BY <1>1, KindsOfAppend
    <2>2. \A q \in Performs : q # p => KindsOf(callbacks'[q]) = KindsOf(callbacks[q])
      BY <1>1
    <2>3. resultsBar'[p] = Append(resultsBar[p], r.kind)
      BY <1>1, <2>1 DEF resultsBar
    <2>4. \A q \in Performs : q # p => resultsBar'[q] = resultsBar[q]
      BY <2>2 DEF resultsBar
    <2> QED
      BY <1>1, <2>3, <2>4 DEF resultsBar
  <1>4. HasFinal(callbacks'[p]) <=> r.kind \in FinalKinds
    BY <1>1, AppendResult
  <1>5. \A q \in Performs : q # p => statusBar'[q] = statusBar[q]
    BY <1>1 DEF statusBar, HasFinal
  <1>6. CASE r.kind \in FinalKinds
    <2>1. statusBar' = [statusBar EXCEPT ![p] = "done"]
      BY <1>1, <1>4, <1>5, <1>6 DEF statusBar
    <2>2. Abstract!Finish(p, r.kind)
      BY <1>2, <1>3, <2>1 DEF Abstract!Finish
    <2> QED
      BY <1>6, <2>2 DEF FinalKinds, FinalAnswers, Abstract!FinalKinds
  <1>7. CASE r.kind \notin FinalKinds
    <2>1. r.kind = "chunk"
      BY <1>7 DEF Results
    <2>2. statusBar' = statusBar
      BY <1>1, <1>4, <1>5, <1>7 DEF statusBar
    <2> QED
      BY <1>2, <1>3, <2>1, <2>2 DEF Abstract!Stream
  <1> QED
    BY <1>6, <1>7

LEMMA AbstractStutter ==
    ASSUME UNCHANGED <<alive, issued, callbacks>>
    PROVE  UNCHANGED Abstract!callVars
  BY DEF Abstract!callVars, statusBar, resultsBar, HasFinal, KindsOf

LEMMA AbstractStep ==
    ASSUME IInv, QuietInv, [Next]_vars
    PROVE  [Abstract!Next]_(Abstract!callVars)
  <1>0. TypeOK /\ TypeOK'
    BY TypeStep DEF IInv
  <1>1. ASSUME NEW p \in Performs, Perform(p)
        PROVE  [Abstract!Next]_(Abstract!callVars)
    <2>1. /\ alive /\ alive' = alive /\ callbacks' = callbacks
          /\ p \notin issued /\ issued' = issued \cup {p}
      BY <1>1 DEF Perform
    <2>2. ~HasFinal(callbacks[p])
      BY <2>1, EmptyHistory DEF IInv, UnissuedOK
    <2>3. statusBar[p] = "idle" /\ statusBar' = [statusBar EXCEPT ![p] = "pending"]
      BY <2>1, <2>2 DEF statusBar, HasFinal
    <2>4. resultsBar' = resultsBar
      BY <2>1 DEF resultsBar, KindsOf
    <2> QED
      BY <2>1, <2>3, <2>4 DEF Abstract!Next, Abstract!Perform
  <1>2. CASE Deliver
    <2> DEFINE item == Head(items)
    <2>1. item \in Results /\ item.id \in Waiting /\ alive
      BY <1>0, <1>2, HeadAndTail
         DEF Deliver, IInv, ClosedOK, PendingExact, TypeOK, Waiting
    <2>2. Abstract!Stream(item.id) \/ \E kind \in Abstract!FinalKinds :
                                        Abstract!Finish(item.id, kind)
      BY <1>0, <1>2, <2>1, AbstractResult DEF Deliver
    <2> QED
      BY <1>0, <2>1, <2>2 DEF Abstract!Next, Waiting, TypeOK
  <1>3. ASSUME NEW p \in Performs, SweepTimeout(p)
        PROVE  [Abstract!Next]_(Abstract!callVars)
    <2>1. p \in Waiting /\ alive
      BY <1>3 DEF SweepTimeout, IInv, TodoOK, QuietInv
    <2>2. Abstract!Stream(p) \/ \E kind \in Abstract!FinalKinds :
                                   Abstract!Finish(p, kind)
      BY <1>0, <1>3, <2>1, TimeoutIsResult, AbstractResult DEF SweepTimeout
    <2> QED
      BY <2>2 DEF Abstract!Next
  <1>4. CASE CloseEnd
    <2>1. /\ alive /\ alive' = FALSE /\ callbacks' = callbacks /\ issued' = issued
      BY <1>4 DEF CloseEnd, IInv, ClosedOK
    <2>2. statusBar' = [p \in Performs |-> IF statusBar[p] = "pending"
                                           THEN "abandoned" ELSE statusBar[p]]
      BY <2>1 DEF statusBar, HasFinal
    <2>3. resultsBar' = resultsBar
      BY <2>1 DEF resultsBar, KindsOf
    <2> QED
      BY <2>1, <2>2, <2>3 DEF Abstract!Next, Abstract!Close
  <1>5. CASE \/ PollBegin \/ Discard \/ SweepBegin \/ SweepEnd \/ SweepDangling
             \/ NestedPoll \/ NestedPollEnd \/ CallbackReturn \/ CallbackThrow \/ CloseBegin
             \/ (\E p \in Performs : Expire(p)) \/ UNCHANGED vars
    <2>1. UNCHANGED <<alive, issued, callbacks>>
      BY <1>5 DEF PollBegin, Discard, SweepBegin, SweepEnd, SweepDangling,
         NestedPoll, NestedPollEnd, CallbackReturn, CallbackThrow, CloseBegin, Expire, vars, mainVars, QuietInv
    <2> QED
      BY <2>1, AbstractStutter
  <1>6. CASE ZNext \/ PeerTake
             \/ (\E i \in Ids, kind \in ReplyKinds : PeerReply(i, kind))
    <2>1. UNCHANGED <<alive, issued, callbacks>>
      BY <1>6 DEF ZNext, ZCheck, ZSend, ZDrained, ZRecv, ZRecvThrows, ZPollTimeout,
         PeerTake, PeerReply, mainVars
    <2> QED
      BY <2>1, AbstractStutter
  <1> QED
    BY <1>1, <1>2, <1>3, <1>4, <1>5, <1>6 DEF Next, OwnNext, PollStep, Closed

(* Seen by its callers, the client with its two threads, queues and sweep   *)
(* is EffectCall: chunks, one final result, silence after close().          *)
THEOREM ImplementsEffectCall ==
    ASSUME "close" \notin TimeoutActs, "poll" \notin TimeoutActs
    PROVE  Spec => EffectCallSpec
  <1>1. Init => Abstract!Init
    BY AbstractInit
  <1>2. IInv /\ QuietInv /\ [Next]_vars => [Abstract!Next]_(Abstract!callVars)
    BY AbstractStep
  <1> QED
    BY <1>1, <1>2, QuietAlways, PTL DEF Spec, EffectCallSpec, Abstract!Spec
=============================================================================
