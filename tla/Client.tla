------------------------------- MODULE Client -------------------------------
(***************************************************************************)
(* The client of include/zmqae/client.hpp: the application's thread, which *)
(* calls perform(), poll() and close() and runs every callback, and the    *)
(* ZMQ thread, which owns the DEALER socket.  They share two queues, the   *)
(* running flag, and nothing else: pending_ belongs to the application's   *)
(* thread alone, so the steps that touch only pending_ are merged with the *)
(* queue operation next to them.                                           *)
(*                                                                         *)
(* A callback may itself call the client.  It runs in a state of its own   *)
(* ("answerCb" inside the dispatch loop of poll(), "timeoutCb" inside its  *)
(* timeout sweep), where it may perform, poll, close or throw before it    *)
(* returns.  A poll() inside a callback is a call frame of its own: the    *)
(* locals of the outer one wait on a stack until it returns.               *)
(***************************************************************************)
EXTENDS Naturals, Sequences, FiniteSets, Queues

CONSTANTS
    Performs,        \* the ids the perform() calls of a run generate
    Timed,           \* those called with timeout_ms > 0
    Stray,           \* the id of what no perform() asked for, if it has one
    HWM,             \* frames the DEALER pipe holds before send() blocks
    MaxReplies,      \* bound: replies the router sends for each id
    MaxDepth,        \* bound: polls inside callbacks inside polls
    AnswerActs,      \* what the callback of an answer may do before it returns
    TimeoutActs      \* what the callback of a timeout may do before it returns

Acts == {"perform", "poll", "close", "throw"}

ASSUME ConstantsAssumption ==
    /\ Timed \subseteq Performs
    /\ Stray \notin Performs
    /\ HWM \in Nat \ {0}
    /\ MaxDepth \in Nat
    /\ MaxReplies \in [Performs \cup {Stray} -> Nat]
    /\ AnswerActs \subseteq Acts
    /\ TimeoutActs \subseteq Acts

VARIABLES
    \* the client object and the stack of the application's thread
    alive,           \* state_ is not null
    mainPc,          \* where the application's thread is
    ret,             \* where close() returns to
    items,           \* the drained results poll() has yet to dispatch
    todo,            \* the expired entries the sweep has yet to reach
    dangling,        \* the sweep's iterator points at an entry that is gone
    stack,           \* the outer polls, innermost first
    pending,         \* the keys of pending_
    issued,          \* the performs made so far
    expired,         \* the performs whose deadline has passed
    callbacks,       \* history: the results each callback was given
    \* shared with the ZMQ thread
    running,
    sendQueue,
    recvQueue,
    zpc,             \* where the ZMQ thread is
    \* the sockets and the router at the other end
    wireOut,         \* frames in the DEALER's outgoing pipe
    wireIn,          \* replies on their way to the DEALER
    asked,           \* the performs the router received
    sent             \* history: the replies the router sent, per id

mainVars == <<alive, mainPc, ret, items, todo, dangling, stack, pending,
              issued, expired, callbacks>>
peerVars == <<asked, sent>>
vars     == <<mainVars, running, sendQueue, recvQueue, zpc, wireOut, wireIn,
              peerVars>>

Ids          == Performs \cup {Stray}
FinalAnswers == {"ok", "error"}                    \* replies that are final
FinalKinds   == FinalAnswers \cup {"timeout"}
ReplyKinds   == FinalAnswers \cup {"chunk", "long"} \* "long": too many frames
Replies      == [id : Ids, kind : ReplyKinds, n : Nat]
Results      == [id : Ids, kind : FinalKinds \cup {"chunk"}, n : Nat]

(* What an outer poll() left behind: its locals, and what pending_ held and *)
(* had been performed when its callback called poll().                      *)
Frames == [pc : {"answerCb", "timeoutCb"}, items : Seq(Results),
           todo : SUBSET Performs, dangling : BOOLEAN,
           under : SUBSET Performs, issued : SUBSET Performs]

Timeout(p) == [id |-> p, kind |-> "timeout", n |-> 0]

InCallback == mainPc \in {"answerCb", "timeoutCb"}
MayAct(a)  == \/ mainPc = "app" /\ a # "throw"
              \/ mainPc = "answerCb" /\ a \in AnswerActs
              \/ mainPc = "timeoutCb" /\ a \in TimeoutActs

Init ==
    /\ alive = TRUE /\ running = TRUE
    /\ mainPc = "app" /\ ret = "app"
    /\ items = <<>> /\ todo = {} /\ dangling = FALSE /\ stack = <<>>
    /\ pending = {} /\ issued = {} /\ expired = {}
    /\ callbacks = [p \in Performs |-> <<>>]
    /\ sendQueue = <<>> /\ recvQueue = <<>>
    /\ zpc = "check"
    /\ wireOut = <<>> /\ wireIn = <<>>
    /\ asked = {}
    /\ sent = [i \in Ids |-> <<>>]

-----------------------------------------------------------------------------
(* The application's thread: perform().  emplace() may rehash pending_.  In *)
(* the dispatch loop no iterator is live across the callback; in the sweep  *)
(* the iterator is, and the walk continues in an unspecified order: it may  *)
(* miss entries, which the next poll() finds.                               *)

Perform(p) ==
    /\ MayAct("perform")
    /\ alive /\ running
    /\ p \notin issued
    /\ issued'    = issued \cup {p}
    /\ sendQueue' = Append(sendQueue, p)
    /\ pending'   = pending \cup {p}
    /\ IF mainPc = "timeoutCb" THEN todo' \in SUBSET todo ELSE UNCHANGED todo
    /\ UNCHANGED <<alive, stack, mainPc, ret, items, dangling, expired, callbacks,
                   running, recvQueue, zpc, wireOut, wireIn, peerVars>>

-----------------------------------------------------------------------------
(* The application's thread: poll().                                        *)

PollBegin ==
    /\ mainPc = "app"
    /\ alive /\ running
    /\ mainPc'    = "dispatch"
    /\ items'     = recvQueue
    /\ recvQueue' = <<>>
    /\ UNCHANGED <<alive, stack, ret, todo, dangling, pending, issued, expired,
                   callbacks, running, sendQueue, zpc, wireOut, wireIn, peerVars>>

(* poll() from a callback.  The outer frame keeps its locals; in the sweep  *)
(* its iterator points at one of the entries pending_ has now.              *)
NestedPoll ==
    /\ InCallback /\ MayAct("poll")
    /\ alive /\ running
    /\ Len(stack) < MaxDepth
    /\ stack' = <<[pc |-> mainPc, items |-> items, todo |-> todo,
                   dangling |-> dangling, issued |-> issued,
                   under |-> IF mainPc = "timeoutCb" THEN pending ELSE {}]>> \o stack
    /\ mainPc'    = "dispatch"
    /\ items'     = recvQueue
    /\ recvQueue' = <<>>
    /\ todo' = {} /\ dangling' = FALSE
    /\ UNCHANGED <<alive, ret, pending, issued, expired, callbacks, running,
                   sendQueue, zpc, wireOut, wireIn, peerVars>>

(* pending_ after an answer: its entry goes when the answer is final.       *)
Remaining_NoErase(item) == pending                      \* mutant: never erased
Remaining_EraseAlways(item) == pending \ {item.id}      \* mutant: chunks erase too
Remaining(item) == IF item.kind \in FinalKinds THEN pending \ {item.id}
                                                ELSE pending

Deliver ==
    /\ mainPc = "dispatch"
    /\ items # <<>>
    /\ LET item == Head(items) IN
        /\ item.id \in pending
        /\ pending'   = Remaining(item)
        /\ callbacks' = [callbacks EXCEPT ![item.id] = Append(@, item)]
    /\ items'  = Tail(items)
    /\ mainPc' = "answerCb"
    /\ UNCHANGED <<alive, stack, ret, todo, dangling, issued, expired,
                   running, sendQueue, recvQueue, zpc, wireOut, wireIn, peerVars>>

Discard ==
    /\ mainPc = "dispatch"
    /\ items # <<>>
    /\ Head(items).id \notin pending
    /\ items' = Tail(items)
    /\ UNCHANGED <<alive, stack, mainPc, ret, todo, dangling, pending, issued, expired,
                   callbacks, running, sendQueue, recvQueue, zpc, wireOut, wireIn,
                   peerVars>>

(* The sweep starts when the dispatch loop has ended ...                    *)
AllDispatched_Not == TRUE                  \* mutant: sweep before the dispatch
AllDispatched == items = <<>>

(* ... and finds the entries that have a timeout and are past it.           *)
Due_Inverted == (pending \ Timed) \cap expired \* mutant: has_timeout inverted
Due == pending \cap expired

SweepBegin ==
    /\ mainPc = "dispatch"
    /\ AllDispatched
    /\ mainPc' = "sweep"
    /\ todo'   = Due
    /\ UNCHANGED <<alive, stack, ret, items, dangling, pending, issued, expired,
                   callbacks, running, sendQueue, recvQueue, zpc, wireOut, wireIn,
                   peerVars>>

SweepTimeout(p) ==
    /\ mainPc = "sweep"
    /\ ~dangling
    /\ p \in todo
    /\ todo'      = todo \ {p}
    /\ pending'   = pending \ {p}
    /\ callbacks' = [callbacks EXCEPT ![p] = Append(@, Timeout(p))]
    /\ mainPc'    = "timeoutCb"
    /\ UNCHANGED <<alive, stack, ret, items, dangling, issued, expired,
                   running, sendQueue, recvQueue, zpc, wireOut, wireIn, peerVars>>

SweepEnd ==
    /\ mainPc = "sweep"
    /\ ~dangling
    /\ todo = {} /\ stack = <<>>
    /\ mainPc' = "app"
    /\ UNCHANGED <<alive, stack, ret, items, todo, dangling, pending, issued, expired,
                   callbacks, running, sendQueue, recvQueue, zpc, wireOut, wireIn,
                   peerVars>>

(* The callback that called poll() goes on, with the locals of its frame.   *)
(* Its sweep may find that the entry the iterator points at was erased      *)
(* meanwhile: perhaps if some entry was, certainly if all of them were.     *)
(* A perform made meanwhile may have rehashed pending_, as in Perform.      *)
Resume ==
    LET outer == Head(stack) IN
    /\ stack'  = Tail(stack)
    /\ mainPc' = outer.pc
    /\ items'  = outer.items
    /\ \/ /\ dangling' = TRUE
          /\ outer.dangling \/ ~(outer.under \subseteq pending)
          /\ todo' = outer.todo
       \/ /\ dangling' = FALSE
          /\ ~outer.dangling
          /\ outer.todo = {} \/ outer.under \cap pending # {}
          /\ \/ todo' = outer.todo \cap pending
             \/ issued # outer.issued /\ todo' \in SUBSET (outer.todo \cap pending)

NestedPollEnd ==
    /\ mainPc = "sweep"
    /\ ~dangling
    /\ todo = {} /\ stack # <<>>
    /\ Resume
    /\ UNCHANGED <<alive, ret, pending, issued, expired, callbacks, running,
                   sendQueue, recvQueue, zpc, wireOut, wireIn, peerVars>>

(* A sweep callback closed the client, or polled it and so erased the entry *)
(* the iterator points at: a freed node.  The loop may stop, find the old   *)
(* contents of an expired entry and invoke its callback, or crash.          *)
SweepDangling ==
    /\ mainPc = "sweep"
    /\ dangling
    /\ \/ /\ \/ mainPc' = "sweep" /\ UNCHANGED zpc
             \/ mainPc' = "crashed" /\ zpc' = "terminated"
          /\ todo' = {}
          /\ dangling' = FALSE
          /\ UNCHANGED <<callbacks, pending>>
       \/ \E p \in todo :
          /\ callbacks' = [callbacks EXCEPT ![p] = Append(@, Timeout(p))]
          /\ pending'   = pending \ {p}
          /\ todo'      = todo \ {p}
          /\ mainPc'    = "timeoutCb"
          /\ UNCHANGED <<dangling, zpc>>
    /\ UNCHANGED <<alive, stack, ret, items, issued, expired,
                   running, sendQueue, recvQueue, wireOut, wireIn, peerVars>>

CallbackReturn ==
    /\ InCallback
    /\ mainPc' = IF mainPc = "answerCb" THEN "dispatch" ELSE "sweep"
    /\ UNCHANGED <<alive, stack, ret, items, todo, dangling, pending, issued, expired,
                   callbacks, running, sendQueue, recvQueue, zpc, wireOut, wireIn,
                   peerVars>>

(* poll() catches nothing: its locals go with the exception.  A callback    *)
(* that polled may catch what comes out of the inner poll().                *)
CallbackThrow ==
    /\ MayAct("throw")
    /\ \/ /\ mainPc'   = "app"
          /\ items'    = <<>>
          /\ todo'     = {}
          /\ dangling' = FALSE
          /\ stack'    = <<>>
       \/ stack # <<>> /\ Resume
    /\ UNCHANGED <<alive, ret, pending, issued, expired, callbacks, running,
                   sendQueue, recvQueue, zpc, wireOut, wireIn, peerVars>>

-----------------------------------------------------------------------------
(* The application's thread: close().                                       *)

CloseBegin ==
    /\ MayAct("close")
    /\ alive /\ running
    /\ running' = FALSE
    /\ ret'     = mainPc
    /\ mainPc'  = "join"
    /\ UNCHANGED <<alive, stack, items, todo, dangling, pending, issued, expired,
                   callbacks, sendQueue, recvQueue, zpc, wireOut, wireIn, peerVars>>

PendingAfterClose_Kept == pending                  \* mutant: clear() left out
PendingAfterClose == {}

(* linger is 0: closing the socket drops the frames that have not left it.  *)
CloseEnd ==
    /\ mainPc = "join"
    /\ zpc = "exited"
    /\ \E k \in 0..Len(wireOut) : wireOut' = SubSeq(wireOut, 1, k)
    /\ wireIn'    = <<>>
    /\ alive'     = FALSE
    /\ sendQueue' = <<>>
    /\ recvQueue' = <<>>
    /\ pending'   = PendingAfterClose
    /\ mainPc'    = ret
    /\ dangling' \in {d \in BOOLEAN : /\ d => ret = "timeoutCb" /\ pending # {}
                                      /\ todo # {} => d}
    /\ UNCHANGED <<ret, items, todo, stack, issued, expired, callbacks, running,
                   zpc, peerVars>>

Expire(p) ==
    /\ p \in (Timed \cap pending) \ expired
    /\ expired' = expired \cup {p}
    /\ UNCHANGED <<alive, stack, mainPc, ret, items, todo, dangling, pending, issued,
                   callbacks, running, sendQueue, recvQueue, zpc, wireOut, wireIn,
                   peerVars>>

-----------------------------------------------------------------------------
(* The ZMQ thread.                                                          *)

NextRound_NoFlush == IF running THEN "drain" ELSE "exited" \* mutant: no last drain
NextRound_Forever == "drain"                               \* mutant: running unread
NextRound == IF running THEN "drain" ELSE "flush"

ZCheck ==
    /\ zpc = "check"
    /\ zpc' = NextRound
    /\ UNCHANGED <<mainVars, running, sendQueue, recvQueue, wireOut, wireIn, peerVars>>

(* Mutant: front() where pop() should be, so the frame stays in the queue.  *)
ZSend_Peek ==
    /\ zpc \in {"drain", "flush"}
    /\ sendQueue # <<>>
    /\ Len(wireOut) < HWM
    /\ wireOut' = Append(wireOut, Head(sendQueue))
    /\ UNCHANGED <<mainVars, running, sendQueue, recvQueue, zpc, wireIn, peerVars>>

(* pop() and send_multipart() in one step: nobody else reads sendQueue, so  *)
(* a thread blocked in send() with the frame in its hand and one that waits *)
(* for room with the frame still queued look the same.                      *)
ZSend ==
    /\ zpc \in {"drain", "flush"}
    /\ sendQueue # <<>>
    /\ Len(wireOut) < HWM
    /\ wireOut'   = Append(wireOut, Head(sendQueue))
    /\ sendQueue' = Tail(sendQueue)
    /\ UNCHANGED <<mainVars, running, recvQueue, zpc, wireIn, peerVars>>

ZDrained ==
    /\ zpc \in {"drain", "flush"}
    /\ sendQueue = <<>>
    /\ zpc' = IF zpc = "drain" THEN "poll" ELSE "exited"
    /\ UNCHANGED <<mainVars, running, sendQueue, recvQueue, wireOut, wireIn, peerVars>>

(* A streaming resume with more binary frames than the protocol allows      *)
(* becomes an error for its id, which is final.  A message without a usable *)
(* id becomes an error for an id of its own, which is Stray.                *)
Parsed(m) == IF m.kind = "long" THEN [m EXCEPT !.kind = "error"] ELSE m

Pushed_Unparsed(m) == Append(recvQueue, m)              \* mutant: kind unchecked
Pushed_Front(m) == <<Parsed(m)>> \o recvQueue           \* mutant: a stack
Pushed_Slot(m) == IF recvQueue = <<>> THEN <<Parsed(m)>> \* mutant: one slot
                                      ELSE recvQueue
Pushed(m) == Append(recvQueue, Parsed(m))

ZRecv ==
    /\ zpc = "poll"
    /\ wireIn # <<>>
    /\ recvQueue' = Pushed(Head(wireIn))
    /\ wireIn' = Tail(wireIn)
    /\ zpc'    = "check"
    /\ UNCHANGED <<mainVars, running, sendQueue, wireOut, peerVars>>

(* A message without a usable id may be worse than wrong: a number that no  *)
(* double can hold is an exception parse_incoming_message() does not catch, *)
(* nor does the thread, and the process is terminated.                      *)
ZRecvThrows ==
    /\ zpc = "poll"
    /\ wireIn # <<>> /\ Head(wireIn).id = Stray
    /\ zpc'    = "terminated"
    /\ mainPc' = "crashed"
    /\ UNCHANGED <<alive, stack, ret, items, todo, dangling, pending, issued, expired,
                   callbacks, running, sendQueue, recvQueue, wireOut, wireIn, peerVars>>

ZPollTimeout ==
    /\ zpc = "poll"
    /\ wireIn = <<>>
    /\ zpc' = "check"
    /\ UNCHANGED <<mainVars, running, sendQueue, recvQueue, wireOut, wireIn, peerVars>>

-----------------------------------------------------------------------------
(* The router at the other end: at most one final answer per perform, with  *)
(* chunks before it and, when a handler's threads race, chunks after it;    *)
(* a chunk may carry more frames than the client accepts ("long").          *)

HasFinal(s) == \E i \in DOMAIN s : s[i].kind \in FinalKinds

PeerTake ==
    /\ wireOut # <<>>
    /\ asked'   = asked \cup {Head(wireOut)}
    /\ wireOut' = Tail(wireOut)
    /\ UNCHANGED <<mainVars, running, sendQueue, recvQueue, zpc, wireIn, sent>>

PeerReply(i, kind) ==
    /\ alive
    /\ IF i = Stray THEN asked # {} /\ kind = "error" ELSE i \in asked
    /\ Len(sent[i]) < MaxReplies[i]
    /\ kind \in FinalAnswers => ~HasFinal(sent[i])
    /\ LET reply == [id |-> i, kind |-> kind, n |-> Len(sent[i]) + 1] IN
        /\ wireIn' = Append(wireIn, reply)
        /\ sent'   = [sent EXCEPT ![i] = Append(@, reply)]
    /\ UNCHANGED <<mainVars, running, sendQueue, recvQueue, zpc, wireOut, asked>>

-----------------------------------------------------------------------------
PollStep ==
    \/ PollBegin \/ Deliver \/ Discard
    \/ SweepBegin \/ SweepEnd \/ NestedPollEnd \/ SweepDangling
    \/ \E p \in Performs : SweepTimeout(p)
    \/ CallbackReturn

ZNext == ZCheck \/ ZSend \/ ZDrained \/ ZRecv \/ ZRecvThrows \/ ZPollTimeout

(* The application is done with the client and its thread left poll().      *)
Closed == (mainPc = "crashed" \/ (mainPc = "app" /\ ~alive)) /\ UNCHANGED vars

(* The steps of the client itself: all but its peer's.                      *)
OwnNext ==
    \/ PollStep
    \/ NestedPoll
    \/ CallbackThrow
    \/ CloseBegin \/ CloseEnd
    \/ \E p \in Performs : Perform(p) \/ Expire(p)
    \/ ZNext

Next ==
    \/ OwnNext
    \/ PeerTake
    \/ \E i \in Ids, kind \in ReplyKinds : PeerReply(i, kind)
    \/ Closed

Spec == Init /\ [][Next]_vars

(* The application polls in a loop, the operating system schedules both     *)
(* threads, and clocks advance.  Callbacks return: one that polls, however  *)
(* often, does not do so for ever.  Nothing obliges the application to      *)
(* close, or the router to exist.                                           *)
Fairness ==
    /\ WF_vars(PollStep)
    /\ \A d \in 0..MaxDepth : SF_vars(Len(stack) = d /\ CallbackReturn)
    /\ WF_vars(CloseEnd)
    /\ WF_vars(ZNext)
    /\ \A p \in Performs : WF_vars(Expire(p))

FairSpec == Spec /\ Fairness

(* A router that keeps reading its socket: a premise of what needs one.     *)
RouterReads == WF_vars(PeerTake)
-----------------------------------------------------------------------------
(* Properties.                                                              *)

TypeOK ==
    /\ alive \in BOOLEAN /\ running \in BOOLEAN /\ dangling \in BOOLEAN
    /\ mainPc \in {"app", "dispatch", "answerCb", "sweep", "timeoutCb", "join",
                   "crashed"}
    /\ ret \in {"app", "answerCb", "timeoutCb"}
    /\ items \in Seq(Results) /\ recvQueue \in Seq(Results)
    /\ stack \in Seq(Frames)
    /\ todo \subseteq Performs /\ pending \subseteq Performs
    /\ issued \subseteq Performs /\ expired \subseteq Performs
    /\ callbacks \in [Performs -> Seq(Results)]
    /\ sendQueue \in Seq(Performs) /\ wireOut \in Seq(Performs)
    /\ wireIn \in Seq(Replies)
    /\ zpc \in {"check", "drain", "poll", "flush", "exited", "terminated"}
    /\ asked \subseteq Performs
    /\ sent \in [Ids -> Seq(Replies)]

(* A callback is given at most one final result, and nothing after it:      *)
(* neither an answer that arrives after the timeout, nor a timeout after    *)
(* the answer, nor a chunk a racing handler sent behind its final resume.   *)
OneFinal ==
    \A p \in Performs : \A i \in DOMAIN callbacks[p] :
        callbacks[p][i].kind \in FinalKinds => i = Len(callbacks[p])

(* While the client is open its pending_ holds exactly the performs whose   *)
(* callback still waits for a final result: none is forgotten, none kept.   *)
PendingExact ==
    alive => pending = {p \in issued : ~HasFinal(callbacks[p])}

ParsedAll(s) == [i \in DOMAIN s |-> Parsed(s[i])]

(* No answer is lost, repeated or overtaken between the router and the      *)
(* callback.  What a pending perform's callback has seen, then what poll()  *)
(* holds, the receive queue and the socket, is what the router sent, in the *)
(* order it sent it.                                                        *)
NoAnswerLost ==
    \A p \in pending :
        callbacks[p] \o For(p, items) \o For(p, recvQueue)
            \o ParsedAll(For(p, wireIn)) = ParsedAll(sent[p])

Copies(p) == Count(p, sendQueue) + Count(p, wireOut) + IF p \in asked THEN 1 ELSE 0

(* A perform is on its way to the router exactly once or, after close(),    *)
(* lost with the socket: no perform is sent twice and none stays behind in  *)
(* the queue when the ZMQ thread has left its loop.                         *)
SentOnce ==
    \A p \in Performs : IF alive THEN Copies(p) = (IF p \in issued THEN 1 ELSE 0)
                                 ELSE Copies(p) <= 1

FlushedOnExit == zpc = "exited" => sendQueue = <<>>

(* A poll() that finds the answer already queued hands it to the callback   *)
(* even when the deadline has passed: the sweep never times out a perform   *)
(* whose final answer the same poll() drained.                              *)
AnswerBeatsTimeout ==
    [][\A p \in Performs :
         (p \in pending /\ Timeout(p) \in {callbacks'[p][i] : i \in DOMAIN callbacks'[p]})
            => ~HasFinal(For(p, items))]_vars

(* Once close() has returned no callback runs: not for what was queued, not *)
(* for what poll() had drained, and not for deadlines that pass.  It holds  *)
(* when callbacks of timeouts neither close nor poll; when one closes, the  *)
(* sweep it returns to goes on from a freed entry, and may call another.    *)
NoCallbackAfterClose == [][~alive => UNCHANGED callbacks]_vars

(* close() calls the callbacks of the performs that still wait: when it has *)
(* returned to the application every perform made has its final result.     *)
CalledOnClose ==
    ~alive /\ mainPc = "app" => \A p \in issued : HasFinal(callbacks[p])

Crashed == mainPc = "crashed"

(* A perform with a timeout is finished by an answer or by the timeout,     *)
(* also when there is no router, or when it does not read and the ZMQ       *)
(* thread hangs in send(), unless the client is closed or crashes.          *)
TimedAnswered ==
    \A p \in Timed : p \in pending ~> (HasFinal(callbacks[p]) \/ ~running \/ Crashed)

(* A final answer the router sent finds its callback, if the router reads:  *)
(* the ZMQ thread that hangs in send() receives nothing.                    *)
AnswerReachesCallback ==
    RouterReads =>
        \A p \in Performs : (p \in pending /\ HasFinal(sent[p]))
                                ~> (p \notin pending \/ ~running \/ Crashed)

(* close() returns, if the router reads: it joins a thread that sends what  *)
(* is queued before it exits.                                               *)
CloseTerminates == RouterReads => (~running ~> (~alive \/ Crashed))

-----------------------------------------------------------------------------
(* The client implements EffectCall: pending_ and the history of callbacks  *)
(* give each perform its abstract status.                                   *)

statusBar ==
    [p \in Performs |-> IF p \notin issued THEN "idle"
                        ELSE IF HasFinal(callbacks[p]) THEN "done"
                        ELSE IF alive THEN "pending" ELSE "abandoned"]

KindsOf(s) == [i \in DOMAIN s |-> s[i].kind]
resultsBar == [p \in Performs |-> KindsOf(callbacks[p])]

Abstract == INSTANCE EffectCall
            WITH status <- statusBar, results <- resultsBar, open <- alive

(* Seen from its callers the client behaves as EffectCall says, when the    *)
(* callbacks of timeouts neither close nor poll it.  What close() does with *)
(* the performs that wait, it abandons them, is the code's and not what the *)
(* documents have: CalledOnClose.                                           *)
EffectCallSpec == Abstract!Spec
=============================================================================
