# A verification of zmq-algebraiceffect

zmq-algebraiceffect brings `perform`/`resume` to ZeroMQ: a **client** performs an
effect and is called back with the result, a **router** hands the perform to a
handler as a **perform_context**, and the handler resumes it, now or later, once or
as a stream that ends in a final result. This directory holds TLA+ models of that
library, the TLC configurations that check them, and theorems about them that TLAPS
proves. Paths in this file are relative to the repository; the library is in
`include/zmqae/`.

- [Inventory](#inventory)
- [Plan](#plan)
- [Modules and code](#modules-and-code)
- [Runs](#runs)
- [What the violation runs show](#what-the-violation-runs-show)
- [Fairness](#fairness)
- [Proofs](#proofs)
- [What is not modelled](#what-is-not-modelled)

## Inventory

| Component | State | Operations | Talks to |
|---|---|---|---|
| `client` (`client.hpp`) | `pending_` (application's thread only), `running`, two queues, a DEALER socket (ZMQ thread only) | `perform`, `poll` (dispatch the drained results, then sweep the timeouts), `close`, the ZMQ thread's loop and last drain, moves | its callbacks, which may call it again; a router through the socket |
| `router` (`router.hpp`) | `handlers_`, `unregistered_handler_`, `nested_client_`, `parent_client_`, `running`, two queues, a ROUTER socket | `on`, `off`, `clear_handlers`, `on_unregistered`, `set_parent`, `clear_parent`, `set_nested_endpoint`, `poll`, `close`, the ZMQ thread, moves | handlers, contexts, two clients it owns |
| `perform_context` (`perform_context.hpp`) | `resumed_`, a `shared_ptr` to the router's send queue, the nested client's address | `resume` (final or streaming), `error`, the destructor, `set_client` | any thread that holds a `shared_ptr`; the router's send queue |
| messages (`detail/message.hpp`, `types.hpp`) | none | three serialisers, two parsers, the three kinds of `result` | both ZMQ threads |
| `mpsc_queue` (`detail/thread_queue.hpp`) | a `std::queue` and a mutex | `push`, `pop`, `drain` | everything above |
| C API (`src/c_api.cpp`) | `c_ctx` objects, a handler table per router, the text of the last error per thread | wrappers of all the above, each ending in a return code | C programs of several threads |
| `uuid.hpp`, `detail/context.hpp`, examples | - | - | - |

Two threads run in each client and router. The application's thread calls the
methods and, inside `poll()`, every callback and handler. The ZMQ thread owns the
socket. They meet in two queues and the flag `running`. A handler may hand its
context to threads of its own, which then push to the router's send queue.

What is hard, and what makes each component correct:

- **client.** A timeout races the answer; results cross the wire, the queue and
  `poll()`'s vector; callbacks call the client they are called from; `close()` may run
  while performs are queued, sent, answered or being dispatched. Correct: a callback is
  given at most one final result and nothing after it, nothing is lost or overtaken on
  the way to it, `pending_` holds exactly the performs that still wait, `close()`
  returns and silences everything.
- **perform_context.** Several threads resume, stream, fail and drop the context at
  once. Correct: one final frame, always.
- **router.** A context has many owners over its life, and each way of losing one - a
  handler that throws, an exception that leaves `poll()`, a parent that is replaced,
  `close()` - must leave the perform answered. Correct: each received perform is
  answered once or somebody who can still answer it holds it.
- **client and router together.** A perform crosses two queues, two sockets, `poll()`'s
  vector and its owners, and its answer all the way back. Correct: it is always
  somewhere, and it ends in its callback.
- **C API.** Return codes are computed a step before or after what they speak of, handlers
  live in two tables, and a handle owns a context until it is released. Correct: what the
  program was told is what became of the perform, a context it released is answered, the
  tables agree.
- **messages.** What one side writes the other reads as it was meant, and no message of
  this library ends the process that receives it: the parsers run on the ZMQ threads,
  which catch nothing.

The complete list of hazards, with the line each one bites at and the properties that
watch it, is `hazards` in `PROJECT.json`.

## Plan

Done, in this order (most important first):

1. `EffectCall`, the promise of `client::perform`, and `Client`, which implements it, with
   `poll()` called from callbacks.
2. `PerformContext`: the race for the one final frame.
3. `Router`: the life of contexts in a router, with its nested client, its parent and moves.
4. `Messages`: the wire format.
5. `ClientProofs`, `PerformContextProofs`, `RouterProofs`.
6. `System`: a client and its router over a connection.
7. `CApi`: the C layer over `Router` and `EffectCall`.
8. `QueueLemmas` and, with it, `ClientDeliveryProofs`, the second half of `RouterProofs`,
   `MessagesProofs`, `CApiProofs` and `SystemProofs`: every safety property that a passing
   run checks is now a theorem.

To do:

9. `Answer`, an abstract specification of a context (one final answer, owed until sent),
   which `PerformContext` and each context of `Router` implement, so that `Router` may
   treat a call on a context as one step with a reason.
10. A chain of two routers, the parent of the one being the other, in place of the parent
    that `Router` reduces to what its callbacks do.

## Modules and code

Every definition that stands for code has its lines in `map` in `PROJECT.json`. What
follows is the correspondence in outline.

### `Queues`

What the properties ask of any queue of the library: how often something is in it (`Count`) and
what in it is for one perform (`For`). `Client` and `Router` extend it.

### `EffectCall` - what a caller of `perform` may rely on

A perform is `idle`, `pending`, `done` or `abandoned`; its callback is given chunks
while it is pending, one final result that makes it done, and nothing else; closing
abandons what is pending.

### `Client` - `client.hpp`

| Code | Model |
|---|---|
| `state_ != nullptr`, `running`, `send_queue`, `recv_queue` | `alive`, `running`, `sendQueue`, `recvQueue` |
| keys of `pending_`, `has_timeout`, `deadline` | `pending`, `Timed`, `expired` (the performs whose deadline has passed) |
| locals of `poll()`: `items`, the sweep's iterator | `items`, `todo`, `dangling` |
| the call frames of outer `poll()`s | `stack`, at most `MaxDepth` deep |
| the application's thread, the ZMQ thread | `mainPc`, `zpc` |
| DEALER pipe, answers in flight | `wireOut` (at most `HWM`), `wireIn` |

`perform()` is one action. `poll()` is `PollBegin` (early return, drain), `Deliver` or
`Discard` for each drained result, `SweepBegin`, `SweepTimeout` for each expired entry,
`SweepEnd`. A callback runs in a state of its own, in which the application may
perform, poll, close or throw (`AnswerActs`, `TimeoutActs`) and from which `CallbackReturn` goes
back to the loop. `NestedPoll` pushes the locals of the poll it interrupts on `stack` and
`NestedPollEnd` takes them back, inside the callback that called it. `close()` is `CloseBegin`
(the exchange on `running`) and `CloseEnd` (after the join: socket, state, `pending_`). The ZMQ thread's loop is `ZCheck`, `ZSend`, `ZDrained`,
`ZRecv`, `ZPollTimeout`; `zpc = "flush"` is the drain after the loop. `ZRecvThrows` is the message
that `parse_incoming_message` throws on: nothing on the thread catches, and the process ends.

Choices that need a reason:

- Steps that touch only `pending_` are merged with the queue operation beside them,
  since one thread alone reads and writes `pending_`.
- The sweep visits entries in any order, as an `unordered_map` does. After a `perform()` in
  a sweep callback (it may rehash) the walk may miss any of the entries still to visit.
- `dangling` is the undefined behaviour of the sweep after a callback closed the client, or
  polled it and so erased the entry the iterator points at: from there the loop may stop,
  invoke the callback of an entry that is gone, or crash. When only some of the entries
  are gone, whether the iterator pointed at one of them is left open.
- An exception out of an inner `poll()` may be caught by the callback that called it or go
  on to the application: `CallbackThrow` does either.
- Closing the socket with linger 0 keeps any prefix of the outgoing pipe.
- A deadline passes at any moment after the perform. No property speaks of how long
  that is.
- The router at the other end (`PeerTake`, `PeerReply`) sends for each perform it received
  at most one final answer, chunks before it and, as `PerformContext` shows to happen,
  chunks after it. A chunk may carry too many frames (`"long"`), which the client's parser
  turns into an error. A final answer is `"ok"` or `"error"`; `System`, where only the router's
  word for it is known, has `"ok"` stand for both. It may also send an error under an id nobody
  knows (`Stray`), and only such a message may be one that ends the process.

### `PerformContext` - `perform_context.hpp`

`Claim` is the compare-exchange of a final `resume()` or of `error()`, `StreamCheck` the load of
a streaming one; `Push` is what follows, serialisation and the push; `SerializeThrows` is
`json::dump` rejecting the value in between. `Share` and `Release` copy and drop the
`shared_ptr`; the last owner runs `Destroy`. In the destructor exchange and push are one
step because nobody else can reach the object. Its message is ASCII and its id came
out of parsed JSON, so its own serialisation does not fail.

### `Router` - `router.hpp`

| Code | Model |
|---|---|
| every `shared_ptr<perform_context>`: in the receive queue, in `poll()`'s vector, kept by a handler, captured by a callback waiting in the nested or the parent client | `owners[p]`, a subset of `{"queue", "items", "thread", "nested", "parent", ...}` |
| a callback of a nested client that lost its answer, or stayed behind in a router moved from | `"stranded"`, `"moved"` in `owners[p]` |
| `resumed_` | `p \in resumed` |
| `handlers_`, `unregistered_handler_`, `nested_client_`, `parent_client_` | `handlers`, `unregistered`, `nested`, `parent` |
| the drained vector and the loop's position | `items`, `at` |
| what `get_client()` gives the handler that runs (`set_client` at `router.hpp:124`) | `client`: `"null"`, `"live"`, or `"gone"` once that client was replaced or closed |

A call on a context is one step here (`Finish`, `SendChunk`); dropping owners goes through
`LetGo`, which says what the destructors of the contexts without another owner push.
`ZRecv` is the receive branch of the ZMQ thread with both outcomes of the parse, and
`ZRecvThrows` the third: an exception that leaves the thread. `HandlerThrow`,
`HandlerResumeFails` and `CatchFails` are the three ways a throwing handler ends: answered by
the catch, swallowed because `resumed_` was already set, and a second exception out of the
catch that unwinds `poll()`. A handler's own thread has no catch: `LateFails` loses the answer and
goes on, or ends the process.

`close()` is a step for each thing that waits or answers: `CloseBegin` (the exchange on
`running`), `CloseState` after the join (the state, with the contexts in the receive queue,
then the handlers), `NestedGoes` and `ParentGoes` (the two clients, each with a ZMQ thread to
join, and the contexts in their callbacks). The answers these provoke go into a send queue
nobody reads any more. Replacing a client with `set_parent()`, `clear_parent()` or
`set_nested_endpoint()` destroys the old one, which is the same two steps: `ReplaceParent` and
`SetNested` put the new client in place and, when there was an old one, wait for it in
`"dropParent"` or `"dropNested"`.

The two clients are reduced to what their callbacks do to contexts, which is all the router
sees of them. A handler that performs on the nested client (`HandlerNests`) makes its
callback an owner; one that does so after it replaced that client, or closed the router, uses
a client that is gone, and may crash (`HandlerNestsGone`). Inside `NestedPollEnd`'s state a callback answers, streams and lets go
like a handler's thread (`LateAnswer`, `LateStream`, `LateDrop`). When it throws (`NestedThrow`),
nothing between it and the application catches: the vector of the outer poll is unwound,
the parent is not polled, and the callbacks whose answers the inner poll had drained are
stranded. `ParentChunk` and `ParentFinal` are the results of forwarded performs.
`Move` is the move constructor, which leaves the nested client in the old object until that is
destroyed (`DestroyMoved`). `forwarded_` is
left out: the code only ever erases from it. A ROUTER socket drops what it cannot route
and never blocks, so `ZSend` always succeeds.

### `System` - both ends

`System` extends `Client` without its peer (`OwnNext`) and instantiates `Router` without its
clients, and puts the connection in their place: `CarryPerform` takes a frame from the
DEALER's pipe to the ROUTER's inbox, `CarryAnswer` the next frame of `out` to the DEALER.
Closing the router drops what its socket had not sent. The client is the whole of `Client`; the
router is an instance of `Router` with failures, moves, handlers that close or reconfigure it, and
malformed messages switched off: those have no part in the hand-over from one end to the
other, and `RouterSafe` and `RouterLive` have them. `RouterIsPeer` is the specification
of `Client` itself, peer included: it says that the assumptions `Client` makes about the
other end are what `Router` does.

### `CApi` - `src/c_api.cpp`

`CApi` extends `Router`, whose actions are the router's half of each function, and takes the
client at its promise (`EffectCall`). `table` is `c_router::handlers`; `handle[p]` the `c_ctx` of
a perform, made by `WrapperCalls` and deleted by `CtxRelease`, whose `shared_ptr` is the owner
`"thread"`. `told` is what the function that just returned told its caller, and `oks`
counts the final calls on each context that were told OK. A function on a
context is two steps: `CtxCall` reads `is_resumed()` and may answer `ALREADY`; `CtxRefuse`
(the value is no JSON), `CtxAct` or `CtxErrorFails` (a text that cannot be serialised) follow,
with any other thread in between. Functions that hold no state of their own between two
steps are one. Polling, `on` and `off` are told OK on a closed router, as in the code. `zmqae_router_close`,
`_set_parent` and `_set_nested_endpoint` return when the clients they close have gone.

### `Messages` - `detail/message.hpp`

A header is a record of what the parsers ask about the JSON: which keys are there and
of the right type, the id, the declared number of frames. Of the text itself only what the
parsers choke on is kept (`Shapes`): JSON that is no object or no JSON, no JSON and no UTF-8
either (whose error message `serialize_error` cannot dump: `RefuseFails`), and a number that no
double can hold (an exception neither parser catches: `Escaped`). One behaviour is one exchange,
perform to resume or error, or one foreign message in either direction. `Narrow` is
`get<int>()`: it keeps the low bits.

## Runs

All bounds are constants of the configurations; the sizes are TLC's distinct states.

| Run | Instance | Properties | Size |
|---|---|---|---|
| `ClientSafe` | two timed performs, one with two replies (chunk and final, two chunks, final and late chunk), and a stray error; pipe of one; polls inside polls two deep; callbacks of answers perform, poll, close and throw, of timeouts perform, close and throw | `TypeOK`, `OneFinal`, `PendingExact`, `SentOnce`, `FlushedOnExit`, `AnswerBeatsTimeout` | 509 000 |
| `ClientLive` | two performs, one timed and with two replies; pipe of one; no nested polls; callbacks of answers perform and close, of timeouts perform and throw; a router that reads, stops reading, or never does | `OneFinal`, `PendingExact`, `NoAnswerLost`, `NoCallbackAfterClose`, `EffectCallSpec`, `TimedAnswered`, `AnswerReachesCallback`, `CloseTerminates` | 136 000 |
| `Context` | three threads, two calls each, values that fail | `TypeOK`, `OneFinalFrame`, `ResumedMeansOwed`, `OneLateChunkEach`, `AnsweredOrLost`, `EventuallyAnswered` | 13 000 |
| `RouterSafe` | two performs, a chunk each; failures, moves; handlers that close and reconfigure; nested client and parent | `TypeOK`, `NoneForgotten`, `AnsweredOnce`, `QueuesMatchOwners`, `OwedIsSent` | 3 304 000 |
| `RouterLive` | a well-formed and a malformed perform, a chunk each, handlers, the default handler, nested client and parent, no failures | `AnsweredWhileOpen`, `CloseTerminates` | 84 000 |
| `Messages` | counts 0, 1, 8, 9; every foreign header with these, negative, overflowing, absent or non-integer counts | `RoundTrip`, `LongResumeEnds` | 74 000 |
| `System` | one perform without a timeout, one chunk, pipe of one, handlers and a parent, either end may close | `NotForgotten`, `RouterIsPeer`, `PerformFinishes` | 224 000 |
| `CApi` | one perform at the router and one of the program's own, the polling thread and a worker, a context function each; C handlers that call the API | `CTypeOK`, `ToldWhatHappened`, `ReleasedIsAnswered`, `TablesAgree` | 1 378 000 |

Why the bounds are enough. In the client, performs interact only through the two
queues, the sweep's walk and a callback that performs another: two show every order
of two entries in a queue or in the sweep, and a full pipe behind a pipe of one. Two
replies give each order of a chunk and a final one. A poll inside a poll is where the
locals of two frames meet in `pending_`, and a third has a frame in the middle, which is both
an inner and an outer one. Nested polls are checked for safety only (`ClientSafe`): under
`ClientLive` callbacks do not poll. In a context the race is decided between two threads;
the third is a bystander that can still be late with a chunk. In the router, a vector of
two contexts has a first and a rest to drop; a malformed perform, which shares only the
send queue with them, is in `RouterLive`, and the theorems of `RouterProofs` hold
with any number of them; a chunk changes nothing but the send queue, so one for
each perform is enough to see it anywhere in it. One effect is enough because
handlers come and go: a perform finds a handler, the default one, the parent or nobody
at any time (`RouterLive` has all four, `RouterSafe` all but the default). In `System` each hand-over concerns one perform at a time; what two do to
each other at either end is checked there. In `CApi` the race is between two functions
on one context. The router of `System` and `CApi` has no moves and no failures: `RouterSafe`
has them. `IntRange` stands for 2^32, which TLC's integers cannot hold: it is the modulus
of a narrower int, and the foreign counts include it and its successor.

What some properties rest on:

- `NoAnswerLost` is checked with callbacks of answers that do not throw. When one throws,
  the results `poll()` had drained behind it are lost, chunks and final ones alike
  (`client.hpp:150`), although `TESTCASES.md:76` has `poll()` call all callbacks. A callback
  of a timeout may throw: it runs when the vector is empty.
- `OneFinal` and `PendingExact` need timeout callbacks not to poll. `NoCallbackAfterClose` and
  `EffectCallSpec` need them neither to poll nor to close: `ClientSweepClose` shows the first
  violated when they close.
- `EffectCallSpec` takes `close()` for what it does, which is to abandon the performs that wait.
  The documents have it call them: `ClientCloseSilent`.
- `TimedAnswered` assumes nothing of the router: in some behaviours of `ClientLive` nobody ever
  reads the pipe, the ZMQ thread hangs in `send()`, and the timeout still ends the perform.
  `AnswerReachesCallback` and `CloseTerminates` have a router that reads as their premise
  (`RouterReads`): without one a thread that hangs receives nothing and does not exit.
- The router's `CloseTerminates` holds because `MaxChunks` ends what the handlers' threads push. A
  thread that streamed without pause would keep the ZMQ thread in its drain, in the loop or after
  it (`router.hpp:219`, `:270`), for as long. Its other premise, and that of `AnsweredWhileOpen` and
  `PerformFinishes`, is that the clients a router closes do close (`ClientsClose`), which is the
  client's `CloseTerminates`.
- `AnswerBeatsTimeout` is what the order of the two loops of `poll()` buys: an answer already in
  the receive queue when `poll()` drains it wins over a deadline that has passed.
- `OneLateChunkEach` is the exact extent of the race between a streaming resume's load and its
  push: each thread may have one chunk behind the final frame, the finalising thread none.
- `NoneForgotten` counts a perform as answered once `resumed_` is set, and `AnsweredOnce` excepts
  `lost`: the frames a failing serialisation ate.
- `AnsweredWhileOpen` is checked without failures. When a nested callback throws, the callbacks
  it strands keep their contexts, unanswered, until the nested client goes (`router.hpp:138`).
- `ToldWhatHappened` says of OK that there is one final frame, not that this call made it: of two
  threads that pass the check of `is_resumed()` together both are told OK (`CApiSecondResume`). Its
  other half is that, while the program holds a context, nobody answers for it but a call that
  was told OK.
- `NoneForgotten` and `AnsweredOnce` count an answer in the send queue of a closed router, where
  nobody will send it, as an answer; so they say nothing of the performs in hand at `close()`.
- The parent and the nested client are taken at their word: that a chunk of the parent ends a
  forwarded perform, or that a router is moved, changes who answers, not whether.
- `OwedIsSent` is about the frames queued when `close()` was called. What a handler's thread
  pushes during the join may or may not make it, and the answers that `close()` itself
  provokes by destroying contexts (`router.hpp:161`) never do.

Every property of a passing run has a mutant in `PROJECT.json`: a plausible bug at a
mapped definition with which TLC finds it violated. The mutated forms are in the
modules, beside the definitions they replace, marked `mutant`.

Deadlock is checked everywhere except in `Messages`, where an exchange ends. `Closed`,
`Crashed` and `Done` are the states in which nothing more is to be done.

## What the violation runs show

| Run | The documents say | The code does |
|---|---|---|
| `ContextSerializeThrows` | `DESIGN.md:73`, `:84`: a handler's exception, and a dropped context, are answered | `perform_context.hpp:107`: a final value that cannot be serialised leaves the context resumed and silent |
| `ClientCloseSilent` | `TESTCASES.md:136` (INT-06): the callbacks of performs pending at `close()` are called | `client.hpp:185`: `pending_` is cleared, and nobody is called |
| `ClientSweepClose` | `TESTCASES.md:68` (CLIENT-04): after `close()`, `poll()` does nothing | `client.hpp:161`: when a timeout callback closes the client, the sweep that called it goes on from a freed node of the cleared map and may call the callback of another perform |
| `CApiSecondResume` | `TESTCASES.md:159` (CAPI-09), `tests/test_c_api.cpp:247`: a second resume is told `ZMQAE_ALREADY` | `c_api.cpp:433`: the check is a step before the resume, so of two threads both may be told OK; one after the other they are told as documented |

More observations, which no run states:

- `perform()` after `close()` returns in silence (`client.hpp:109`) and its callback never runs;
  `TESTCASES.md:67` has an error.
- `poll()` in a timeout callback does to the outer sweep what `close()` does when it erases the
  entry the iterator points at, and so may call one callback twice. `DESIGN.md:143` has timeouts
  pass through the receive queue, where this could not happen; the code invokes them in place.
- A message that is not UTF-8 ends the router's process: the text of the JSON error quotes it, and
  `serialize_error` throws on the ZMQ thread (`router.hpp:245`). A number like 1e999 in a header ends
  the process of either side, for `json::out_of_range` is no `json::parse_error`
  (`message.hpp:91`, `:160`). No message this library writes does either (`RoundTrip`).
- A perform that does not parse is answered under a fresh id (`router.hpp:244`) also when its header
  has one, and the client drops the answer. `TESTCASES.md:93` allows a generated id when that of the
  perform is unknown; `tests/test_integration.cpp:441` expects the error for a frame count over the
  limit to arrive.
- A forwarding router passes every value of its parent on as a final one (`router.hpp:207`), so a
  stream from the parent ends at its first chunk. No document says what it should do.
- The ZMQ thread's `send()` blocks at the DEALER's high-water mark, so a client without a router
  that has made more performs than the mark allows cannot `close()`: this is why `CloseTerminates` has
  `RouterReads` as its premise.
- A header that declares 2^32 frames passes as one that declares none, since the count is
  narrowed before it is compared (`message.hpp:127`).
- A moved router leaves its nested client behind (`router.hpp:64` lists all members but that
  one; the move assignment at line 80 has it): performs that wait for nested answers wait
  until the old object is destroyed, and are then answered with an error.
- `zmqae_ctx_resume_streaming` never tells `ZMQAE_ALREADY`. The C callback is not told whether a
  result is final.

## Fairness

- `WF(PollStep)`: the application calls `poll()` in a loop, as both examples do, and its
  callbacks return. It is not obliged to perform or close.
- `SF(CallbackReturn)` at each depth of the stack: a callback that polls does not do so for
  ever. It is strong because the inner polls disable the return of the outer callback
  again and again. A callback that loops until an answer arrives which the outer poll
  has already drained would break it.
- `WF(ZNext)`: the operating system runs the ZMQ thread. Each of its steps, once it may
  happen, stays possible until the thread takes it. A blocked `send()` is a disabled `ZSend`:
  no fairness helps it.
- `WF(CloseEnd)`, and `WF(CloseState)` in the router: `join()` returns when the thread has exited.
- `WF(Expire(p))`: clocks advance.
- Nothing is assumed of the router a client talks to, nor, in the router, of the clients it
  closes. `RouterReads` (`WF(PeerTake)`) and `ClientsClose` (`WF(ClientGoes)`) are premises of the
  properties that need them, and TLC checks the implication.
- In `PerformContext`: a thread inside a call finishes it, and every holder lets go in the end.
- In `Router`: `poll()` is called again and again (`SF(PollBegin)`: between two calls the application
  may replace a client, which disables it for a while); handlers' threads let go of their
  contexts (`WF(LateDrop(p, "thread"))`), and a nested client or parent that is polled again and
  again has its answer in the end (`SF(LateDrop(p, "nested"))`, `SF(ParentFinal(p))`: they can only happen inside `poll()`, so they
  are enabled and disabled for ever). The latter two are a client's `TimedAnswered` or
  `AnswerReachesCallback` at the other end; forwarded performs have no timeout, so a parent
  that never answers leaves its client waiting.
- In `System`: all of these at both ends, and a connection that delivers while both sockets
  are open (`WF(CarryPerform)`, `WF(CarryAnswer)`).

## Proofs

TLAPS checks every proof to the last leaf, for every value of the constants that
satisfies `ConstantsAssumption`: any number of performs and threads, any pipe, any bound.

`ClientProofs`:

- `TypeCorrect`: `TypeOK`. The step lemma has one case per action.
- `OneFinalAlways`, `PendingExactAlways`, for timeout callbacks that do not poll. Neither is
  inductive alone, because the sweep, and a sweep left dangling, append to the callbacks
  they find in `todo`. The inductive invariant `IInv` adds that `todo` names only performs
  without a final result and is empty outside the sweep, where the dispatch loop could
  finish one of them; that a closed client has nothing pending; that the iterator dangles
  only in a closed client; that nobody called back a perform that was not made; and
  `StackOK`, that every outer poll waits in its dispatch loop and brings back no sweep.
- `FlushedOnExitAlways`: from an invariant that ties `zpc` to `running` and the send queue: only
  the application's thread pushes, and it does not once `running` is false.
- `NoCallbackAfterCloseAlways` and `ImplementsEffectCall` assume that timeout callbacks neither close nor
  poll; `QuietInv` then says that no iterator ever dangles and that a closed client has
  no sweep to go on with.
  The refinement maps `Init` to `Init` and each step to a step of `EffectCall` or a stutter:
  `Perform` to `Perform`, `Deliver` to `Stream` or `Finish`, `SweepTimeout` to `Finish`, `CloseEnd` to
  `Close`.

`PerformContextProofs`: `OneFinalFrameAlways`, `ResumedMeansOwedAlways`, `OneLateChunkEachAlways`,
`AnsweredOrLostAlways` and `TypeCorrect`, all from one inductive invariant `CtxInv`. Its core is
`ResumedMeansOwed`: a final frame is queued, owed by one thread, or lost, and `resumed_` says
so. The rest says that a thread inside a call holds the context, that the destructor runs
alone and a context that is gone was resumed, and that a thread with a chunk in its hand
has nothing in the queue from the final frame on.

`ClientDeliveryProofs`, about what the client's queues carry:

- `SentOnceAlways`, for any callbacks. Inductive as it stands, given the types; each step that
  touches a request moves one copy or loses copies with the socket.
- `NoAnswerLostAlways`, for callbacks of answers that neither throw nor poll and callbacks of
  timeouts that do not poll. All three conditions are needed: an exception drops what `poll()` holds, and a
  poll inside a poll dispatches newer answers before the older ones that wait in the
  outer vector. The inductive invariant `AnswerInv` adds to `IInv` and
  `SentOnce` that `poll()` holds results only in its dispatch loop, without another poll
  under it, and that nothing is on its way for a perform that was not made, which is what
  makes the property true of a perform at the moment it is made. A request of a made perform that is at the router is
  no longer in a queue, and a reply is appended at one end of `Pipe` only.
- `AnswerBeatsTimeoutAlways`, for timeout callbacks that do not poll, with nested polls and
  exceptions. It needs that nothing is left to dispatch in the sweep, and that no entry of
  any queue, vector or frame of the stack is itself a timeout.

`RouterProofs`, for a finite set of performs (a router receives finitely many; `SetToSeq`
needs it):

- `TypeCorrect`. `TypeOK` alone does not say that a handler runs for an entry of the vector, also
  while it closes the router; `HandlerAtItem` adds it.
- `FrameSteps` sorts every step by what it does to frames: nothing, hand one to the socket,
  answer for a set of contexts not resumed so far (and lose some), finish one context, or
  push a frame that is nobody's final one. The theorems below need only these five, with
  lemmas on how `Count` and membership fare under `Append`, `Tail` and concatenation with a
  `SetToSeq`.
- `NoneForgottenAlways`: who lets go answers (`LetGoSafe`), and owners are only added otherwise.
- `AnsweredOnceAlways`: with `lost \subseteq resumed`.
- `OwedIsSentAlways`: a frame owed is in `out`, or still queued with the ZMQ thread in its loop;
  the thread leaves only with an empty queue.
- `QueuesMatchOwnersAlways`: `QueuesInv` adds `Unborn`, that the inbox holds each perform at most
  once and nobody owns a context for a perform that is still there or has not arrived, and
  `ItemsInPoll`, that the vector is empty outside `poll()`. Most steps are instances of one operator, `HandsOver`: they move
  contexts between owners and take nothing in. `HandlersClient` ties the client a handler was given to
  the router's: while it is live, the router has a nested client.
- `AnswersWereAsked` (no run checks it; `SystemProofs` needs it): a frame is made only for a context somebody
  holds, so for a perform that arrived, or because a message did not parse. `CausedStep`
  refines `FrameStep` by who causes the frame; with it go the bounds on chunks.

`MessagesProofs`: `RoundTripAlways` and `LongResumeEndsAlways`, for every width of `int` and every
set of frame counts the assumptions allow. `MessagesInv` says that what has been received at each
stage is what the parser makes of what was sent, and that what ends the process is foreign.

`CApiProofs`, for a finite set of performs and any threads: `CTypeCorrect`, `ToldWhatHappenedAlways`,
`ReleasedIsAnsweredAlways` and `TablesAgreeAlways`, from one invariant `CInv` that contains the
router's `RouterInv` (the C layer takes `Router`'s steps, so `RouterProofs`' step lemmas apply),
`Holders` and `TablesInv`. `Holders` says who owns a context at each stage of its handle. Before the
wrapper has made one, the receive queue owns it, or `poll()`'s vector, alone until the loop gets
there, and perhaps the parent's callback afterwards; while the handle is held, the thread owns it, so no destructor answers; after
the release only `poll()`'s vector may still own it. And a thread inside a function
holds the handle it was called with. The first half of `ToldWhatHappened` is then `AnsweredOnce`,
and its second half that no step but a call on the context can resume it. `TablesAgree`
needs `TablesInv`: what the router's table holds the wrapper's holds until the C layer is
destroyed, which is not before `poll()` has returned, and a `close()` under a handler is called
by a C handler, so past the lookup.

`SystemProofs`, for a finite set of performs:

- `RouterIsPeerAlways`: the refinement, step by step. The router's steps are stutters of `Client`;
  `CarryPerform` is `PeerTake`; `CarryAnswer` is `PeerReply`, or nothing once the client is closed. That
  `PeerReply` is enabled is the point of the proof: the id on the wire was asked for
  (`AnswersWereAsked`), a second final frame does not exist (`AnsweredOnce`), and the bound holds.
  `LinkInv` ties what the client was sent to the prefix of `out` that has been carried.
  `RP` instantiates `RouterProofs` as `R` instantiates `Router`; `SameSteps` shows that a step of
  the one is a step of the other. By this theorem what is proved of `Client` holds of a client
  with a router.
- `NotForgottenAlways`, under the conditions of `NoAnswerLostAlways`, puts the others together: a
  request is somewhere (`SentOnce`), a received one is answered or owned
  (`NoneForgotten`), an answer exists once (`AnsweredOnce`), one that was carried was sent
  to the client (`FinalsCarried`), and what was sent is in the pipe (`NoAnswerLost`, with
  `WireSent` to tell an answer in the socket from a chunk that will be parsed as an error).

`QueueLemmas` holds what these need to know of `Count`, `For` and `SetToSeq` on sequences of any
length. A fact about all sequences is proved from the least length at which it would fail (`Least`, from
the library's `NatLessThanWellFounded`), since the induction theorems themselves are out of reach. `For`
is a recursive function because `SelectSeq` cannot be unfolded in a proof.

What the proofs corrected in the models: `Messages` assumed nowhere that an absent count
differs from one that is no integer; `CApi`'s type invariant did not say that `call` and `calls`
are functions on the threads; the bound on chunks in `Router` was one for all performs, which no
perform's answers could be bounded with, and is now one for each; and `System` needed its
constants' assumption, that `MaxReplies` leaves room for what `MaxChunks` allows.

Only model-checked: the liveness properties `TimedAnswered`, `AnswerReachesCallback`, both
`CloseTerminates`, `EventuallyAnswered`, `AnsweredWhileOpen` and `PerformFinishes` (liveness under
fairness is beyond this prover).

## What is not modelled

- Payloads, values and the text of errors, except that some cannot be serialised; the text
  of `zmqae_last_error` and the getters of the C API.
- Several client threads (the class is documented for one); several clients at one router:
  frames are told apart by the perform, not the identity.
- The move assignment of clients and routers (a `close()` and a move) and moves of clients,
  which nothing but the owner of the object can notice.
- `poll()` of a router from one of its handlers, handlers that replace themselves,
  registration from another thread during `poll()` (a data race), `set_parent` or
  `set_nested_endpoint` from a callback of the client it destroys (undefined behaviour with
  no outcome to name), the nested client's pointer in a context kept beyond its dispatch.
- A receive that yields fewer than two frames at the router; exceptions of libzmq.
- A restart: nothing is persisted, and a closed client or router stays closed.
- uuids (ids are distinct), the default context, the examples.
