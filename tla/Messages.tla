------------------------------ MODULE Messages ------------------------------
(***************************************************************************)
(* The wire format of include/zmqae/detail/message.hpp: a perform goes     *)
(* from a client to a router and a resume or an error comes back, each     *)
(* serialised by one side and parsed by the other.  Either side may also   *)
(* be sent a header this library did not write.                            *)
(*                                                                         *)
(* A header is the record of what the parsers ask about its JSON: the      *)
(* presence and the type of each key, the id, and the declared number of   *)
(* binary frames.  Payloads, values and texts are left out, but for two    *)
(* that end the process which receives them: the parsers catch             *)
(* json::parse_error and nothing else, and both run on a ZMQ thread.       *)
(***************************************************************************)
EXTENDS Integers

CONSTANTS
    Ids,             \* ids that clients generate
    Fallback,        \* an id generated for a message that has none
    Absent, NotInt,  \* binary_frames is not in the header, or not an integer
    IntRange,        \* 2^32 for the int the count is narrowed to
    Counts,          \* bound: how many binary frames a message may carry
    ForeignCounts    \* the counts that foreign headers declare

Limit == 8           \* binary frames the protocol allows

ASSUME ConstantsAssumption ==
    /\ Fallback \notin Ids /\ Absent \notin Ids
    /\ Absent \notin Int /\ NotInt \notin Int /\ Absent # NotInt
    /\ IntRange \in Nat /\ IntRange % 2 = 0
    /\ Counts \subseteq Nat /\ \A n \in Counts : 2 * n < IntRange
    /\ ForeignCounts \subseteq Int

VARIABLES
    stage,           \* where the exchange is
    sent,            \* what the last sender meant
    header, bins,    \* the message on the wire
    seen             \* what the last parser made of it

vars == <<stage, sent, header, bins, seen>>

(* "other" is JSON that is no object, or no JSON; "bytes" is no JSON and    *)
(* not UTF-8 either; "range" has a number that no double can hold.          *)
Shapes == {"object", "other", "bytes", "range"}

Headers ==
    [shape   : Shapes,
     id      : Ids \cup {Absent},                \* Absent: no id that is a string
     error   : BOOLEAN,                          \* the key is there, whatever its type
     value   : BOOLEAN,
     final   : {"absent", "true", "false", "other"},
     effect  : BOOLEAN,                          \* there and a string
     payload : BOOLEAN,
     frames  : ForeignCounts \cup Counts \cup {Absent, NotInt}]

-----------------------------------------------------------------------------
(* Serialisation.                                                           *)

Blank(id) == [shape |-> "object", id |-> id, error |-> FALSE, value |-> FALSE,
              final |-> "absent", effect |-> FALSE, payload |-> FALSE,
              frames |-> Absent]

FramesKey(n) == IF n > 0 THEN n ELSE Absent

SerializePerform(m) ==
    [Blank(m.id) EXCEPT !.effect = TRUE, !.payload = TRUE,
                        !.frames = FramesKey(m.bins)]

FinalKey_Swapped(final) == IF final THEN "false" ELSE "absent" \* mutant: inverted
FinalKey(final) == IF final THEN "absent" ELSE "false"

SerializeResume(m) ==
    [Blank(m.id) EXCEPT !.value = TRUE, !.final = FinalKey(m.final),
                        !.frames = FramesKey(m.bins)]

SerializeError(id) == [Blank(id) EXCEPT !.error = TRUE]

-----------------------------------------------------------------------------
(* Parsing.  get<int>() keeps the low 32 bits of the declared count.        *)

Narrow(n) == ((n + IntRange \div 2) % IntRange) - IntRange \div 2

Declared(h) == IF h.frames = Absent THEN 0 ELSE Narrow(h.frames)

FramesOK_OffByOne(h, n) == /\ h.frames # NotInt        \* mutant: 8 is too many
                           /\ Declared(h) \in 0..(Limit - 1)
                           /\ n = Declared(h)
FramesOK_Unlimited(h, n) == /\ h.frames # NotInt       \* mutant: no limit
                            /\ n = Declared(h)
FramesOK(h, n) == /\ h.frames # NotInt
                  /\ Declared(h) \in 0..Limit
                  /\ n = Declared(h)

Rejected == [type |-> "rejected", id |-> Fallback, final |-> TRUE, bins |-> 0]

(* json::out_of_range is no parse_error: it leaves the parser.              *)
Escaped == [type |-> "escaped", id |-> Fallback, final |-> TRUE, bins |-> 0]

ParsePerform(h, n) ==
    IF h.shape = "range" THEN Escaped
    ELSE IF /\ h.shape = "object"
            /\ h.id # Absent
            /\ h.effect
            /\ h.payload
            /\ FramesOK(h, n)
    THEN [type |-> "perform", id |-> h.id, final |-> TRUE, bins |-> n]
    ELSE Rejected

ErrorFor(id) == [type |-> "error", id |-> id, final |-> TRUE, bins |-> 0]

Continues(h) == h.final = "false"

(* error before value before anything else; a header without a usable id    *)
(* becomes an error nobody waits for.                                       *)
ParseIncoming(h, n) ==
    IF h.shape = "range" THEN Escaped
    ELSE IF h.shape # "object" \/ h.id = Absent THEN ErrorFor(Fallback)
    ELSE IF ~h.error /\ h.value /\ FramesOK(h, n)
    THEN [type |-> "ok", id |-> h.id, final |-> ~Continues(h), bins |-> n]
    ELSE ErrorFor(h.id)

-----------------------------------------------------------------------------
(* One exchange, or one foreign message.  An exception that leaves a parser *)
(* or a serialiser leaves the ZMQ thread: the process is terminated.        *)

Nothing == [type |-> "nothing", id |-> Fallback, final |-> TRUE, bins |-> 0]

Init ==
    /\ stage = "start"
    /\ sent = Nothing /\ seen = Nothing
    /\ header = Blank(Absent) /\ bins = 0

Perform(id, n) ==
    /\ stage = "start"
    /\ stage'  = "toRouter"
    /\ sent'   = [type |-> "perform", id |-> id, final |-> TRUE, bins |-> n]
    /\ header' = SerializePerform(sent')
    /\ bins'   = n
    /\ UNCHANGED seen

RouterReceives ==
    /\ stage = "toRouter"
    /\ seen'  = ParsePerform(header, bins)
    /\ stage' = CASE seen'.type = "perform"  -> "handling"
                  [] seen'.type = "rejected" -> "refused"
                  [] OTHER                   -> "terminated"
    /\ UNCHANGED <<sent, header, bins>>

Resume(final, n) ==
    /\ stage = "handling"
    /\ stage'  = "toClient"
    /\ sent'   = [type |-> "ok", id |-> seen.id, final |-> final, bins |-> n]
    /\ header' = SerializeResume(sent')
    /\ bins'   = n
    /\ UNCHANGED seen

Error ==
    /\ stage = "handling"
    /\ stage'  = "toClient"
    /\ sent'   = ErrorFor(seen.id)
    /\ header' = SerializeError(seen.id)
    /\ bins'   = 0
    /\ UNCHANGED seen

(* The router answers a message it cannot parse under an id of its own.     *)
Refuse ==
    /\ stage = "refused"
    /\ header.shape # "bytes"
    /\ stage'  = "toClient"
    /\ sent'   = ErrorFor(Fallback)
    /\ header' = SerializeError(Fallback)
    /\ bins'   = 0
    /\ UNCHANGED seen

(* The parser's text quotes the bytes it stopped at, and dump() rejects     *)
(* what is not UTF-8: serialize_error() throws.                             *)
RefuseFails ==
    /\ stage = "refused"
    /\ header.shape = "bytes"
    /\ stage' = "terminated"
    /\ UNCHANGED <<sent, header, bins, seen>>

ClientReceives ==
    /\ stage = "toClient"
    /\ seen'  = ParseIncoming(header, bins)
    /\ stage' = IF seen'.type = "escaped" THEN "terminated" ELSE "done"
    /\ UNCHANGED <<sent, header, bins>>

Foreign(to, h, n) ==
    /\ stage'  = to
    /\ sent'   = [Nothing EXCEPT !.type = "foreign"]
    /\ header' = h
    /\ bins'   = n
    /\ UNCHANGED seen

Next ==
    \/ \E id \in Ids, n \in Counts : Perform(id, n)
    \/ RouterReceives
    \/ \E final \in BOOLEAN, n \in Counts : Resume(final, n)
    \/ Error
    \/ Refuse \/ RefuseFails
    \/ ClientReceives
    \/ /\ stage = "start"
       /\ \E to \in {"toRouter", "toClient"}, h \in Headers, n \in Counts :
             Foreign(to, h, n)

Spec == Init /\ [][Next]_vars
-----------------------------------------------------------------------------
(* Properties.                                                              *)

Ours    == sent.type # "foreign"
Answer  == stage = "done"

(* What one side sends the other understands: a perform within the limit    *)
(* reaches its handler, and what the handler sends reaches the callback as  *)
(* it was meant, chunk or final, with its frames.  No message of ours ends  *)
(* the process that receives it.                                            *)
RoundTrip ==
    /\ Ours => stage # "terminated"
    /\ Ours /\ Answer /\ sent.bins <= Limit => seen = sent
    /\ Ours /\ stage = "handling" => seen = sent
    /\ Ours /\ stage = "refused" => sent.bins > Limit

(* A resume with more frames than the limit still ends its own perform: it  *)
(* becomes an error, final, for the same id, even when it was a chunk.      *)
LongResumeEnds ==
    Ours /\ Answer /\ sent.type = "ok" /\ sent.bins > Limit
        => seen = ErrorFor(sent.id)
=============================================================================
