---------------------------- MODULE MessagesProofs ----------------------------
(***************************************************************************)
(* Proofs about Messages, for any identifiers and any numbers of frames    *)
(* that an int can hold.                                                   *)
(***************************************************************************)
EXTENDS Messages, TLAPS

-----------------------------------------------------------------------------
(* Counts that fit into an int survive the narrowing of get<int>().         *)

LEMMA NarrowKeeps == \A n \in Counts : n \in Nat /\ Narrow(n) = n
  <1> SUFFICES ASSUME NEW n \in Counts PROVE n \in Nat /\ Narrow(n) = n
    OBVIOUS
  <1>1. n \in Nat /\ IntRange \in Nat /\ 2 * n < IntRange /\ IntRange % 2 = 0
    BY ConstantsAssumption
  <1> DEFINE half == IntRange \div 2
  <1>2. half \in Nat /\ IntRange = 2 * half
    BY <1>1
  <1>3. n + half \in 0..(IntRange - 1)
    BY <1>1, <1>2
  <1> HIDE DEF half
  <1>4. \A x \in 0..(IntRange - 1) : x % IntRange = x
    BY <1>1
  <1>5. (n + half) % IntRange = n + half
    BY <1>3, <1>4
  <1>6. Narrow(n) = (n + half) - half
    BY <1>5 DEF Narrow, half
  <1> QED
    BY <1>1, <1>2, <1>6

(* What a serialiser wrote under "binary_frames" is read back, and a count  *)
(* beyond the limit is refused.                                             *)
LEMMA FramesRead ==
    ASSUME NEW n \in Counts \cup {0}, NEW h, h.frames = FramesKey(n)
    PROVE  FramesOK(h, n) <=> n <= Limit
  <1>1. n \in Nat
    BY NarrowKeeps
  <1>2. FramesKey(n) # NotInt
    BY <1>1, ConstantsAssumption DEF FramesKey
  <1>3. Declared(h) = n
    <2>1. CASE n > 0
      <3>1. n \in Counts /\ h.frames = n /\ n # Absent
        BY <1>1, <2>1, ConstantsAssumption DEF FramesKey
      <3> QED
        BY <3>1, NarrowKeeps DEF Declared
    <2>2. CASE n = 0
      BY <2>2 DEF FramesKey, Declared
    <2> QED
      BY <1>1, <2>1, <2>2
  <1> QED
    BY <1>1, <1>2, <1>3 DEF FramesOK, Limit

-----------------------------------------------------------------------------
(* What the parsers make of what the serialisers wrote.                     *)

PerformMessage(id, n) == [type |-> "perform", id |-> id, final |-> TRUE, bins |-> n]
ResumeMessage(id, final, n) == [type |-> "ok", id |-> id, final |-> final, bins |-> n]

LEMMA PerformParsed ==
    ASSUME NEW id \in Ids, NEW n \in Counts
    PROVE  ParsePerform(SerializePerform(PerformMessage(id, n)), n)
              = IF n <= Limit THEN PerformMessage(id, n) ELSE Rejected
  <1> DEFINE h == SerializePerform(PerformMessage(id, n))
  <1>1. /\ h.shape = "object" /\ h.id = id /\ h.effect /\ h.payload
        /\ h.frames = FramesKey(n)
    BY DEF SerializePerform, PerformMessage, Blank
  <1>2. id # Absent
    BY ConstantsAssumption
  <1> HIDE DEF h
  <1>3. FramesOK(h, n) <=> n <= Limit
    BY <1>1, FramesRead
  <1>4. ParsePerform(h, n) = IF n <= Limit THEN PerformMessage(id, n) ELSE Rejected
    BY <1>1, <1>2, <1>3 DEF ParsePerform, PerformMessage
  <1> QED
    BY <1>4 DEF h

LEMMA ResumeParsed ==
    ASSUME NEW id \in Ids, NEW final \in BOOLEAN, NEW n \in Counts
    PROVE  ParseIncoming(SerializeResume(ResumeMessage(id, final, n)), n)
              = IF n <= Limit THEN ResumeMessage(id, final, n) ELSE ErrorFor(id)
  <1> DEFINE h == SerializeResume(ResumeMessage(id, final, n))
  <1>1. /\ h.shape = "object" /\ h.id = id /\ ~h.error /\ h.value
        /\ h.final = FinalKey(final) /\ h.frames = FramesKey(n)
    BY DEF SerializeResume, ResumeMessage, Blank
  <1>2. id # Absent
    BY ConstantsAssumption
  <1> HIDE DEF h
  <1>3. FramesOK(h, n) <=> n <= Limit
    BY <1>1, FramesRead
  <1>4. (~Continues(h)) = final
    BY <1>1 DEF Continues, FinalKey
  <1>5. ParseIncoming(h, n)
           = IF n <= Limit THEN ResumeMessage(id, final, n) ELSE ErrorFor(id)
    <2>1. CASE n <= Limit
      <3>1. ParseIncoming(h, n)
               = [type |-> "ok", id |-> id, final |-> ~Continues(h), bins |-> n]
        BY <1>1, <1>2, <1>3, <2>1 DEF ParseIncoming
      <3>2. ParseIncoming(h, n) = ResumeMessage(id, final, n)
        BY <1>4, <3>1, Zenon DEF ResumeMessage
      <3> QED
        BY <2>1, <3>2
    <2>2. CASE ~(n <= Limit)
      BY <1>1, <1>2, <1>3, <2>2 DEF ParseIncoming
    <2> QED
      BY <2>1, <2>2
  <1> QED
    BY <1>5 DEF h

(* An error names the perform it is for, with or without an id to go by.    *)
LEMMA ErrorParsed ==
    ASSUME NEW id \in Ids \cup {Fallback}
    PROVE  ParseIncoming(SerializeError(id), 0) = ErrorFor(id)
  <1> DEFINE h == SerializeError(id)
  <1>1. h.shape = "object" /\ h.id = id /\ h.error
    BY DEF SerializeError, Blank
  <1>2. id = Absent => id = Fallback
    BY ConstantsAssumption
  <1> HIDE DEF h
  <1>3. ParseIncoming(h, 0) = ErrorFor(id)
    BY <1>1, <1>2 DEF ParseIncoming
  <1> QED
    BY <1>3 DEF h

-----------------------------------------------------------------------------
(* The exchange.  A message of ours is on the wire as it was serialised,    *)
(* and a handler has a perform with a client's id whoever sent it.          *)

(* What a router sends back: a resume, or an error under some id.           *)
Answers ==
    {ResumeMessage(id, final, n) : id \in Ids, final \in BOOLEAN, n \in Counts}
        \cup {ErrorFor(id) : id \in Ids \cup {Fallback}}

Serialized(m) == IF m.type = "ok" THEN SerializeResume(m) ELSE SerializeError(m.id)

MessagesInv ==
    /\ stage \in {"start", "toRouter", "handling", "refused", "toClient", "done",
                  "terminated"}
    /\ stage = "terminated" => ~Ours
    /\ stage = "start" => sent = Nothing
    /\ stage = "toRouter" /\ Ours =>
          \E id \in Ids, n \in Counts : /\ sent = PerformMessage(id, n)
                                        /\ header = SerializePerform(sent)
                                        /\ bins = n
    /\ stage = "toRouter" => header.id \in Ids \cup {Absent}
    /\ stage = "handling" => seen.id \in Ids /\ (Ours => seen = sent)
    /\ stage = "refused" /\ Ours => sent.bins > Limit /\ header.shape = "object"
    /\ stage \in {"toClient", "done"} /\ Ours =>
          sent \in Answers /\ header = Serialized(sent) /\ bins = sent.bins
    /\ stage = "done" => seen = ParseIncoming(header, bins)

LEMMA RouterReceivesOurs ==
    ASSUME NEW id \in Ids, NEW n \in Counts, sent = PerformMessage(id, n),
           header = SerializePerform(sent), bins = n
    PROVE  /\ ParsePerform(header, bins).type = "perform"
                 => ParsePerform(header, bins) = sent
           /\ ParsePerform(header, bins).type # "perform"
                 => /\ ParsePerform(header, bins).type = "rejected"
                    /\ sent.bins > Limit /\ header.shape = "object"
  <1>1. n \in Nat
    BY NarrowKeeps
  <1>2. ParsePerform(header, bins) = IF n <= Limit THEN PerformMessage(id, n) ELSE Rejected
    BY PerformParsed
  <1>3. header.shape = "object"
    BY DEF SerializePerform, Blank
  <1> QED
    BY <1>1, <1>2, <1>3 DEF PerformMessage, Rejected, Limit

LEMMA MessagesStep ==
    ASSUME MessagesInv, [Next]_vars
    PROVE  MessagesInv'
  <1> USE DEF MessagesInv, Ours
  <1>1. ASSUME NEW id \in Ids, NEW n \in Counts, Perform(id, n) PROVE MessagesInv'
    <2>1. /\ stage' = "toRouter" /\ sent' = PerformMessage(id, n)
          /\ header' = SerializePerform(sent') /\ bins' = n
      BY <1>1 DEF Perform, PerformMessage
    <2>2. header'.id = id
      BY <2>1 DEF SerializePerform, PerformMessage, Blank
    <2> QED
      BY <2>1, <2>2
  <1>2. CASE RouterReceives
    <2> DEFINE parsed == ParsePerform(header, bins)
    <2>1. /\ stage = "toRouter" /\ seen' = parsed
          /\ parsed.type = "perform" => stage' = "handling"
          /\ parsed.type = "rejected" => stage' = "refused"
          /\ stage' \in {"handling", "refused", "terminated"}
          /\ stage' = "handling" => parsed.type = "perform"
          /\ stage' = "refused" => parsed.type = "rejected"
          /\ UNCHANGED <<sent, header, bins>>
      BY <1>2 DEF RouterReceives
    <2>2. ASSUME Ours
          PROVE  /\ parsed.type = "perform" => parsed = sent
                 /\ parsed.type # "perform"
                       => /\ parsed.type = "rejected"
                          /\ sent.bins > Limit /\ header.shape = "object"
      <3>1. PICK id \in Ids, n \in Counts :
               /\ sent = PerformMessage(id, n) /\ header = SerializePerform(sent)
               /\ bins = n
        BY <2>1, <2>2
      <3> QED
        BY <3>1, RouterReceivesOurs
    <2>3. parsed.type = "perform" => parsed.id \in Ids
      BY <2>1 DEF ParsePerform, Rejected, Escaped
    <2> HIDE DEF parsed
    <2> QED
      BY <2>1, <2>2, <2>3
  <1>3. ASSUME NEW final \in BOOLEAN, NEW n \in Counts, Resume(final, n)
        PROVE  MessagesInv'
    <2>1. /\ stage = "handling" /\ stage' = "toClient"
          /\ sent' = ResumeMessage(seen.id, final, n)
          /\ header' = SerializeResume(sent') /\ bins' = n
      BY <1>3 DEF Resume, ResumeMessage
    <2>2. /\ sent' \in Answers /\ sent'.type = "ok" /\ sent'.bins = n
      BY <2>1 DEF Answers, ResumeMessage
    <2> QED
      BY <2>1, <2>2 DEF Serialized
  <1>4. CASE Error \/ Refuse
    <2>1. PICK id \in Ids \cup {Fallback} :
             /\ stage' = "toClient" /\ sent' = ErrorFor(id)
             /\ header' = SerializeError(id) /\ bins' = 0
      BY <1>4 DEF Error, Refuse
    <2>2. sent' \in Answers
      BY <2>1 DEF Answers
    <2>3. sent'.type = "error" /\ sent'.id = id /\ sent'.bins = 0
      BY <2>1 DEF ErrorFor
    <2> QED
      BY <2>1, <2>2, <2>3 DEF Serialized
  <1>5. CASE ClientReceives
    <2>1. ASSUME Ours PROVE seen'.type # "escaped"
      <3>1. sent \in Answers /\ header = Serialized(sent)
        BY <1>5, <2>1 DEF ClientReceives
      <3>2. header.shape = "object"
        BY <3>1 DEF Serialized, SerializeResume, SerializeError, Blank
      <3>3. seen' = ParseIncoming(header, bins)
        BY <1>5 DEF ClientReceives
      <3> QED
        BY <3>2, <3>3 DEF ParseIncoming, ErrorFor
    <2>2. /\ stage = "toClient" /\ UNCHANGED <<sent, header, bins>>
          /\ seen' = ParseIncoming(header, bins)
          /\ stage' \in {"done", "terminated"}
          /\ stage' = "terminated" => seen'.type = "escaped"
      BY <1>5 DEF ClientReceives
    <2> QED
      BY <2>1, <2>2
  <1>8. CASE RefuseFails
    BY <1>8 DEF RefuseFails
  <1>6. ASSUME NEW to \in {"toRouter", "toClient"}, NEW h \in Headers,
               NEW n \in Counts, Foreign(to, h, n)
        PROVE  MessagesInv'
    <2>1. stage' = to /\ sent'.type = "foreign" /\ header' = h
      BY <1>6 DEF Foreign, Nothing
    <2>2. h.id \in Ids \cup {Absent}
      BY DEF Headers
    <2> QED
      BY <2>1, <2>2
  <1>7. CASE UNCHANGED vars
    BY <1>7 DEF vars
  <1> QED
    BY <1>1, <1>2, <1>3, <1>4, <1>5, <1>6, <1>7, <1>8 DEF Next

LEMMA MessagesInvAlways == Spec => []MessagesInv
  <1>1. Init => MessagesInv
    BY DEF Init, MessagesInv
  <1>2. MessagesInv /\ [Next]_vars => MessagesInv'
    BY MessagesStep
  <1> QED
    BY <1>1, <1>2, PTL DEF Spec

-----------------------------------------------------------------------------
(* At the end of an exchange the client has what the router's answer says.  *)
LEMMA AnswerParsed ==
    ASSUME MessagesInv, Ours, Answer
    PROVE  \/ sent.bins <= Limit /\ seen = sent
           \/ sent.type = "ok" /\ ~(sent.bins <= Limit) /\ seen = ErrorFor(sent.id)
  <1>1. /\ sent \in Answers /\ bins = sent.bins
        /\ seen = ParseIncoming(Serialized(sent), bins)
    BY DEF MessagesInv, Answer
  <1>2. ASSUME NEW id \in Ids, NEW final \in BOOLEAN, NEW n \in Counts,
               sent = ResumeMessage(id, final, n)
        PROVE  \/ sent.bins <= Limit /\ seen = sent
               \/ sent.type = "ok" /\ ~(sent.bins <= Limit) /\ seen = ErrorFor(sent.id)
    <2>1. sent.type = "ok" /\ sent.bins = n /\ sent.id = id
      BY <1>2 DEF ResumeMessage
    <2>2. seen = IF n <= Limit THEN sent ELSE ErrorFor(id)
      BY <1>1, <1>2, <2>1, ResumeParsed DEF Serialized
    <2> QED
      BY <2>1, <2>2
  <1>3. ASSUME NEW id \in Ids \cup {Fallback}, sent = ErrorFor(id)
        PROVE  sent.bins <= Limit /\ seen = sent
    <2>1. sent.type = "error" /\ sent.bins = 0 /\ sent.id = id
      BY <1>3 DEF ErrorFor
    <2>2. seen = ErrorFor(id)
      BY <1>1, <2>1, ErrorParsed DEF Serialized
    <2> QED
      BY <1>3, <2>1, <2>2 DEF Limit
  <1> QED
    BY <1>1, <1>2, <1>3 DEF Answers

(* Whatever a handler sends within the limit reaches the callback as it was *)
(* meant, and a perform within it reaches its handler.                      *)
THEOREM RoundTripAlways == Spec => []RoundTrip
  <1>1. MessagesInv => RoundTrip
    BY AnswerParsed DEF RoundTrip, MessagesInv
  <1> QED
    BY <1>1, MessagesInvAlways, PTL

(* A resume beyond the limit becomes a final error for its own perform.     *)
THEOREM LongResumeEndsAlways == Spec => []LongResumeEnds
  <1>1. ASSUME MessagesInv, Ours, Answer, sent.type = "ok", sent.bins > Limit
        PROVE  seen = ErrorFor(sent.id)
    <2>1. sent.bins \in Nat
      BY <1>1, NarrowKeeps DEF MessagesInv, Answer, Answers, ResumeMessage, ErrorFor
    <2> QED
      BY <1>1, <2>1, AnswerParsed DEF Limit
  <1>2. MessagesInv => LongResumeEnds
    BY <1>1 DEF LongResumeEnds
  <1> QED
    BY <1>2, MessagesInvAlways, PTL
=============================================================================
