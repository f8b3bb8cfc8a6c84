--------------------------- MODULE ConnectionProofs ---------------------------
(***************************************************************************)
(* Theorems about client_coro of the example server, for all streams a     *)
(* peer may send, every way they are cut into reads and every way the      *)
(* socket takes the response.  The steps of the two machines are those of  *)
(* their modules, and so are the invariants: what is added here is how the *)
(* coroutine relates them.                                                 *)
(***************************************************************************)
EXTENDS Connection, BytesLemmas, FiniteSetTheorems

\* The assumptions of the machines, as their theorems ask for them.
LEMMA Assumptions ==
    /\ Reader!StringsAssumption /\ Reader!HandlersAssumption /\ Reader!MachineAssumption
    /\ Writer!SerializeAssumption /\ Writer!MessagesAssumption
  BY StringsAssumption, ConnectionAssumption DEF Reader!StringsAssumption

\* A response is a message.
LEMMA ResponseIsSomething == \A r \in Responses : r # Nothing
  <1> SUFFICES ASSUME NEW r \in Responses PROVE r # Nothing
    OBVIOUS
  <1>1. "body" \in DOMAIN r
    BY DEF Responses
  <1>2. DOMAIN Nothing = {}
    BY DEF Nothing
  <1> QED BY <1>1, <1>2

-----------------------------------------------------------------------------
(* The inductive invariant. *)

\* maybe_request holds the last request that was delivered.
IsMessage(event) == event.kind = "message"

LatestMessage(i) ==
    /\ i \in DOMAIN delivered
    /\ IsMessage(delivered[i])
    /\ \A j \in DOMAIN delivered : j > i => ~ IsMessage(delivered[j])

RequestIsLatest ==
    \/ request = {} /\ \A i \in DOMAIN delivered : ~ IsMessage(delivered[i])
    \/ \E i : LatestMessage(i) /\ request = {delivered[i].message}

\* The deserializer is that of requests, and it runs only while the coroutine
\* waits for deserialize().
WhileReading ==
    /\ Reader!IInv
    /\ Reader!RequestInv
    /\ Reader!DeliveredIsList
    /\ \A i \in DOMAIN delivered : delivered[i].message.start_line.kind = "request"
    /\ RequestIsLatest
    /\ pc # "deserializing" => rPhase = "idle"
    /\ error # Reader!NoError => pc \in {"deserializing", "panicked"}

\* The serializer is there once a request was handled.
WhileAnswering ==
    IF response = Nothing
    THEN emitted = << >> /\ pc \in {"reading", "deserializing", "left", "panicked"}
    ELSE /\ pc \in {"writing", "answered", "left", "panicked"}
         /\ response \in Responses
         /\ request # {}
         /\ error = Reader!NoError
         /\ Writer!IInv
         /\ Writer!SmallInv
         /\ pc = "answered" => sPhase = "done"

CInv ==
    /\ WhileReading
    /\ WhileAnswering
    /\ pc = "panicked" => error # Reader!NoError \/ ioFailed

\* What the coroutine remembers of the events is not changed with them.
LEMMA HistoryKept ==
    ASSUME WhileReading, UNCHANGED << delivered, request >>
    PROVE  /\ Reader!DeliveredIsList'
           /\ \A i \in DOMAIN delivered' : delivered'[i].message.start_line.kind = "request"
           /\ RequestIsLatest'
  BY DEF WhileReading, Reader!DeliveredIsList, RequestIsLatest, LatestMessage

\* The deserializer keeps its invariants, whether it makes a step or not.
LEMMA ReaderStep ==
    ASSUME WhileReading, Reader!Next \/ UNCHANGED rVars
    PROVE  Reader!IInv' /\ Reader!RequestInv'
  <1>1. [Reader!Next]_(Reader!vars)
    BY DEF rVars, Reader!vars
  <1> QED BY <1>1, Assumptions, Reader!InductiveStep, Reader!RequestKept DEF WhileReading

\* So does the serializer.
LEMMA WriterStep ==
    ASSUME Writer!IInv, Writer!SmallInv, Writer!Next \/ UNCHANGED sVars
    PROVE  Writer!IInv' /\ Writer!SmallInv'
  <1>1. [Writer!Next]_(Writer!vars)
    BY DEF sVars, Writer!vars
  <1> QED BY <1>1, Assumptions, Writer!InductiveStep, Writer!SmallStep

\* The coroutine starts with nothing read and nothing to write.
LEMMA InitCInv == Init => CInv
  <1> SUFFICES ASSUME Init PROVE CInv
    OBVIOUS
  <1>1. /\ Reader!Init /\ pc = "reading" /\ request = {} /\ response = Nothing /\ emitted = << >>
    BY DEF Init
  <1>2. Reader!IInv /\ Reader!RequestInv
    BY <1>1, Assumptions, Reader!InitIInv, Reader!RequestStart
  <1>3. rPhase = "idle" /\ delivered = << >> /\ error = Reader!NoError
    BY <1>1 DEF Reader!Init
  <1>4. Reader!DeliveredIsList /\ DOMAIN delivered = {}
    <2>1. delivered \in Seq({}) /\ DOMAIN delivered = {}
      BY <1>3
    <2> QED BY <2>1 DEF Reader!DeliveredIsList
  <1>5. WhileReading
    BY <1>1, <1>2, <1>3, <1>4 DEF WhileReading, RequestIsLatest
  <1> QED BY <1>1, <1>5 DEF CInv, WhileAnswering

\* The read and the return of deserialize() leave the events as they are.
LEMMA ReadCInv ==
    ASSUME CInv, Read \/ ReadEnd \/ ReadFails \/ Refuse \/ ReadOn
    PROVE  CInv'
  <1>1. /\ pc \in {"reading", "deserializing"}
        /\ UNCHANGED << request, delivered, error, sVars >>
        /\ pc' \in {"reading", "deserializing", "left", "panicked"}
        /\ Reader!Next \/ UNCHANGED rVars
    BY DEF Read, ReadEnd, ReadFails, Refuse, ReadOn, Reader!Call, Reader!Next, rVars
  <1>2. WhileReading /\ WhileAnswering /\ response = Nothing /\ emitted = << >>
    BY <1>1 DEF CInv, WhileAnswering
  <1>3. Reader!IInv' /\ Reader!RequestInv'
    BY <1>1, <1>2, ReaderStep
  <1>4. /\ pc' # "deserializing" => rPhase' = "idle"
        /\ error' # Reader!NoError => pc' \in {"deserializing", "panicked"}
        /\ pc' = "panicked" => error' # Reader!NoError \/ ioFailed'
    BY <1>1, <1>2 DEF Read, ReadEnd, ReadFails, Refuse, ReadOn, rVars, WhileReading, Reader!NoError,
                      Reader!Call
  <1>5. WhileReading'
    BY <1>1, <1>2, <1>3, <1>4, HistoryKept DEF WhileReading
  <1>6. WhileAnswering'
    BY <1>1, <1>2 DEF WhileAnswering, sVars
  <1> QED BY <1>4, <1>5, <1>6 DEF CInv

\* Within deserialize() message_cb is called at most once a step.
LEMMA DeserializeCInv ==
    ASSUME CInv, Deserialize
    PROVE  CInv'
  <1>1. /\ pc = "deserializing" /\ pc' = pc /\ Reader!Running
        /\ request' = IF Len(delivered') > Len(delivered) /\ Last(delivered').kind = "message"
                      THEN {Last(delivered').message}
                      ELSE request
        /\ UNCHANGED << ioFailed, sVars >>
    BY DEF Deserialize
  <1>2. WhileReading /\ WhileAnswering /\ response = Nothing /\ emitted = << >>
    BY <1>1 DEF CInv, WhileAnswering
  <1>3. Reader!IInv' /\ Reader!RequestInv'
    BY <1>1, <1>2, ReaderStep DEF Reader!Next
  <1>4. /\ Reader!DeliveredIsList'
        /\ \A i \in DOMAIN delivered' : delivered'[i].message.start_line.kind = "request"
        /\ RequestIsLatest'
    <2>1. CASE delivered' = delivered
      <3>1. Len(delivered) \in Nat
        BY <1>2, LenProperties DEF WhileReading, Reader!DeliveredIsList
      <3>2. request' = request
        BY <1>1, <2>1, <3>1
      <3> QED BY <1>2, <2>1, <3>2, HistoryKept
    <2>2. CASE \E e : delivered' = delivered \o << e >> /\ e.message.start_line.kind = "request"
      <3>n. PICK n : n = Len(delivered)
        OBVIOUS
      <3>1. PICK e : delivered' = delivered \o << e >> /\ e.message.start_line.kind = "request"
        BY <2>2
      <3>2. /\ Reader!DeliveredIsList'
            /\ n \in Nat
            /\ DOMAIN delivered = 1 .. n
            /\ Len(delivered') = n + 1
            /\ DOMAIN delivered' = 1 .. n + 1
            /\ \A i \in 1 .. n : delivered'[i] = delivered[i]
            /\ delivered'[n + 1] = e
        BY <1>2, <3>n, <3>1, Assumptions, Reader!OneMoreEvent DEF WhileReading
      <3>3. \A i \in 1 .. n + 1 : i \in 1 .. n \/ i = n + 1
        BY <3>2
      <3>4. \A i \in DOMAIN delivered' : delivered'[i].message.start_line.kind = "request"
        BY <1>2, <3>1, <3>2, <3>3 DEF WhileReading
      <3>5. RequestIsLatest'
        <4>1. request' = IF e.kind = "message" THEN {e.message} ELSE request
          BY <1>1, <3>n, <3>2 DEF Last
        <4>2. CASE IsMessage(e)
          <5>1. LatestMessage(n + 1)'
            <6>1. n + 1 \in DOMAIN delivered' /\ \A j \in DOMAIN delivered' : ~ (j > n + 1)
              BY <3>2
            <6>2. IsMessage(delivered'[n + 1])
              BY <3>2, <4>2
            <6> QED BY <6>1, <6>2 DEF LatestMessage, IsMessage
          <5>2. request' = {delivered'[n + 1].message}
            BY <3>2, <4>1, <4>2 DEF IsMessage
          <5> QED BY <5>1, <5>2 DEF RequestIsLatest
        <4>3. CASE ~ IsMessage(e)
          <5>1. request' = request
            BY <4>1, <4>3 DEF IsMessage
          <5>2. CASE request = {} /\ \A i \in DOMAIN delivered : ~ IsMessage(delivered[i])
            BY <3>2, <3>3, <4>3, <5>1, <5>2 DEF RequestIsLatest
          <5>3. CASE \E i : LatestMessage(i) /\ request = {delivered[i].message}
            <6>1. PICK i : LatestMessage(i) /\ request = {delivered[i].message}
              BY <5>3
            <6>2. i \in 1 .. n + 1 /\ delivered'[i] = delivered[i]
              BY <3>2, <6>1 DEF LatestMessage
            <6>3. LatestMessage(i)'
              BY <3>2, <3>3, <4>3, <6>1, <6>2 DEF LatestMessage
            <6>4. request' = {delivered'[i].message}
              BY <5>1, <6>1, <6>2
            <6> QED BY <6>3, <6>4 DEF RequestIsLatest
          <5> QED BY <1>2, <5>2, <5>3 DEF WhileReading, RequestIsLatest
        <4> QED BY <4>2, <4>3
      <3> QED BY <3>2, <3>4, <3>5
    <2> QED BY <1>1, <1>2, <2>1, <2>2, Assumptions, Reader!RunningDelivers DEF WhileReading
  <1>5. WhileReading'
    BY <1>1, <1>3, <1>4 DEF WhileReading
  <1>6. WhileAnswering'
    BY <1>1, <1>2 DEF WhileAnswering, sVars
  <1> QED BY <1>1, <1>5, <1>6 DEF CInv

\* The response is made of the last request, and the serializer of it.
LEMMA HandleCInv ==
    ASSUME CInv, Handle
    PROVE  CInv'
  <1>1. /\ pc = "deserializing" /\ pc' = "writing" /\ rPhase = "idle" /\ error = Reader!NoError
        /\ request # {}
        /\ rRemainder' = Reader!EmptyBuffer /\ rState' = Reader!StartState
        /\ output' = Reader!StartMessage
        /\ response' \in Responses /\ Writer!Make
        /\ UNCHANGED << request, stream, fed, rPhase, input, delivered, error, emitted >>
    BY DEF Handle, Reader!NoError
  <1>2. WhileReading /\ response = Nothing /\ emitted = << >>
    BY <1>1 DEF CInv, WhileAnswering
  <1>3. Reader!IInv' /\ Reader!RequestInv'
    BY <1>1, <1>2, Assumptions, Reader!MadeAnew DEF WhileReading
  <1>4. WhileReading'
    BY <1>1, <1>2, <1>3, HistoryKept DEF WhileReading
  <1>5. Writer!IInv' /\ Writer!SmallInv'
    BY <1>1, <1>2, Assumptions, Writer!MadeAnew
  <1>6. WhileAnswering'
    BY <1>1, <1>2, <1>5, ResponseIsSomething DEF WhileAnswering
  <1> QED BY <1>1, <1>4, <1>6 DEF CInv

\* The response is written, and the deserializer is not called any more.
LEMMA WriteCInv ==
    ASSUME CInv, Write \/ WriteFails \/ Return
    PROVE  CInv'
  <1>1. /\ pc = "writing" /\ pc' \in {"writing", "answered", "left", "panicked"}
        /\ UNCHANGED << request, rVars, response >>
        /\ Writer!Next \/ UNCHANGED sVars
        /\ pc' = "panicked" => ioFailed'
        /\ pc' = "answered" => sPhase' = "done"
    BY DEF Write, WriteFails, Return, Writer!Next, Writer!Client, Writer!Resume, Writer!ResumeRemainder,
           Writer!ResumeComplete, Writer!ResumeBody, Writer!ResumeFill, Writer!Fill, Writer!Filled,
           Writer!SocketTakes, Writer!Stop, Writer!WriteFails, sVars
  <1>2. /\ WhileReading /\ response # Nothing /\ response \in Responses /\ request # {}
        /\ error = Reader!NoError /\ Writer!IInv /\ Writer!SmallInv
    BY <1>1 DEF CInv, WhileAnswering
  <1>3. Reader!IInv' /\ Reader!RequestInv'
    BY <1>1, <1>2, ReaderStep
  <1>4. WhileReading'
    BY <1>1, <1>2, <1>3, HistoryKept DEF WhileReading, rVars
  <1>5. Writer!IInv' /\ Writer!SmallInv'
    BY <1>1, <1>2, WriterStep
  <1>6. WhileAnswering'
    BY <1>1, <1>2, <1>5 DEF WhileAnswering, rVars
  <1> QED BY <1>1, <1>4, <1>6 DEF CInv

\* Every step keeps the invariant,
LEMMA InductiveStep == CInv /\ [Next]_vars => CInv'
  <1> SUFFICES ASSUME CInv, [Next]_vars PROVE CInv'
    OBVIOUS
  <1>1. CASE UNCHANGED vars
    <2>1. UNCHANGED << pc, closed, request, ioFailed, rVars, sVars >>
      BY <1>1 DEF vars
    <2>2. UNCHANGED << delivered, error, rPhase, response, emitted, sPhase >>
      BY <2>1 DEF rVars, sVars
    <2>3. WhileReading'
      BY <2>1, <2>2, ReaderStep, HistoryKept DEF CInv, WhileReading
    <2>4. WhileAnswering'
      BY <2>1, <2>2, WriterStep DEF CInv, WhileAnswering
    <2> QED BY <2>1, <2>2, <2>3, <2>4 DEF CInv
  <1> QED BY <1>1, ReadCInv, DeserializeCInv, HandleCInv, WriteCInv DEF Next, Progress

\* so that it holds throughout.
LEMMA CInvariant == Spec => []CInv
  BY InitCInv, InductiveStep, PTL DEF Spec

-----------------------------------------------------------------------------
(* Invariants. *)

\* What the coroutine hands from one function to the next is what that
\* function expects: requests from the deserializer, a response of handle()
\* to the serializer (00_http_v1_server.cpp lines 25, 82, 96 and 101).
THEOREM TypeCorrect == Spec => []TypeOK
  <1>1. CInv => TypeOK
    <2> SUFFICES ASSUME CInv PROVE TypeOK
      OBVIOUS
    <2>1. WhileReading /\ WhileAnswering
      BY DEF CInv
    <2>2. pc \in {"reading", "deserializing", "writing", "answered", "left", "panicked"}
      BY <2>1 DEF WhileAnswering
    <2>3. Cardinality(request) <= 1 /\ \A m \in request : m.start_line.kind = "request"
      <3>1. CASE request = {}
        BY <3>1, FS_EmptySet
      <3>2. CASE \E i : LatestMessage(i) /\ request = {delivered[i].message}
        <4>1. PICK i : LatestMessage(i) /\ request = {delivered[i].message}
          BY <3>2
        <4>2. delivered[i].message.start_line.kind = "request"
          BY <2>1, <4>1 DEF LatestMessage, WhileReading
        <4>3. Cardinality(request) = 1
          BY <4>1, FS_Singleton
        <4> QED BY <4>1, <4>2, <4>3
      <3> QED BY <2>1, <3>1, <3>2 DEF WhileReading, RequestIsLatest
    <2>4. pc = "reading" => rPhase = "idle" /\ input = << >>
      BY <2>1 DEF WhileReading, Reader!IInv
    <2>5. response \in Responses \cup {Nothing}
      BY <2>1 DEF WhileAnswering
    <2> QED BY <2>2, <2>3, <2>4, <2>5 DEF TypeOK
  <1> QED BY <1>1, CInvariant, PTL

\* The request that is handled is the last one the deserializer delivered
\* (00_http_v1_server.cpp lines 82, 87 and 104).
THEOREM LastRequestIsHandled == Spec => []LastRequestHandled
  <1>1. CInv => LastRequestHandled
    BY DEF CInv, WhileReading, WhileAnswering, RequestIsLatest, LatestMessage, IsMessage,
           LastRequestHandled
  <1> QED BY <1>1, CInvariant, PTL

\* An error status is answered by nothing but the end of the process, and the
\* process ends for no other reason than that or a failing socket
\* (00_http_v1_server.cpp lines 89 to 99 and 119 to 125).
THEOREM ErrorsEndTheProcess == Spec => []ErrorsArePanics
  <1>1. CInv => ErrorsArePanics
    BY DEF CInv, WhileReading, WhileAnswering, ErrorsArePanics, Reader!NoError
  <1> QED BY <1>1, CInvariant, PTL

-----------------------------------------------------------------------------
(* Refinement. *)

\* What OneAnswer sees of a connection whose response is being written.
LEMMA ServerHeard ==
    ASSUME CInv, response # Nothing
    PROVE  delivered # << >> /\ Writer!Whole(response) \in Answers
  <1>1. response \in Responses /\ \E i : LatestMessage(i)
    BY DEF CInv, WhileAnswering, WhileReading, RequestIsLatest
  <1>2. DOMAIN delivered # {}
    BY <1>1 DEF LatestMessage
  <1> QED BY <1>1, <1>2 DEF Answers

\* What the serializer offers continues the response.
LEMMA WriterOffers == Writer!IInv => Writer!SpanContinuesMessage
  BY Assumptions, Writer!OfferedIsPrefix

\* The socket takes the bytes that come next in the response.
LEMMA TakenContinues ==
    ASSUME CInv, pc = "writing", NEW n, Writer!SocketTakes(n)
    PROVE  /\ Len(emitted) < Len(emitted')
           /\ SubSeq(Writer!Whole(response), 1, Len(emitted')) = emitted'
           /\ SubSeq(emitted', 1, Len(emitted)) = emitted
  <1>1. /\ response # Nothing /\ Writer!IInv /\ Writer!SmallInv
    BY DEF CInv, WhileAnswering
  <1>2. /\ sPhase = "writing" /\ sPhase' = "calling" /\ n \in 1 .. Len(span) /\ response' = response
        /\ emitted' = emitted \o SubSeq(span, 1, n)
    BY DEF Writer!SocketTakes
  <1>3. /\ emitted \in Seq(Byte) /\ span \in Seq(Byte)
    BY <1>1 DEF Writer!IInv, Writer!Typed
  <1> DEFINE piece == SubSeq(span, 1, n)
  <1>4. piece \in Seq(Byte) /\ Len(piece) = n /\ n \in Nat \ {0}
    BY <1>2, <1>3, FrontProperties, LenProperties
  <1> HIDE DEF piece
  <1>5. /\ emitted' \in Seq(Byte) /\ Len(emitted') = Len(emitted) + n /\ Len(emitted) \in Nat
    BY <1>2, <1>3, <1>4, ConcatProperties, LenProperties DEF piece
  <1>6. IsPrefix(emitted, emitted')
    BY <1>2, <1>3, <1>4, PrefixOfConcat DEF piece
  <1>7. Writer!IInv'
    <2>1. Writer!Next
      BY <1>2 DEF Writer!Next, Writer!Client
    <2> QED BY <1>1, <2>1, WriterStep
  <1>8. Writer!SpanContinuesMessage'
    BY <1>7, WriterOffers, PTL
  <1>9. IsPrefix(emitted', Writer!Whole(response))
    BY <1>2, <1>8 DEF Writer!SpanContinuesMessage, Writer!Encoding, Writer!IsPrefix, IsPrefix
  <1>10. SubSeq(Writer!Whole(response), 1, Len(emitted')) = SubSeq(emitted', 1, Len(emitted'))
    BY <1>9 DEF IsPrefix
  <1>11. SubSeq(emitted', 1, Len(emitted')) = emitted' /\ SubSeq(emitted, 1, Len(emitted)) = emitted
    BY <1>3, <1>5, SubSeqFull
  <1>12. SubSeq(emitted', 1, Len(emitted)) = emitted
    BY <1>6, <1>11 DEF IsPrefix
  <1> QED BY <1>4, <1>5, <1>10, <1>11, <1>12

\* A connection that returns after its response has said all of it: the
\* response fits into the buffer.
LEMMA SaidAll ==
    ASSUME CInv, Return
    PROVE  emitted \in Answers
  <1>1. response \in Responses /\ Writer!SmallInv /\ sPhase = "done" /\ response # Nothing
    BY DEF CInv, WhileAnswering, Return
  <1>2. Len(Writer!Whole(response)) <= BufferSize
    BY <1>1, ConnectionAssumption
  <1>3. emitted = Writer!Whole(response)
    BY <1>1, <1>2 DEF Writer!SmallInv
  <1> QED BY <1>1, <1>3 DEF Answers

\* The coroutine hears requests once, says one whole response, never takes
\* back or repeats a byte of it, and is done only then: it implements
\* OneAnswer (00_http_v1_server.cpp lines 73 to 129).
THEOREM ConnectionIsOneAnswer == Spec => ImplementsOneAnswer
  <1> DEFINE heard == IF response = Nothing THEN << >> ELSE delivered
             outcome == IF Ended THEN pc ELSE "serving"
  <1>1. Init => Server!Init
    BY DEF Init, Server!Init, Ended
  <1>2. CInv /\ [Next]_vars => [Server!Next]_(Server!vars)
    <2> SUFFICES ASSUME CInv, [Next]_vars PROVE [Server!Next]_(Server!vars)
      OBVIOUS
    <2>1. CASE Read \/ ReadEnd \/ ReadOn \/ Deserialize
      <3>1. ~ Ended /\ ~ Ended' /\ response = Nothing /\ UNCHANGED << response, emitted >>
        BY <2>1 DEF Read, ReadEnd, ReadOn, Deserialize, Ended, sVars, CInv, WhileAnswering
      <3> QED BY <3>1 DEF Server!vars
    <2>2. CASE ReadFails \/ Refuse \/ WriteFails
      <3>1. ~ Ended /\ pc' \in {"left", "panicked"} /\ Ended' /\ UNCHANGED << response, emitted, delivered >>
        BY <2>2 DEF ReadFails, Refuse, WriteFails, Writer!WriteFails, Ended, sVars, rVars
      <3>2. Server!GiveUp /\ UNCHANGED << heard, emitted >>
        BY <3>1 DEF Server!GiveUp
      <3> QED BY <3>1, <3>2 DEF Server!Next
    <2>3. CASE Handle
      <3>1. /\ ~ Ended /\ ~ Ended' /\ response = Nothing /\ request # {} /\ response' \in Responses
            /\ UNCHANGED << delivered, emitted >>
        BY <2>3 DEF Handle, Ended, CInv, WhileAnswering
      <3>2. response' # Nothing /\ delivered # << >>
        <4>1. PICK i : LatestMessage(i)
          BY <3>1 DEF CInv, WhileReading, RequestIsLatest
        <4>2. DOMAIN delivered # {}
          BY <4>1 DEF LatestMessage
        <4> QED BY <3>1, <4>2, ResponseIsSomething
      <3>3. Server!Hear
        BY <3>1, <3>2 DEF Server!Hear
      <3> QED BY <3>1, <3>3 DEF Server!Next
    <2>4. CASE Write
      <3>1. ~ Ended /\ ~ Ended' /\ response # Nothing /\ response' = response /\ UNCHANGED << pc, delivered >>
        BY <2>4 DEF Write, Ended, CInv, WhileAnswering, rVars, Writer!Resume, Writer!ResumeRemainder,
                    Writer!ResumeComplete, Writer!ResumeBody, Writer!ResumeFill, Writer!Fill,
                    Writer!Filled, Writer!SocketTakes, Writer!Stop
      <3>2. CASE Writer!Resume \/ Writer!Stop
        <4>1. emitted' = emitted
          BY <3>2 DEF Writer!Resume, Writer!ResumeRemainder, Writer!ResumeComplete, Writer!ResumeBody,
                      Writer!ResumeFill, Writer!Fill, Writer!Filled, Writer!Stop
        <4> QED BY <3>1, <4>1 DEF Server!vars, Ended
      <3>3. CASE \E n : Writer!SocketTakes(n)
        <4>1. pc = "writing"
          BY <2>4 DEF Write
        <4>2. /\ Len(emitted) < Len(emitted')
              /\ SubSeq(Writer!Whole(response), 1, Len(emitted')) = emitted'
              /\ SubSeq(emitted', 1, Len(emitted)) = emitted
          BY <3>3, <4>1, TakenContinues
        <4>3. delivered # << >> /\ Writer!Whole(response) \in Answers
          BY <3>1, ServerHeard
        <4>4. Server!Say
          BY <3>1, <4>2, <4>3 DEF Server!Say, Ended
        <4> QED BY <3>1, <4>4 DEF Server!Next
      <3> QED BY <2>4, <3>2, <3>3 DEF Write
    <2>5. CASE Return
      <3>1. ~ Ended /\ pc' = "answered" /\ Ended' /\ UNCHANGED << response, emitted, delivered >>
        BY <2>5 DEF Return, Ended, sVars, rVars
      <3>2. Server!Answered /\ UNCHANGED << heard, emitted >>
        BY <2>5, <3>1, SaidAll DEF Server!Answered
      <3> QED BY <3>1, <3>2 DEF Server!Next
    <2>6. CASE UNCHANGED vars
      BY <2>6 DEF vars, rVars, sVars, Server!vars, Ended
    <2> QED BY <2>1, <2>2, <2>3, <2>4, <2>5, <2>6 DEF Next, Progress
  <1> QED BY <1>1, <1>2, CInvariant, PTL DEF Spec, ImplementsOneAnswer, Server!Spec
=============================================================================
