------------------------------- MODULE EndToEnd -------------------------------
(***************************************************************************)
(* A serialize_machine per message on one end of a connection and one      *)
(* deserialize_machine on the other: the spans the one returns are the     *)
(* segments of the other, cut anywhere.  Both ends keep their own types:   *)
(* the fields of a message are a sequence, in the order the map iterates   *)
(* over them, where it is written and a function where it is read.         *)
(*                                                                         *)
(* The ends do not share memory, so that their steps commute as long as    *)
(* the bytes are there: the sender moves while no call of deserialize()    *)
(* runs, and the receiver calls while the sender waits for the socket.     *)
(***************************************************************************)
EXTENDS MessageTypes

CONSTANTS Scripts,      \* the sequences of messages to send, if they are sendable
          TargetOf,     \* the targets of their requests, by name
          CharOf, AlphaNum,
          BufferSize, EmptySpansAtEnd,
          MaxBodySize, MaxFieldSize, MaxReasonSize, MaxTargetSize

VARIABLES
    script, current,                                            \* the sender's messages
    sRemainder, sState, sPhase, written, span, empties, emitted,  \* its machine
    earlier,                                                    \* the bytes of former ones
    fed, rPhase, input, rRemainder, rState, output, delivered, error  \* the receiver

sVars == << script, current, sRemainder, sState, sPhase, written, span, empties, emitted, earlier >>
rVars == << fed, rPhase, input, rRemainder, rState, output, delivered, error >>
vars == << sVars, rVars >>

Messages == UNION {ToSet(s) : s \in Scripts}

\* What the ends are made of is taken with its theorems, for those about both.
Relay == INSTANCE TargetProofs
         WITH Texts <- {}, AppTargets <- Range(TargetOf),
              at <- "target", text <- << >>, target <- {}, written <- {}

\* A target is known by its name, also where it is read.
TargetToStr == [name \in DOMAIN TargetOf |-> Relay!SerializeTarget(TargetOf[name])]
TargetFromStr == [str \in Range(TargetToStr) |->
                     CHOOSE name \in DOMAIN TargetOf :
                         TargetOf[name] \in Relay!DeserializeTarget(str)]

Sender == INSTANCE SerializeProofs
          WITH message <- script[current], remainder <- sRemainder, state <- sState,
               phase <- sPhase

\* All bytes sent.
wire == earlier \o emitted

\* What a machine was made for decides how it starts, and nothing else.
Receiver == INSTANCE DeserializeProofs
            WITH IsRequest <- TRUE, ChunkSizeModulus <- 16, MaxChunkSizeSize <- 1,
                 MaxChunkLineSize <- 1, Streams <- Seq(Byte), stream <- wire,
                 phase <- rPhase, remainder <- rRemainder, state <- rState

-----------------------------------------------------------------------------
\* The fields as the deserializer keeps them: names in lowercase, values trimmed
\* and joined.
ArrivingFields(fields) ==
    LET first[n \in 0 .. Len(fields)] ==
            IF n = 0 THEN << >>
            ELSE Receiver!AddField(first[n - 1], Receiver!ToLowercase(fields[n].key),
                                   Receiver!StripWs(fields[n].value))
    IN  first[Len(fields)]

\* The message as the other side knows it.
Arriving(m) == [start_line |-> m.start_line, fields |-> ArrivingFields(m.fields), body |-> m.body]

\* The symbols that end the parts of a head do not occur in them.
Clean(str, ends) == ToSet(str) \cap ends = {}

CleanFields(m) ==
    \A i \in DOMAIN m.fields : /\ Clean(m.fields[i].key, {":", "CR", "LF"})
                               /\ Clean(m.fields[i].value, {"CR", "LF"})

\* The length of the body is announced.
LengthAnnounced(m) ==
    LET fields == ArrivingFields(m.fields)
    IN  /\ Receiver!TransferEncoding \notin DOMAIN fields
        /\ IF Receiver!ContentLength \in DOMAIN fields
           THEN fields[Receiver!ContentLength] = Decimal[Len(m.body)]
           ELSE m.body = << >>

\* The receiver's limits admit the message.
WithinLimits(m) ==
    /\ m.start_line.kind = "request" => Len(TargetToStr[m.start_line.target]) <= MaxTargetSize
    /\ m.start_line.kind = "response" => Len(m.start_line.reason) <= MaxReasonSize
    /\ Len(FlattenSeq(Sender!FieldLines(m))) <= MaxFieldSize
    /\ Len(m.body) <= MaxBodySize

\* The messages that can be told apart on the wire and that verify() lets
\* through.
Sendable(m) ==
    /\ Sender!Verify(m)
    /\ m.start_line.kind = "response" => m.start_line.status \in StatusCodes
    /\ CleanFields(m)
    /\ LengthAnnounced(m)
    /\ WithinLimits(m)

IsRequest(m) == m.start_line.kind = "request"

StartLines ==
    [kind : {"request"}, method : Methods, target : DOMAIN TargetOf, version : Versions]
      \cup [kind : {"response"}, version : Versions, status : StatusType, reason : Seq(Byte)]

\* The machines are made as their modules assume.  The client goes on after one
\* empty span.  After a response the receiver expects a request, so that a
\* connection has one response or any number of requests.  A target has one name,
\* and its host or authority, which is written as it is, ends no token.
ASSUME EndToEndAssumption ==
    /\ Receiver!HandlersAssumption
    /\ Sender!SerializeAssumption
    /\ Sender!MessagesAssumption
    /\ Relay!TargetsAssumption
    /\ Relay!RelayAssumption
    /\ EmptySpansAtEnd = {2}
    /\ \A s \in Scripts : /\ s \in Seq(Messages)
                          /\ s # << >>
                          /\ Len(s) = 1 \/ \A i \in DOMAIN s : IsRequest(s[i])
    /\ \A m \in Messages : /\ m = [start_line |-> m.start_line, fields |-> m.fields, body |-> m.body]
                           /\ m.start_line \in StartLines
    /\ \A a, b \in DOMAIN TargetOf : TargetOf[a] = TargetOf[b] => a = b
    /\ \A t \in Range(TargetOf) : Clean(Relay!Verbatim(t), {" ", "CR", "LF"})

-----------------------------------------------------------------------------
Init == /\ script \in {s \in Scripts : \A i \in DOMAIN s : Sendable(s[i])}
        /\ current = 1
        /\ Sender!Fresh
        /\ emitted = << >>
        /\ earlier = << >>
        /\ fed = 0
        /\ rPhase = "idle"
        /\ input = << >>
        /\ rRemainder = Receiver!EmptyBuffer
        /\ rState = Receiver!StartStateFor(IsRequest(script[1]))
        /\ output = Receiver!StartMessageFor(IsRequest(script[1]))
        /\ delivered = << >>
        /\ error = "NO_ERROR"

\* The sender's machine runs, or the socket takes half or all of a span.
Send == /\ rPhase = "idle"
        /\ UNCHANGED << script, current, earlier, rVars >>
        /\ \/ Sender!Resume
           \/ Sender!CallAgain
           \/ Sender!Stop
           \/ \E n \in {(Len(span) + 1) \div 2, Len(span)} : Sender!SocketTakes(n)

Lose == /\ rPhase = "idle"
        /\ UNCHANGED << script, current, earlier, rVars >>
        /\ Sender!WriteFails

\* The next message gets a machine of its own.
SendNext == /\ rPhase = "idle"
            /\ sPhase = "done"
            /\ current < Len(script)
            /\ current' = current + 1
            /\ earlier' = wire
            /\ emitted' = << >>
            /\ UNCHANGED << script, rVars >>
            /\ Sender!Make

\* One byte or all that is there is read.
Receive == /\ sPhase \notin {"calling", "filling"}
           /\ UNCHANGED sVars
           /\ fed < Len(wire)
           /\ \E n \in {1, Len(wire) - fed} : Receiver!Call(n)

Parse == /\ UNCHANGED sVars
         /\ Receiver!Running

Next == Send \/ Lose \/ SendNext \/ Receive \/ Parse

Spec == Init /\ [][Next]_vars

CanSend == /\ rPhase = "idle"
           /\ sPhase \in {"calling", "filling", "writing"} \/ (sPhase = "done" /\ current < Len(script))

CanReceive == \/ rPhase # "idle"
              \/ sPhase \notin {"calling", "filling"} /\ error = "NO_ERROR" /\ fed < Len(wire)

\* The programs run, writes end, and what was sent arrives: WF_vars(Next) with
\* ENABLED spelled out.  Which of the two ends moves is left open.
FairSpec == Spec /\ ([]<>(~ CanSend /\ ~ CanReceive) \/ []<><< Next >>_vars)

-----------------------------------------------------------------------------
\* The status, limit or start line of no message is refused on arrival,
\* wherever the stream is cut, and also when it breaks off (the enumerations
\* and conversions of both sides agree with one another).
NeverRefused == error = "NO_ERROR"

Channel == INSTANCE MessageChannel
           WITH script <- [i \in DOMAIN script |-> Arriving(script[i])],
                received <- [i \in DOMAIN delivered |-> delivered[i].message],
                lost <- sPhase = "lost"

\* The two machines are a channel of messages: no cut of the stream merges,
\* splits, alters or invents one.
ImplementsMessageChannel == Channel!Spec

\* Unless the connection is lost, every message arrives: none waits in either
\* machine for bytes that are already there.
EverythingArrives == <>(sPhase = "lost" \/ Len(delivered) = Len(script))
=============================================================================
