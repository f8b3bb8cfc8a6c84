--------------------------- MODULE SerializeMachine ---------------------------
(***************************************************************************)
(* detail::serialize_machine (src/v1/serialize/message.cpp) and the loop   *)
(* of the code that drains it.  resume(written) tells the machine how much *)
(* of the span it returned last was written, and returns the bytes to      *)
(* write next.  The socket may take any part of a span.                    *)
(*                                                                         *)
(*   phase "calling"   resume(written) is about to run                     *)
(*         "filling"   its loop over the states (lines 38 to 47)           *)
(*         "writing"   it returned span                                    *)
(*         "done"      the client took an empty span for the end           *)
(*         "lost"      a write failed, the client gave up                  *)
(***************************************************************************)
EXTENDS Integers, RemainderBuffer, SequencesExt

CONSTANTS
    Byte,
    Messages,      \* the messages to serialize
    BufferSize,    \* serialize_config::buffer_size
    MethodToStr,   \* enum_to_str
    VersionToStr,
    StatusToStr,
    TargetToStr,   \* serialize(target)
    EmptySpansAtEnd  \* how many empty spans in a row a client takes for the
                     \* end: 1 in the example and the tests

ASSUME SerializeAssumption ==
    /\ BufferSize \in Nat \ {0}
    /\ EmptySpansAtEnd \subseteq {1, 2}
    /\ EmptySpansAtEnd # {}

VARIABLES
    message,    \* message_
    remainder,  \* remainder_
    state,      \* state_
    phase,
    written,    \* the argument of the next resume()
    span,       \* the span that resume() returned
    empties,    \* the empty spans in a row
    emitted     \* the bytes the socket took

vars == << message, remainder, state, phase, written, span, empties, emitted >>

-----------------------------------------------------------------------------
CRLF == << "CR", "LF" >>

StartLine(line) ==
    IF line.kind = "request"
    THEN MethodToStr[line.method] \o << " " >> \o TargetToStr[line.target]
           \o << " " >> \o VersionToStr[line.version] \o CRLF
    ELSE VersionToStr[line.version] \o << " " >> \o StatusToStr[line.status]
           \o << " " >> \o line.reason \o CRLF

FieldLine(field) == field.key \o << ":" >> \o field.value \o CRLF

\* The fields of a message are given in the order the map iterates over them.
FieldLines(m) == [i \in DOMAIN m.fields |-> FieldLine(m.fields[i])]

\* Names, values, targets and bodies are bytes.
ASSUME MessagesAssumption ==
    /\ {"CR", "LF", ":"} \subseteq Byte
    /\ \A m \in Messages : /\ StartLine(m.start_line) \in Seq(Byte)
                          /\ m.fields \in Seq([key : Seq(Byte), value : Seq(Byte)])
                          /\ m.body \in Seq(Byte)

Simple(at) == [at |-> at]
Fields(it) == [at |-> "fields", it |-> it]
Body(offset) == [at |-> "body", offset |-> offset]

Smaller(a, b) == IF a <= b THEN a ELSE b

\* A machine made by make_serialize that was not called yet.
Fresh == /\ remainder = EmptyBuffer
         /\ state = Simple("start_line")
         /\ phase = "calling"
         /\ written = 0
         /\ span = << >>
         /\ empties = 0

Init == /\ message \in Messages
        /\ Fresh
        /\ emitted = << >>

\* make_serialize for another message, for the modules that compose machines.
Make == /\ remainder' = EmptyBuffer
        /\ state' = Simple("start_line")
        /\ phase' = "calling"
        /\ written' = 0
        /\ span' = << >>
        /\ empties' = 0

\* A form of verify that lets every message through.
VerifyNothing(m) == TRUE

\* verify(message), for the caller of make_serialize to use.
Verify(m) == m.start_line.kind = "response" => {"CR", "LF"} \cap ToSet(m.start_line.reason) = {}

-----------------------------------------------------------------------------
(* resume(written) *)

Return(bytes) ==
    /\ span' = bytes
    /\ phase' = "writing"
    /\ empties' = IF bytes = << >> THEN empties + 1 ELSE 0

\* A form that looks at the remainder before it consumes what was written.
ResumeRemainderStale ==
    /\ phase = "calling"
    /\ View(remainder) # << >>
    /\ remainder' = Advanced(remainder, written)
    /\ Return(View(remainder))
    /\ UNCHANGED << message, state, written, emitted >>

\* Part of the remainder is still to be written.  When this call completes it
\* the span is empty, whatever is left of the message.
ResumeRemainder ==
    /\ phase = "calling"
    /\ View(remainder) # << >>
    /\ remainder' = Advanced(remainder, written)
    /\ Return(View(remainder'))
    /\ UNCHANGED << message, state, written, emitted >>

ResumeComplete ==
    /\ phase = "calling"
    /\ View(remainder) = << >>
    /\ state.at = "complete"
    /\ Return(<< >>)
    /\ UNCHANGED << message, remainder, state, written, emitted >>

\* A form that offers the body from the offset before the last write.
ResumeBodyStale ==
    /\ phase = "calling"
    /\ View(remainder) = << >>
    /\ state.at = "body"
    /\ state' = Body(state.offset + written)
    /\ Return(SubSeq(message.body, state.offset + 1, Len(message.body)))
    /\ UNCHANGED << message, remainder, written, emitted >>

\* The rest of the body is written without being copied.
ResumeBody ==
    /\ phase = "calling"
    /\ View(remainder) = << >>
    /\ state.at = "body"
    /\ state' = Body(state.offset + written)
    /\ Return(SubSeq(message.body, state.offset + written + 1, Len(message.body)))
    /\ UNCHANGED << message, remainder, written, emitted >>

ResumeFill ==
    /\ phase = "calling"
    /\ View(remainder) = << >>
    /\ state.at \in {"start_line", "fields"}
    /\ phase' = "filling"
    /\ UNCHANGED << message, remainder, state, written, span, empties, emitted >>

Write(bytes) == remainder' = Merged(remainder, bytes)

\* The steps of the loop, one per alternative of serialize_state.
FillStartLine ==
    /\ state.at = "start_line"
    /\ Write(StartLine(message.start_line))
    /\ state' = Fields(1)

FillField ==
    /\ state.at = "fields"
    /\ state.it <= Len(message.fields)
    /\ Write(FieldLine(message.fields[state.it]))
    /\ state' = Fields(state.it + 1)

FillLastLine ==
    /\ state.at = "fields"
    /\ state.it > Len(message.fields)
    /\ Write(CRLF)
    /\ state' = Body(0)

\* Forms of FillBody with a plausible error: the body is copied whatever its
\* size, and what is left of it is forgotten.
FillBodyWhole ==
    /\ state.at = "body"
    /\ state.offset # Len(message.body)
    /\ Write(message.body)
    /\ state' = Body(Len(message.body))

FillBodyForgets ==
    /\ state.at = "body"
    /\ state.offset # Len(message.body)
    /\ Write(SubSeq(message.body, 1, Smaller(BufferSize - Len(View(remainder)), Len(message.body))))
    /\ state' = Simple("complete")

FillBody ==
    /\ state.at = "body"
    /\ state.offset # Len(message.body)
    /\ LET size == Smaller(BufferSize - Len(View(remainder)), Len(message.body))
       IN  /\ Write(SubSeq(message.body, 1, size))
           /\ state' = Body(size)

\* A form that stays in state "body" for ever.
FillCompleteStays ==
    /\ state.at = "body"
    /\ state.offset = Len(message.body)
    /\ UNCHANGED << state, remainder >>

FillComplete ==
    /\ state.at = "body"
    /\ state.offset = Len(message.body)
    /\ state' = Simple("complete")
    /\ UNCHANGED remainder

Fill ==
    /\ phase = "filling"
    /\ Len(View(remainder)) < BufferSize
    /\ FillStartLine \/ FillField \/ FillLastLine \/ FillBody \/ FillComplete
    /\ UNCHANGED << message, phase, written, span, empties, emitted >>

\* A form that returns the head of the message on its own.
FilledAtBody ==
    /\ phase = "filling"
    /\ Len(View(remainder)) >= BufferSize \/ state.at \in {"body", "complete"}
    /\ Return(View(remainder))
    /\ UNCHANGED << message, remainder, state, written, emitted >>

\* The loop ends with a full buffer or a complete message.
Filled ==
    /\ phase = "filling"
    /\ Len(View(remainder)) >= BufferSize \/ state.at = "complete"
    /\ Return(View(remainder))
    /\ UNCHANGED << message, remainder, state, written, emitted >>

-----------------------------------------------------------------------------
(* The client's loop (examples/src/00_http_v1_server.cpp lines 113 to 127). *)

\* The socket takes n bytes of the span.
SocketTakes(n) ==
    /\ phase = "writing"
    /\ n \in 1 .. Len(span)
    /\ emitted' = emitted \o SubSeq(span, 1, n)
    /\ written' = n
    /\ phase' = "calling"
    /\ UNCHANGED << message, remainder, state, span, empties >>

\* A client that does not take the first empty span for the end calls again.
CallAgain ==
    /\ phase = "writing"
    /\ span = << >>
    /\ empties < Max(EmptySpansAtEnd)
    /\ written' = 0
    /\ phase' = "calling"
    /\ UNCHANGED << message, remainder, state, span, empties, emitted >>

Stop ==
    /\ phase = "writing"
    /\ empties \in EmptySpansAtEnd
    /\ phase' = "done"
    /\ UNCHANGED << message, remainder, state, written, span, empties, emitted >>

\* The peer resets the connection.
WriteFails ==
    /\ phase = "writing"
    /\ span # << >>
    /\ phase' = "lost"
    /\ UNCHANGED << message, remainder, state, written, span, empties, emitted >>

Resume == ResumeRemainder \/ ResumeComplete \/ ResumeBody \/ ResumeFill \/ Fill \/ Filled

Client == CallAgain \/ Stop \/ WriteFails \/ \E n \in 1 .. Len(span) : SocketTakes(n)

Next == Resume \/ Client

Spec == Init /\ [][Next]_vars

\* A call runs, and a write that was started ends.
FairSpec == Spec /\ WF_vars(Resume) /\ WF_vars(Client)

-----------------------------------------------------------------------------
\* Every offset is within what it is an offset into, so that each subspan and
\* each consumed byte exists (message.cpp lines 25, 35, 80, 120; machine.hpp
\* lines 28 and 46).
TypeOK ==
    /\ message \in Messages
    /\ remainder \in BufferType(Byte)
    /\ OffsetInBuffer(remainder)
    /\ state.at \in {"start_line", "fields", "body", "complete"}
    /\ state.at = "fields" => state.it \in 1 .. Len(message.fields) + 1
    /\ state.at = "body" => state.offset \in 0 .. Len(message.body)
    /\ phase \in {"calling", "filling", "writing", "done", "lost"}
    /\ written \in Nat
    /\ phase = "calling" /\ View(remainder) # << >> => MayAdvance(remainder, written)

\* A message as one sequence of bytes.
Whole(m) == StartLine(m.start_line) \o FlattenSeq(FieldLines(m)) \o CRLF \o m.body

Encoding == Whole(message)

\* The socket is offered the bytes of the message in their order, each once,
\* whatever part of each span it takes and whether a span comes from the
\* buffer or from the body itself.
SpanContinuesMessage ==
    IsPrefix(IF phase = "writing" THEN emitted \o span ELSE emitted, Encoding)

\* A client that goes on after one empty span has written the whole message
\* when it stops (message.cpp lines 25 to 36).
SecondEmptySpanIsEnd == phase = "done" /\ empties = 2 => emitted = Encoding

\* Whenever the client stops it has written the whole message, as the loops of
\* the example and of the tests take for granted.
WholeMessageWritten == phase = "done" => emitted = Encoding

\* A client that stops at the first empty span, as the example's, has written
\* the whole message if it fits into the buffer.
SmallMessageWritten ==
    phase = "done" /\ Len(Encoding) <= BufferSize => emitted = Encoding

\* The copy the machine keeps exceeds the size of its buffer by less than one
\* line of the head, and not at all by what it copies of the body (message.cpp
\* lines 38 and 119).
BufferBounded ==
    LET lines == {Len(StartLine(message.start_line)), Len(CRLF)}
                   \cup {Len(FieldLines(message)[i]) : i \in DOMAIN message.fields}
        bodyCopied == state.at = "complete" \/ (state.at = "body" /\ state.offset > 0)
    IN  /\ Len(remainder.buffer) < BufferSize + Max(lines)
        /\ bodyCopied => Len(View(remainder)) <= BufferSize

\* The client's loop ends.
ClientStops == <>(phase \in {"done", "lost"})
=============================================================================
