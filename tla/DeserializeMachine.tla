-------------------------- MODULE DeserializeMachine --------------------------
(***************************************************************************)
(* detail::deserialize_machine and the code that calls it.  The caller     *)
(* reads a stream from the network in segments it does not choose and      *)
(* calls deserialize() with each, until a call returns an error status.    *)
(* deserialize() is synchronous; its steps, one per invocation of a        *)
(* handler, are actions of their own:                                      *)
(*                                                                         *)
(*   phase "idle"      no call is running                                  *)
(*         "direct"    the loop over the caller's span (lines 42 to 55)    *)
(*         "merge"     before remainder_.merge(input)  (line 58)           *)
(*         "buffered"  the loop over the remainder     (lines 60 to 73)    *)
(***************************************************************************)
EXTENDS DeserializeHandlers, RemainderBuffer

CONSTANTS Streams,     \* the byte streams a peer may send
          IsRequest    \* make_deserialize_request or make_deserialize_response

ASSUME MachineAssumption == /\ Streams \subseteq Seq(Byte)
                            /\ IsRequest \in BOOLEAN

VARIABLES
    stream,      \* what the peer sends
    fed,         \* how many bytes of it were passed to deserialize()
    phase,       \* where the running call is
    input,       \* what the running call has not consumed of its argument
    remainder,   \* remainder_
    state,       \* state_
    output,      \* output_
    delivered,   \* the events passed to chunk_cb and message_cb so far
    error        \* the status returned, NoError as long as there is none

vars == << stream, fed, phase, input, remainder, state, output, delivered, error >>

\* How make_deserialize_request and make_deserialize_response begin.
StartStateFor(isRequest) == Simple(IF isRequest THEN "request_method" ELSE "response_version")
StartMessageFor(isRequest) == EmptyMessage(IF isRequest THEN RequestLine ELSE ResponseLine)

StartState == StartStateFor(IsRequest)

\* A form with the start line of the other kind.
StartMessageResponse == EmptyMessage(ResponseLine)
StartMessage == StartMessageFor(IsRequest)

Init == /\ stream \in Streams
        /\ fed = 0
        /\ phase = "idle"
        /\ input = << >>
        /\ remainder = EmptyBuffer
        /\ state = StartState
        /\ output = StartMessage
        /\ delivered = << >>
        /\ error = NoError

\* The caller passes the next n bytes of the stream; n may be 0, as when a
\* read reports the end of the stream.
Call(n) ==
    /\ phase = "idle"
    /\ error = NoError
    /\ n \in 0 .. Len(stream) - fed
    /\ fed' = fed + n
    /\ input' = SubSeq(stream, fed + 1, fed + n)
    /\ phase' = IF View(remainder) = << >> THEN "direct" ELSE "merge"
    /\ UNCHANGED << stream, remainder, state, output, delivered, error >>

\* What both loops do with the result of the handler, except for the offset.
Apply(r) ==
    /\ state' = r.state
    /\ output' = r.output
    /\ delivered' = delivered \o r.events
    /\ error' = r.error

\* One pass through the first loop, on the caller's span.
DirectStep ==
    \E r \in {Dispatch(state, output, input)} :
        /\ phase = "direct"
        /\ input # << >>
        /\ Apply(r)
        /\ input' = IF r.error # NoError THEN << >>
                    ELSE IF r.offset = ContinueToken THEN input
                    ELSE SubSeq(input, r.offset + 1, Len(input))
        /\ phase' = IF r.error # NoError THEN "idle"
                    ELSE IF r.offset = 0 THEN "merge"
                    ELSE "direct"
        /\ UNCHANGED << stream, fed, remainder >>

\* The first loop ends because the span is consumed.
DirectDone ==
    /\ phase = "direct"
    /\ input = << >>
    /\ phase' = "merge"
    /\ UNCHANGED << stream, fed, input, remainder, state, output, delivered, error >>

Merge ==
    /\ phase = "merge"
    /\ remainder' = Merged(remainder, input)
    /\ input' = << >>
    /\ phase' = "buffered"
    /\ UNCHANGED << stream, fed, state, output, delivered, error >>

\* A form that starts over instead of returning when nothing is consumed.
BufferedStepStartsOver ==
    \E r \in {Dispatch(state, output, View(remainder))} :
        /\ phase = "buffered"
        /\ Apply(r)
        /\ remainder' = IF r.error # NoError \/ r.offset = ContinueToken
                        THEN remainder
                        ELSE Advanced(remainder, r.offset)
        /\ phase' = IF r.error # NoError THEN "idle"
                    ELSE IF r.offset = 0 THEN "merge" ELSE "buffered"
        /\ UNCHANGED << stream, fed, input >>

\* One pass through the second loop, on the remainder.
BufferedStep ==
    \E r \in {Dispatch(state, output, View(remainder))} :
        /\ phase = "buffered"
        /\ Apply(r)
        /\ remainder' = IF r.error # NoError \/ r.offset = ContinueToken
                        THEN remainder
                        ELSE Advanced(remainder, r.offset)
        /\ phase' = IF r.error # NoError \/ r.offset = 0 THEN "idle" ELSE "buffered"
        /\ UNCHANGED << stream, fed, input >>

Running == DirectStep \/ DirectDone \/ Merge \/ BufferedStep

Next == Running \/ \E n \in 0 .. Len(stream) - fed : Call(n)

Spec == Init /\ [][Next]_vars

\* A call is a plain function call: once made, it runs.  This is
\* WF_vars(Running) with ENABLED spelled out: while a call runs it has a step,
\* and ContinueMakesProgress says that the step is not a stuttering one.
FairSpec == Spec /\ ([]<>(phase = "idle") \/ []<><< Running >>_vars)
-----------------------------------------------------------------------------
(* Types. *)

SimpleStates == RequestStates \cup ResponseStates \cup {"chunked_empty", "complete"}

StateType ==
    [at : SimpleStates]
      \cup [at : {"fields", "trailing_fields"}, consumed_bytes : Nat]
      \cup [at : {"body"}, content_length : Nat]
      \cup [at : {"chunked_line"}, chunk_ext : Seq(Byte), chunk_size : Nat \ {0}]
      \cup [at : {"chunked_complete"}, chunk_ext : Seq(Byte), chunk : Seq(Byte)]

StartLineType ==
    LET methods  == {MethodFromStr[s] : s \in DOMAIN MethodFromStr}
        targets  == {TargetFromStr[s] : s \in DOMAIN TargetFromStr}
        versions == {VersionFromStr[s] : s \in DOMAIN VersionFromStr}
    IN  [kind : {"request"}, method : methods \cup {Unset},
         target : targets \cup {Unset}, version : versions \cup {Unset}]
          \cup [kind : {"response"}, version : versions \cup {Unset},
                status : Nat, reason : Seq(Byte)]

FieldsTyped(fields) == \A key \in DOMAIN fields : /\ key \in Seq(Byte)
                                                 /\ fields[key] \in Seq(Byte)

MessageTyped(m) ==
    /\ m = [start_line |-> m.start_line, fields |-> m.fields, body |-> m.body]
    /\ m.start_line \in StartLineType
    /\ FieldsTyped(m.fields)
    /\ m.body \in Seq(Byte)

\* The parser state and the message it fills in are of the declared types,
\* the spans are spans of bytes, and consumed bytes of the remainder are in it.
TypeOK ==
    /\ stream \in Streams
    /\ fed \in 0 .. Len(stream)
    /\ phase \in {"idle", "direct", "merge", "buffered"}
    /\ input \in Seq(Byte)
    /\ remainder \in BufferType(Byte)
    /\ OffsetInBuffer(remainder)
    /\ state \in StateType
    /\ MessageTyped(output)

-----------------------------------------------------------------------------
(* Safety. *)

\* The bytes waiting to be parsed, in the remainder or in the running call.
Pending == View(remainder) \o input

\* Across both loops and the merge between them no byte of the stream is
\* lost, repeated or reordered: what waits is a suffix of what was fed.
PendingIsSuffix ==
    error = NoError =>
        /\ Len(Pending) <= fed
        /\ Pending = SubSeq(stream, fed - Len(Pending) + 1, fed)

\* The number of bytes on which the handler of a state cannot stop to wait
\* for more: it then has its delimiter, or gives up (message.cpp lines 139,
\* 168, 198, 239, 270, 304, 353, 485, 513, 574).
Window(st) ==
    CASE st.at = "request_method"   -> MethodMaxLength + Len(SP)
      [] st.at = "request_target"   -> MaxTargetSize + Len(SP)
      [] st.at = "request_version"  -> VersionMaxLength + Len(CRLF)
      [] st.at = "response_version" -> VersionMaxLength + Len(SP)
      [] st.at = "response_status"  -> StatusCodeLength + Len(SP)
      [] st.at = "response_reason"  -> MaxReasonSize + Len(CRLF)
      [] st.at \in {"fields", "trailing_fields"} ->
             SizeSub(MaxFieldSize, st.consumed_bytes) + Len(CRLF)
      [] st.at = "body"             -> 1
      [] st.at = "chunked_empty"    -> MaxChunkLineSize + Len(CRLF)
      [] st.at = "chunked_line"     -> st.chunk_size + Len(CRLF)
      [] st.at \in {"chunked_complete", "complete"} -> 0

\* Between two calls the machine never keeps a byte it could have parsed, and
\* it never rests in a state that only hands over to the next one: a message
\* is delivered by the very call that brings its last byte, and the memory
\* kept for an unfinished element is below the limit configured for it.
RemainderBounded ==
    phase = "idle" /\ error = NoError => Len(View(remainder)) < Window(state)

KindAgrees(st, out) ==
    /\ st.at \in RequestStates => out.start_line.kind = "request"
    /\ st.at \in ResponseStates => out.start_line.kind = "response"

\* The assertions of the parser (message.cpp lines 127, 228, 483, 494 and
\* machine.hpp line 46) hold whenever they are evaluated: the start line is
\* of the kind the state expects, a body is never complete in state "body",
\* and a handler consumes no more bytes than it is shown.
AssertionsHold ==
    /\ KindAgrees(state, output)
    /\ state.at = "body" => Len(output.body) < state.content_length
    /\ \A r \in {Dispatch(state, output, View(remainder))} :
           phase = "buffered" /\ r.error = NoError /\ r.offset # ContinueToken
               => MayAdvance(remainder, r.offset)

\* A handler that asks to be called again without consuming a byte has moved
\* to another state, so that neither loop spins on continue_token (lines 48
\* and 66); what it left behind is then picked up by the same call.
ContinueMakesProgress ==
    \A r \in {Dispatch(state, output, IF phase = "direct" THEN input ELSE View(remainder))} :
        phase \in {"direct", "buffered"} /\ r.error = NoError /\ r.offset = ContinueToken
            => r.state # state /\ r.state.at \notin {"chunked_complete", "complete"}

\* The fields of one section never take more than the configured maximum and
\* the one line end that may go over it (message.cpp lines 353 and 363).
FieldBudget ==
    state.at \in {"fields", "trailing_fields"} =>
        state.consumed_bytes <= MaxFieldSize + Len(CRLF)

\* The names and values kept of one message are bounded by the bytes counted
\* against the maximum, those of the fields and those of the trailing fields:
\* joining the values of a repeated field adds no more than its line had.
FieldMemoryBounded ==
    LET sizes(fields) == [key \in DOMAIN fields |-> Len(key) + Len(fields[key])]
        memory(fields) == SumFunction(sizes(fields))
    IN  /\ state.at = "fields" => memory(output.fields) <= state.consumed_bytes
        /\ \A i \in DOMAIN delivered :
              memory(delivered[i].message.fields) <= 2 * (MaxFieldSize + Len(CRLF))

\* chunk_cb and message_cb are called in the order of the protocol: the empty
\* chunk ends a chunked body, so the next callback is message_cb, and no
\* message with a chunked body is delivered without its empty chunk.
CallbackOrder ==
    \A i \in DOMAIN delivered :
        LET isLastChunk(j) == delivered[j].kind = "chunk" /\ delivered[j].data = << >>
            isChunkedMessage == delivered[i].kind = "message" /\ IsChunked(delivered[i].message.fields)
        IN  /\ isLastChunk(i) /\ i < Len(delivered) => delivered[i + 1].kind = "message"
            /\ isChunkedMessage => i > 1 /\ isLastChunk(i - 1)

\* A deserializer of requests parses requests only and one of responses
\* responses only, message after message (make_deserialize_request and
\* make_deserialize_response, message.cpp lines 26 to 36).
KeepsKind == state.at \notin (IF IsRequest THEN ResponseStates ELSE RequestStates)

\* No assertion of a debug build fails while a message is parsed: the bytes
\* left for the fields never wrap around (message.cpp line 353, strings.cpp
\* lines 81 and 82).
NoAssertionFails == error # "ASSERTION_FAILED"

\* A delivered body has the length its fields announce and respects the
\* limit, however many calls it was collected in (message.cpp 464 to 495).  A
\* length that is not a number announces nothing here; see the next property.
BodiesFramed ==
    \A i \in DOMAIN delivered :
        LET message == delivered[i].message
        IN  delivered[i].kind = "message" =>
                /\ Len(message.body) = IF IsChunked(message.fields) THEN 0
                                       ELSE BodyLength(message.fields)
                /\ Len(message.body) <= MaxBodySize

\* Every length that a delivered request announces is that of its body: a
\* content-length that is no number is an error and the same number twice is
\* that number (RFC 9112, 6.3), never a reason to parse the body as the next
\* request (message.cpp lines 464 to 468).
AnnouncedLengthsKept ==
    \A i \in DOMAIN delivered :
        LET message == delivered[i].message
            announced == {FromChars(StripWs(item), 10, SizeModulus) :
                             item \in CommaItems(message.fields[ContentLength])}
        IN  delivered[i].kind = "message" /\ ContentLength \in DOMAIN message.fields
                => announced = {Len(message.body)}

-----------------------------------------------------------------------------
(* Liveness and refinement. *)

\* deserialize() returns: the two loops end although a handler may ask to be
\* called again without consuming a byte (continue_token, lines 48 and 66).
CallReturns == phase # "idle" ~> phase = "idle"

\* The two loops, the merge and the segments they work on are not
\* observable: the machine parses one stream through one queue.
Parser == INSTANCE StreamParser
          WITH pending <- View(remainder) \o input,
               Initial <- [state |-> StartState, output |-> StartMessage]

ImplementsStreamParser == Parser!Spec

-----------------------------------------------------------------------------
(* One call with all the bytes. *)

\* Where parsing is; what waits does not matter any more after an error.
Now == [pending |-> IF error = NoError THEN Pending ELSE << >>, state |-> state,
        output |-> output, delivered |-> delivered, error |-> error]

Begun(bytes) == [pending |-> bytes, state |-> StartState, output |-> StartMessage,
                 delivered |-> << >>, error |-> NoError]

\* What one pass through a loop makes of it.
Pass(at) ==
    LET r == Dispatch(at.state, at.output, at.pending)
        consumed == IF r.offset = ContinueToken THEN 0 ELSE r.offset
        rest == SubSeq(at.pending, consumed + 1, Len(at.pending))
    IN  IF at.error # NoError THEN at
        ELSE [pending |-> IF r.error = NoError THEN rest ELSE << >>, state |-> r.state,
              output |-> r.output, delivered |-> at.delivered \o r.events, error |-> r.error]

After(n, at) ==
    LET after[k \in Nat] == IF k = 0 THEN at ELSE Pass(after[k - 1])
    IN  after[n]

\* Every pass but the last consumes a byte, or is followed by one that does.
InOneCall(bytes) == After(2 * Len(bytes) + 1, Begun(bytes))

\* Whatever segments the stream was cut into, every call leaves the machine
\* as one call with all the bytes so far would have: same state, message,
\* callbacks, status and bytes kept.  And an error is final: bytes that had not
\* arrived yet when it was reported would not have changed it, nor what was
\* delivered before it (message.cpp lines 40 to 76).
SegmentationIndependent ==
    phase = "idle" => /\ Now = InOneCall(SubSeq(stream, 1, fed))
                      /\ error # NoError => Now = InOneCall(stream)
=============================================================================
