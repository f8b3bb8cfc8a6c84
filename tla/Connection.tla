------------------------------ MODULE Connection ------------------------------
(***************************************************************************)
(* client_coro of the example server (examples/src/00_http_v1_server.cpp): *)
(* a connection reads until its deserialize_machine has a request, handles *)
(* it, and writes the response its serialize_machine gives it.  Each       *)
(* co_await is a point where the peer moves.                               *)
(*                                                                         *)
(*   pc "reading"        the test of the loop and the read (lines 87, 88)  *)
(*      "deserializing"  the call of deserialize (line 96)                 *)
(*      "writing"        the second loop (lines 114 to 127)                *)
(*      "answered"       the coroutine ended after the response            *)
(*      "left"           the coroutine ended because the peer was gone     *)
(*      "panicked"       PANIC: the process ends                           *)
(***************************************************************************)
EXTENDS MessageTypes

CONSTANTS Streams,        \* what the peers send
          BufferSize,     \* BUFFER_SIZE
          TargetFromStr,
          MaxBodySize, MaxFieldSize, MaxReasonSize, MaxTargetSize

VARIABLES
    pc,
    closed,        \* whether the peer sends no more than the stream
    request,       \* maybe_request, a set with at most one message
    ioFailed,      \* whether an operation failed for a reason not foreseen
    stream, fed, rPhase, input, rRemainder, rState, output, delivered, error,
    response, sRemainder, sState, sPhase, written, span, empties, emitted

rVars == << stream, fed, rPhase, input, rRemainder, rState, output, delivered, error >>
sVars == << response, sRemainder, sState, sPhase, written, span, empties, emitted >>
vars == << pc, closed, request, ioFailed, rVars, sVars >>

\* Both machines are taken with their theorems, for those about the connection.
Reader == INSTANCE DeserializeProofs
          WITH IsRequest <- TRUE, ChunkSizeModulus <- 16, MaxChunkSizeSize <- 1,
               MaxChunkLineSize <- 4, phase <- rPhase, remainder <- rRemainder, state <- rState

Body == << "Hello", ",", " ", "World", "!", "LF" >>

\* The fields of handle(), in the order in which the map happens to keep them.
ResponseFields ==
    Injection(1 .. 3, { [key |-> << "Content-Type" >>,   value |-> << "text", "/", "plain" >>],
                        [key |-> << "Content-Length" >>, value |-> Decimal[Len(Body)]],
                        [key |-> << "Connection" >>,     value |-> << "keep-alive" >>] })

\* The messages that handle() may return.
Responses ==
    {[start_line |-> [kind |-> "response", version |-> "HTTPv1_1", status |-> 200, reason |-> << >>],
      fields |-> fields, body |-> Body] : fields \in ResponseFields}

Writer == INSTANCE SerializeProofs
          WITH Messages <- Responses, EmptySpansAtEnd <- {1}, TargetToStr <- << >>,
               message <- response, remainder <- sRemainder, state <- sState, phase <- sPhase

\* The machines are made as their modules assume, and handle() writes less than
\* one buffer.
ASSUME ConnectionAssumption ==
    /\ Reader!HandlersAssumption
    /\ Reader!MachineAssumption
    /\ Writer!SerializeAssumption
    /\ Writer!MessagesAssumption
    /\ \A r \in Responses : Len(Writer!Whole(r)) <= BufferSize

Nothing == << >>

Init == /\ pc = "reading"
        /\ closed \in BOOLEAN
        /\ request = {}
        /\ ioFailed = FALSE
        /\ Reader!Init
        /\ response = Nothing
        /\ Writer!Fresh
        /\ emitted = << >>

-----------------------------------------------------------------------------
(* The first loop. *)

\* A read that gives at least one byte; deserialize is called with them.
Read == /\ pc = "reading"
        /\ \E n \in 1 .. BufferSize : n <= Len(stream) - fed /\ Reader!Call(n)
        /\ pc' = "deserializing"
        /\ UNCHANGED << closed, request, ioFailed, sVars >>

\* The peer has closed its side: the read succeeds with 0 bytes, and so does
\* every read after it.
ReadEnd == /\ pc = "reading"
           /\ closed
           /\ fed = Len(stream)
           /\ Reader!Call(0)
           /\ pc' = "deserializing"
           /\ UNCHANGED << closed, request, ioFailed, sVars >>

\* connection_reset ends the coroutine, every other error the process.
ReadFails == /\ pc = "reading"
             /\ pc' \in {"left", "panicked"}
             /\ ioFailed' = (pc' = "panicked")
             /\ UNCHANGED << closed, request, rVars, sVars >>

\* A form that keeps the first request it gets.
DeserializeKeepsFirst ==
    /\ pc = "deserializing"
    /\ Reader!Running
    /\ request' = IF request = {} /\ Len(delivered') > Len(delivered) /\ Last(delivered').kind = "message"
                  THEN {Last(delivered').message}
                  ELSE request
    /\ UNCHANGED << pc, closed, ioFailed, sVars >>

\* A step of deserialize(); message_cb replaces the request that is there, and
\* nothing looks at chunks.
Deserialize ==
    /\ pc = "deserializing"
    /\ Reader!Running
    /\ request' = IF Len(delivered') > Len(delivered) /\ Last(delivered').kind = "message"
                  THEN {Last(delivered').message}
                  ELSE request
    /\ UNCHANGED << pc, closed, ioFailed, sVars >>

\* deserialize() has returned.  An error status ends the process, whether or
\* not the same call completed a request.
Refuse == /\ pc = "deserializing"
          /\ rPhase = "idle"
          /\ error # "NO_ERROR"
          /\ pc' = "panicked"
          /\ UNCHANGED << closed, request, ioFailed, rVars, sVars >>

ReadOn == /\ pc = "deserializing"
          /\ rPhase = "idle"
          /\ error = "NO_ERROR"
          /\ request = {}
          /\ pc' = "reading"
          /\ UNCHANGED << closed, request, ioFailed, rVars, sVars >>

\* A form that handles a request although an error came after it.
HandleDespiteError ==
    /\ pc = "deserializing"
    /\ rPhase = "idle"
    /\ request # {}
    /\ pc' = "writing"
    /\ response' \in Responses
    /\ Writer!Make
    /\ UNCHANGED << closed, request, ioFailed, rVars, emitted >>

\* The deserializer and what it keeps goes (line 101), handle() is called, and
\* a serializer is made of the response.
Handle == /\ pc = "deserializing"
          /\ rPhase = "idle"
          /\ error = "NO_ERROR"
          /\ request # {}
          /\ pc' = "writing"
          /\ rRemainder' = Reader!EmptyBuffer
          /\ rState' = Reader!StartState
          /\ output' = Reader!StartMessage
          /\ response' \in Responses
          /\ Writer!Make
          /\ UNCHANGED << closed, request, ioFailed, stream, fed, rPhase, input, delivered, error, emitted >>

-----------------------------------------------------------------------------
(* The second loop. *)

\* The serializer runs, or the socket takes half or all of a span.
Write == /\ pc = "writing"
         /\ UNCHANGED << pc, closed, request, ioFailed, rVars >>
         /\ \/ Writer!Resume
            \/ Writer!Stop
            \/ \E n \in {(Len(span) + 1) \div 2, Len(span)} : Writer!SocketTakes(n)

WriteFails == /\ pc = "writing"
              /\ Writer!WriteFails
              /\ pc' \in {"left", "panicked"}
              /\ ioFailed' = (pc' = "panicked")
              /\ UNCHANGED << closed, request, rVars >>

Return == /\ pc = "writing"
          /\ sPhase = "done"
          /\ pc' = "answered"
          /\ UNCHANGED << closed, request, ioFailed, rVars, sVars >>

Progress == Read \/ ReadEnd \/ Deserialize \/ Refuse \/ ReadOn \/ Handle \/ Write \/ Return

Next == Progress \/ ReadFails \/ WriteFails

Spec == Init /\ [][Next]_vars

Ended == pc \in {"answered", "left", "panicked"}

\* The coroutine is resumed and runs when its read or write can complete: this
\* is WF_vars(Progress) with ENABLED spelled out.  The peer may stay silent.
FairSpec == Spec /\ \/ []<>(Ended \/ (pc = "reading" /\ fed = Len(stream) /\ ~ closed))
                    \/ []<><< Progress >>_vars

-----------------------------------------------------------------------------
\* What the coroutine hands on is what the next function expects: debug_print
\* takes the start line for a request line (line 25), the deserializer is shown
\* as many bytes as were read, the response is one handle() makes.
TypeOK ==
    /\ pc \in {"reading", "deserializing", "writing", "answered", "left", "panicked"}
    /\ Cardinality(request) <= 1
    /\ \A m \in request : m.start_line.kind = "request"
    /\ pc = "reading" => rPhase = "idle" /\ input = << >>
    /\ response \in Responses \cup {Nothing}

\* Of the requests that one read completes the last is handled, and none that a
\* later read completes: message_cb replaces the request (line 82), and no read
\* follows the one that set it.
LastRequestHandled ==
    response # Nothing =>
        \E i \in DOMAIN delivered :
            /\ delivered[i].kind = "message"
            /\ request = {delivered[i].message}
            /\ \A j \in DOMAIN delivered : j > i => delivered[j].kind # "message"

\* A stream that turns out to be in error within the read that completes a
\* request is not answered at all, and ends the process (lines 97 and 98); the
\* process ends for no other reason than that or an error of the socket.
ErrorsArePanics ==
    /\ error # "NO_ERROR" => pc \in {"deserializing", "panicked"} /\ emitted = << >>
    /\ pc = "panicked" => error # "NO_ERROR" \/ ioFailed

Answers == {Writer!Whole(r) : r \in Responses}

Server == INSTANCE OneAnswer
          WITH heard <- IF response = Nothing THEN << >> ELSE delivered,
               said <- emitted,
               outcome <- IF Ended THEN pc ELSE "serving"

\* Between the awaits nothing is repeated, skipped or taken back: the coroutine
\* hears requests once, says one whole response, and only then is done.
ImplementsOneAnswer == Server!Spec
=============================================================================
