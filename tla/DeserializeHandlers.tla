------------------------- MODULE DeserializeHandlers -------------------------
(***************************************************************************)
(* The static handlers of detail::deserialize_machine                      *)
(* (src/v1/deserialize/message.cpp), one per parser state: each looks at   *)
(* the bytes it is shown and either reports an error status or returns the *)
(* next state with the number of bytes it consumed.  Dispatch is the       *)
(* private deserialize_impl that calls the handler of the current state    *)
(* and then the user's callbacks.                                          *)
(*                                                                         *)
(* A parser state is a record whose field "at" names the alternative of    *)
(* deserialize_state; the nested variants are flattened into one name.     *)
(***************************************************************************)
EXTENDS Strings

CONSTANTS
    MethodFromStr,     \* meta::enum_from_str<method_type>, on the names it knows
    VersionFromStr,    \* meta::enum_from_str<version_type>, on the names it knows
    TargetFromStr,     \* deserialize_target, on the strings it accepts
    MethodMaxLength,   \* enum_max_str_length<method_type>()
    VersionMaxLength,  \* enum_max_str_length<version_type>()
    ChunkSizeModulus,  \* number of values of std::uint32_t
    MaxBodySize,       \* deserialize_config, field by field
    MaxFieldSize,
    MaxReasonSize,
    MaxTargetSize,
    MaxChunkSizeSize,
    MaxChunkLineSize

IsMaxLength(n, strs) == /\ \A s \in strs : Len(s) <= n
                        /\ \E s \in strs : Len(s) = n

Limits == {MethodMaxLength, VersionMaxLength, 3, MaxFieldSize, MaxReasonSize,
           MaxTargetSize, MaxChunkLineSize}

ASSUME HandlersAssumption ==
    /\ DOMAIN MethodFromStr \subseteq Seq(Byte)
    /\ DOMAIN VersionFromStr \subseteq Seq(Byte)
    /\ IsMaxLength(MethodMaxLength, DOMAIN MethodFromStr)
    /\ IsMaxLength(VersionMaxLength, DOMAIN VersionFromStr)
    /\ Limits \subseteq 0 .. MaxStrSize - 2
    /\ ChunkSizeModulus \in 1 .. SizeModulus - 3
    /\ MaxBodySize \in 0 .. SizeModulus - 2
    /\ MaxChunkSizeSize \in Nat

-----------------------------------------------------------------------------
(* Messages and parser states. *)

NoError == "NO_ERROR"

\* deserialize_ok::continue_token: "call me again", never a number of bytes.
ContinueToken == SizeModulus - 1

Unset == "UNSET"

RequestLine  == [kind |-> "request", method |-> Unset, target |-> Unset, version |-> Unset]
ResponseLine == [kind |-> "response", version |-> Unset, status |-> 0, reason |-> << >>]

EmptyMessage(startLine) == [start_line |-> startLine, fields |-> << >>, body |-> << >>]

\* message_type{}: the variant start_line holds its first alternative.
DefaultMessage == EmptyMessage(RequestLine)

Simple(at) == [at |-> at]

RequestStates  == {"request_method", "request_target", "request_version"}
ResponseStates == {"response_version", "response_status", "response_reason"}

Fields(consumed) == [at |-> "fields", consumed_bytes |-> consumed]
TrailingFields(consumed) == [at |-> "trailing_fields", consumed_bytes |-> consumed]
Body(length) == [at |-> "body", content_length |-> length]
ChunkedLine(ext, size) == [at |-> "chunked_line", chunk_ext |-> ext, chunk_size |-> size]
ChunkedComplete(ext, chunk) == [at |-> "chunked_complete", chunk_ext |-> ext, chunk |-> chunk]

\* What a handler returns: an error status, or the message as it has filled
\* it in, the next state and the number of bytes it consumed.
Err(status) == [error |-> status]
Ok(output, state, offset) ==
    [error |-> NoError, output |-> output, state |-> state, offset |-> offset]
Stop(output, state) == Ok(output, state, 0)

\* What every handler does when its search does not succeed.
Unfound(found, output, state, statusIfExceeded) ==
    IF found.error = "NOT_FOUND" THEN Stop(output, state)
    ELSE IF found.error = "MAX_SIZE_EXCEEDED" THEN Err(statusIfExceeded)
    ELSE Err(found.error)

-----------------------------------------------------------------------------
(* Request line. *)

HandleRequestMethod(output, state, input) ==
    LET found == TryFind(input, SP, MethodMaxLength)
    IN  IF found.error # "NONE" THEN Unfound(found, output, state, "NOT_IMPLEMENTED")
        ELSE IF found.value \notin DOMAIN MethodFromStr THEN Err("BAD_REQUEST")
        ELSE Ok([output EXCEPT !.start_line.method = MethodFromStr[found.value]],
                Simple("request_target"), found.offset)

HandleRequestTarget(output, state, input) ==
    LET found == TryFind(input, SP, MaxTargetSize)
    IN  IF found.error # "NONE" THEN Unfound(found, output, state, "URI_TOO_LONG")
        ELSE IF found.value \notin DOMAIN TargetFromStr THEN Err("BAD_REQUEST")
        ELSE Ok([output EXCEPT !.start_line.target = TargetFromStr[found.value]],
                Simple("request_version"), found.offset)

HandleRequestVersion(output, state, input) ==
    LET found == TryFind(input, CRLF, VersionMaxLength)
    IN  IF found.error # "NONE" THEN Unfound(found, output, state, "BAD_REQUEST")
        ELSE IF found.value \notin DOMAIN VersionFromStr THEN Err("BAD_REQUEST")
        ELSE Ok([output EXCEPT !.start_line.version = VersionFromStr[found.value]],
                Fields(0), found.offset)

-----------------------------------------------------------------------------
(* Status line. *)

HandleResponseVersion(output, state, input) ==
    LET found == TryFind(input, SP, VersionMaxLength)
    IN  IF found.error # "NONE" THEN Unfound(found, output, state, "BAD_REQUEST")
        ELSE IF found.value \notin DOMAIN VersionFromStr THEN Err("BAD_REQUEST")
        ELSE Ok([output EXCEPT !.start_line.version = VersionFromStr[found.value]],
                Simple("response_status"), found.offset)

StatusCodeLength == 3

HandleResponseStatus(output, state, input) ==
    LET found == TryFind(input, SP, StatusCodeLength)
        code  == FromChars(found.value, 10, 2 ^ 16)
    IN  IF found.error # "NONE" THEN Unfound(found, output, state, "BAD_REQUEST")
        ELSE IF Len(found.value) # StatusCodeLength \/ code = NoNumber THEN Err("BAD_REQUEST")
        ELSE Ok([output EXCEPT !.start_line.status = code],
                Simple("response_reason"), found.offset)

HandleResponseReason(output, state, input) ==
    LET found == TryFind(input, CRLF, MaxReasonSize)
    IN  IF found.error # "NONE" THEN Unfound(found, output, state, "BAD_REQUEST")
        ELSE Ok([output EXCEPT !.start_line.reason = found.value], Fields(0), found.offset)

-----------------------------------------------------------------------------
(* Fields and trailing fields. *)

TransferEncoding == << "transfer-encoding" >>
ContentLength    == << "content-length" >>
Chunked          == << "chunked" >>

\* A form in which the last value wins.
AddFieldReplaces(fields, key, value) ==
    [k \in DOMAIN fields \cup {key} |-> IF k = key THEN value ELSE fields[k]]

\* try_emplace, or append to the value that is there.
AddField(fields, key, value) ==
    [k \in DOMAIN fields \cup {key} |->
        IF k # key THEN fields[k]
        ELSE IF key \in DOMAIN fields THEN fields[key] \o << ",", " " >> \o value
        ELSE value]

IsChunked(fields) ==
    /\ TransferEncoding \in DOMAIN fields
    /\ \E item \in CommaItems(fields[TransferEncoding]) : StripWs(item) = Chunked

\* The content length, 0 when the field is missing or is not a number.
BodyLength(fields) ==
    LET length == IF ContentLength \in DOMAIN fields
                  THEN FromChars(fields[ContentLength], 10, SizeModulus)
                  ELSE NoNumber
    IN  IF length = NoNumber THEN 0 ELSE length

\* A form of FinalizeFields without the limit on the body.
FinalizeFieldsUnlimited(output, offset) ==
    IF IsChunked(output.fields) THEN Ok(output, Simple("chunked_empty"), offset)
    ELSE IF BodyLength(output.fields) = 0 THEN Ok(output, Simple("complete"), offset)
    ELSE Ok(output, Body(BodyLength(output.fields)), offset)

\* deserialize_state_fields_finalize: how the body of the message is framed.
FinalizeFields(output, offset) ==
    IF IsChunked(output.fields)
    THEN IF ContentLength \in DOMAIN output.fields
         THEN Err("BAD_REQUEST")
         ELSE Ok(output, Simple("chunked_empty"), offset)
    ELSE IF BodyLength(output.fields) = 0
    THEN Ok(output, Simple("complete"), offset)
    ELSE IF BodyLength(output.fields) > MaxBodySize
    THEN Err("CONTENT_TOO_LARGE")
    ELSE Ok(output, Body(BodyLength(output.fields)), offset)

\* A form of Counted that starts again with each line.
CountedAnew(state, size) == [state EXCEPT !.consumed_bytes = size]

Counted(state, size) == [state EXCEPT !.consumed_bytes = @ + size]

HandleFields(output, state, input) ==
    LET found == TryFind(input, CRLF, SizeSub(MaxFieldSize, state.consumed_bytes))
        line  == found.value
        colon == TryFindUnlimited(line, COLON)
        key   == ToLowercase(colon.value)
        value == StripWs(SubSeq(line, colon.offset + 1, Len(line)))
    IN  IF found.error # "NONE" THEN Unfound(found, output, state, "CONTENT_TOO_LARGE")
        ELSE IF line # << >>
        THEN IF colon.error # "NONE"
             THEN Err("BAD_REQUEST")
             ELSE Ok([output EXCEPT !.fields = AddField(@, key, value)],
                     Counted(state, found.offset), found.offset)
        ELSE IF state.at = "fields" THEN FinalizeFields(output, found.offset)
        ELSE Ok(output, Simple("complete"), found.offset)

-----------------------------------------------------------------------------
(* Bodies. *)

\* A form that leaves state "body" one byte too late.
HandleBodyLate(output, state, input) ==
    LET taken == Lesser(SizeSub(state.content_length, Len(output.body)), Len(input))
        grown == [output EXCEPT !.body = @ \o SubSeq(input, 1, taken)]
    IN  IF Len(grown.body) <= state.content_length
        THEN Ok(grown, state, taken)
        ELSE Ok(grown, Simple("complete"), taken)

\* A form that takes the end of the input for the end of the body.
HandleBodyEarly(output, state, input) ==
    LET taken == Lesser(SizeSub(state.content_length, Len(output.body)), Len(input))
    IN  Ok([output EXCEPT !.body = @ \o SubSeq(input, 1, taken)], Simple("complete"), taken)

HandleBody(output, state, input) ==
    LET left  == SizeSub(state.content_length, Len(output.body))
        taken == Lesser(left, Len(input))
        grown == [output EXCEPT !.body = @ \o SubSeq(input, 1, taken)]
    IN  IF Len(grown.body) < state.content_length
        THEN Ok(grown, state, taken)
        ELSE Ok(grown, Simple("complete"), taken)

HandleChunkedEmpty(output, state, input) ==
    LET found == TryFind(input, CRLF, MaxChunkLineSize)
        split == TryFindSplitUnlimited(found.value, SEMICOLON)
        sizeStr == StripSuffixWhileWs(split.head)
        size  == FromChars(sizeStr, 16, ChunkSizeModulus)
        ext   == StripPrefixWhileWs(split.tail)
    IN  IF found.error # "NONE" THEN Unfound(found, output, state, "BAD_REQUEST")
        ELSE IF Len(sizeStr) > MaxChunkSizeSize \/ size = NoNumber THEN Err("BAD_REQUEST")
        ELSE IF size = 0 THEN Ok(output, ChunkedComplete(ext, << >>), found.offset)
        ELSE Ok(output, ChunkedLine(ext, size), found.offset)

HandleChunkedLine(output, state, input) ==
    LET offset == state.chunk_size + Len(CRLF)
    IN  IF Len(input) < offset THEN Stop(output, state)
        ELSE IF SubSeq(input, state.chunk_size + 1, offset) # CRLF THEN Err("BAD_REQUEST")
        ELSE Ok(output,
                ChunkedComplete(state.chunk_ext, SubSeq(input, 1, state.chunk_size)),
                offset)

\* A form that takes the end of a chunk for the end of the body.
HandleChunkedCompleteEnds(output, state, input) == Ok(output, Simple("complete"), ContinueToken)

HandleChunkedComplete(output, state, input) ==
    Ok(output,
       IF state.chunk = << >> THEN TrailingFields(0) ELSE Simple("chunked_empty"),
       ContinueToken)

\* A form that asks to be called again without changing the state.
HandleCompleteStays(output, state, input) == Ok(output, state, ContinueToken)

HandleComplete(output, state, input) ==
    Ok(output,
       IF output.start_line.kind = "request"
       THEN Simple("request_method")
       ELSE Simple("response_version"),
       ContinueToken)

-----------------------------------------------------------------------------
(* Dispatch. *)

Handle(state, output, input) ==
    CASE state.at = "request_method"   -> HandleRequestMethod(output, state, input)
      [] state.at = "request_target"   -> HandleRequestTarget(output, state, input)
      [] state.at = "request_version"  -> HandleRequestVersion(output, state, input)
      [] state.at = "response_version" -> HandleResponseVersion(output, state, input)
      [] state.at = "response_status"  -> HandleResponseStatus(output, state, input)
      [] state.at = "response_reason"  -> HandleResponseReason(output, state, input)
      [] state.at \in {"fields", "trailing_fields"} -> HandleFields(output, state, input)
      [] state.at = "body"             -> HandleBody(output, state, input)
      [] state.at = "chunked_empty"    -> HandleChunkedEmpty(output, state, input)
      [] state.at = "chunked_line"     -> HandleChunkedLine(output, state, input)
      [] state.at = "chunked_complete" -> HandleChunkedComplete(output, state, input)
      [] state.at = "complete"         -> HandleComplete(output, state, input)

ChunkEvent(output, state) ==
    [kind |-> "chunk", message |-> output, ext |-> state.chunk_ext, data |-> state.chunk]

MessageEvent(output) == [kind |-> "message", message |-> output]

\* What the machine makes of the result r of a handler: the new state, then
\* chunk_cb or message_cb.  The message handed to message_cb is replaced by
\* message_type{}, whatever its kind: the local of the same kind that lines 96
\* to 103 make is not used.
Outcome(r, state, output) ==
    IF r.error # NoError
    THEN [error |-> r.error, state |-> state, output |-> output,
          events |-> << >>, offset |-> 0]
    ELSE [error  |-> NoError,
          state  |-> r.state,
          output |-> IF r.state.at = "complete" THEN DefaultMessage ELSE r.output,
          events |-> CASE r.state.at = "chunked_complete" -> << ChunkEvent(r.output, r.state) >>
                       [] r.state.at = "complete" -> << MessageEvent(r.output) >>
                       [] OTHER -> << >>,
          offset |-> r.offset]

\* The private deserialize_impl.
Dispatch(state, output, input) == Outcome(Handle(state, output, input), state, output)
=============================================================================
