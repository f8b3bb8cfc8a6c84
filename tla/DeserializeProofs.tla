-------------------------- MODULE DeserializeProofs --------------------------
(***************************************************************************)
(* Theorems about deserialize_machine for every set of streams, every      *)
(* segmentation and all limits: its types, the assertions of its code, the *)
(* bounds on what it keeps, the order of its bytes, and that the two loops *)
(* and the buffer implement a parser over one queue.                       *)
(*                                                                         *)
(* They rest on what the handlers do, for every limit, every message and   *)
(* every span of bytes: one lemma per handler, and one about the           *)
(* dispatcher that follows from them.                                      *)
(***************************************************************************)
EXTENDS DeserializeMachine, BytesLemmas

\* What a parser state and the message it fills in have in common between two
\* steps: the message has no body but in state "body", where it is not yet
\* complete, and what is counted is within its limit.
StateInv(st, out) ==
    /\ st \in StateType
    /\ MessageTyped(out)
    /\ KindAgrees(st, out)
    /\ st.at = "body" => /\ Len(out.body) < st.content_length
                         /\ st.content_length <= MaxBodySize
    /\ st.at # "body" => out.body = << >>
    /\ st.at = "chunked_line" => st.chunk_size < ChunkSizeModulus
    /\ st.at \in {"fields", "trailing_fields"} =>
           st.consumed_bytes <= MaxFieldSize + Len(CRLF)

\* What the machine needs of the result r of a handler that was shown bytes:
\* a step that reports no error fits message and state together again, and
\* consumes nothing only if there is less than the window of the new state.
Sound(r, bytes) ==
    r.error = NoError =>
        /\ r.state \in StateType
        /\ MessageTyped(r.output)
        /\ r.state.at # "complete" => StateInv(r.state, r.output)
        /\ r.offset # ContinueToken
        /\ r.offset \in 0 .. Len(bytes)
        /\ r.offset = 0 => Len(bytes) < Window(r.state)

-----------------------------------------------------------------------------
(* What the operators of Strings return. *)

\* A limited search succeeds within the limit; when it finds nothing, less
\* than the limit is there; otherwise it gives up.
LEMMA FindLimited ==
    ASSUME NEW str \in Seq(Byte), NEW delim \in Seq(Byte), NEW maxSize \in Nat, NEW r,
           r = TryFind(str, delim, maxSize)
    PROVE  \/ /\ r.error = "NONE"
              /\ r.value \in Seq(Byte)
              /\ r.offset \in 0 .. Len(str)
              /\ r.offset = Len(r.value) + Len(delim)
              /\ Len(r.value) <= maxSize
              /\ maxSize <= MaxStrSize - Len(delim)
           \/ /\ r.error = "NOT_FOUND"
              /\ Len(str) < maxSize + Len(delim)
           \/ r.error \in {"MAX_SIZE_EXCEEDED", "ASSERTION_FAILED"}
  <1> DEFINE window == maxSize + Len(delim)
             part   == SubSeq(str, 1, Lesser(window, Len(str)))
             found  == TryFindUnlimited(part, delim)
  <1>1. /\ part \in Seq(Byte)
        /\ Len(part) <= Len(str)
        /\ Len(part) <= window
        /\ Lesser(window, Len(str)) \in Nat
    BY DEF Lesser
  <1>2. \/ /\ found.error = "NONE"
           /\ found.value \in Seq(Byte)
           /\ found.offset \in 0 .. Len(part)
           /\ found.offset = Len(found.value) + Len(delim)
        \/ found = NotFound("NOT_FOUND")
    BY <1>1, FindUnlimited
  <1>3. r = IF maxSize > MaxStrSize - Len(delim)
            THEN NotFound(IF DebugBuild THEN "ASSERTION_FAILED" ELSE "MAX_SIZE_EXCEEDED")
            ELSE IF found.error = "NOT_FOUND" /\ window <= Len(str)
            THEN NotFound("MAX_SIZE_EXCEEDED")
            ELSE found
    BY DEF TryFind
  <1>4. MaxStrSize \in Nat /\ DebugBuild \in BOOLEAN
    BY StringsAssumption
  <1> HIDE DEF window, part, found
  <1>5. window = maxSize + Len(delim) /\ Len(delim) \in Nat /\ Len(str) \in Nat /\ Len(part) \in Nat
    BY <1>1 DEF window
  <1>6. CASE maxSize > MaxStrSize - Len(delim)
    BY <1>3, <1>6 DEF NotFound
  <1>7. CASE ~ (maxSize > MaxStrSize - Len(delim)) /\ found = NotFound("NOT_FOUND")
    BY <1>3, <1>4, <1>5, <1>7 DEF NotFound
  <1>8. CASE ~ (maxSize > MaxStrSize - Len(delim)) /\ found # NotFound("NOT_FOUND")
    <2>1. r = found
      BY <1>2, <1>3, <1>8
    <2>2. Len(found.value) \in Nat
      BY <1>2, <1>8
    <2> QED BY SMTT(30), <1>1, <1>2, <1>4, <1>5, <1>8, <2>1, <2>2
  <1> QED BY <1>6, <1>7, <1>8

\* to_lowercase keeps the length.
LEMMA ToLowercaseType ==
    ASSUME NEW str \in Seq(Byte)
    PROVE  ToLowercase(str) \in Seq(Byte) /\ Len(ToLowercase(str)) = Len(str)
  <1>1. str \in [1 .. Len(str) -> Byte] /\ DOMAIN str = 1 .. Len(str) /\ Len(str) \in Nat
    OBVIOUS
  <1>2. ToLowercase(str) \in [1 .. Len(str) -> Byte]
    BY <1>1, StringsAssumption DEF ToLowercase
  <1>3. DOMAIN ToLowercase(str) = 1 .. Len(str)
    BY <1>1 DEF ToLowercase
  <1> QED BY <1>1, <1>2, <1>3, SeqDef, LenProperties

\* A converted number is below the limit of its type.
LEMMA FromCharsType ==
    ASSUME NEW str, NEW base, NEW limit \in Nat
    PROVE  FromChars(str, base, limit) # NoNumber => FromChars(str, base, limit) \in 0 .. limit - 1
  BY DEF FromChars

-----------------------------------------------------------------------------
(* Constants and constructors. *)

\* Tuples of one and two elements are sequences.
LEMMA Tuples ==
    ASSUME NEW S, NEW x \in S, NEW y \in S
    PROVE  /\ << x >> \in Seq(S) /\ Len(<< x >>) = 1
           /\ << x, y >> \in Seq(S) /\ Len(<< x, y >>) = 2
  OBVIOUS

\* The delimiters are strings of one or two bytes.
LEMMA Tokens ==
    /\ SP \in Seq(Byte) /\ Len(SP) = 1
    /\ CRLF \in Seq(Byte) /\ Len(CRLF) = 2
    /\ COLON \in Seq(Byte) /\ Len(COLON) = 1
    /\ SEMICOLON \in Seq(Byte) /\ Len(SEMICOLON) = 1
  <1>1. {" ", ":", ";", "CR", "LF"} \subseteq Byte
    BY StringsAssumption
  <1>2. SP \in Seq(Byte) /\ Len(SP) = 1
    BY <1>1, Tuples DEF SP
  <1>3. CRLF \in Seq(Byte) /\ Len(CRLF) = 2
    BY <1>1, Tuples DEF CRLF
  <1>4. COLON \in Seq(Byte) /\ Len(COLON) = 1
    BY <1>1, Tuples DEF COLON
  <1>5. SEMICOLON \in Seq(Byte) /\ Len(SEMICOLON) = 1
    BY <1>1, Tuples DEF SEMICOLON
  <1> QED BY <1>2, <1>3, <1>4, <1>5

\* The limits are sizes to which the length of a delimiter can be added.
LEMMA SizesInRange ==
    /\ MaxStrSize \in Nat /\ SizeModulus \in Nat /\ ContinueToken \in Nat
    /\ ContinueToken = SizeModulus - 1
    /\ 2 < MaxStrSize
    /\ MaxStrSize < ContinueToken
  <1>1. MaxStrSize \in Nat /\ SizeModulus \in Nat /\ 2 < MaxStrSize /\ MaxStrSize < SizeModulus - 1
    BY StringsAssumption, Zenon
  <1> QED BY <1>1 DEF ContinueToken

\* The limits of the elements are sizes, small enough for a search.
LEMMA LimitsInRange ==
    /\ MethodMaxLength \in Nat /\ MethodMaxLength <= MaxStrSize - 2
    /\ VersionMaxLength \in Nat /\ VersionMaxLength <= MaxStrSize - 2
    /\ StatusCodeLength \in Nat
    /\ MaxFieldSize \in Nat /\ MaxFieldSize <= MaxStrSize - 2
    /\ MaxReasonSize \in Nat
    /\ MaxTargetSize \in Nat
    /\ MaxChunkLineSize \in Nat
  <1>1. MaxStrSize \in Nat /\ 2 < MaxStrSize
    BY SizesInRange
  <1>2. {MethodMaxLength, VersionMaxLength, MaxFieldSize, MaxReasonSize, MaxTargetSize,
         MaxChunkLineSize} \subseteq 0 .. MaxStrSize - 2
    BY HandlersAssumption DEF Limits
  <1> QED BY <1>1, <1>2 DEF StatusCodeLength

\* Each alternative of the parser state is made of its parts.
LEMMA StateConstructors ==
    /\ \A at \in SimpleStates : Simple(at) \in StateType
    /\ \A n \in Nat : Fields(n) \in StateType /\ TrailingFields(n) \in StateType
    /\ \A n \in Nat : Body(n) \in StateType
    /\ \A ext \in Seq(Byte), n \in Nat \ {0} : ChunkedLine(ext, n) \in StateType
    /\ \A ext \in Seq(Byte), chunk \in Seq(Byte) : ChunkedComplete(ext, chunk) \in StateType
  BY DEF StateType, Simple, Fields, TrailingFields, Body, ChunkedLine, ChunkedComplete

\* What a parser state of each alternative consists of.
LEMMA StateParts ==
    ASSUME NEW st \in StateType
    PROVE  /\ st.at \in {"fields", "trailing_fields"} =>
                  /\ st = [at |-> st.at, consumed_bytes |-> st.consumed_bytes]
                  /\ st.consumed_bytes \in Nat
           /\ st.at = "body" => st.content_length \in Nat
           /\ st.at = "chunked_line" =>
                  st.chunk_ext \in Seq(Byte) /\ st.chunk_size \in Nat \ {0}
           /\ st.at = "chunked_complete" =>
                  st.chunk_ext \in Seq(Byte) /\ st.chunk \in Seq(Byte)
           /\ st.at \in SimpleStates \cup {"fields", "trailing_fields", "body",
                                            "chunked_line", "chunked_complete"}
  BY DEF StateType, SimpleStates, RequestStates, ResponseStates

\* A handler may stop and wait for more bytes when it is shown less than the
\* window of its state.
LEMMA StopSound ==
    ASSUME NEW st, NEW out, NEW bytes \in Seq(Byte),
           StateInv(st, out),
           st.at # "complete",
           Len(bytes) < Window(st)
    PROVE  Sound(Stop(out, st), bytes)
  <1>1. 0 # ContinueToken /\ 0 \in 0 .. Len(bytes)
    BY SizesInRange
  <1> QED BY <1>1 DEF Stop, Ok, Sound, StateInv

\* A handler whose search did not succeed is sound when the search is.
LEMMA UnfoundSound ==
    ASSUME NEW st, NEW out, NEW bytes \in Seq(Byte), NEW found, NEW status,
           StateInv(st, out),
           status # NoError,
           st.at # "complete",
           found.error \in {"NOT_FOUND", "MAX_SIZE_EXCEEDED", "ASSERTION_FAILED"},
           found.error = "NOT_FOUND" => Len(bytes) < Window(st)
    PROVE  Sound(Unfound(found, out, st, status), bytes)
  <1>1. CASE found.error = "NOT_FOUND"
    BY <1>1, StopSound DEF Unfound
  <1>2. CASE found.error # "NOT_FOUND"
    BY <1>2 DEF Unfound, Err, Sound, NoError
  <1> QED BY <1>1, <1>2

-----------------------------------------------------------------------------
(* Messages. *)

\* Filling in a part of the start line keeps everything else.
LEMMA RequestLineUpdates ==
    ASSUME NEW out, MessageTyped(out), out.start_line.kind = "request"
    PROVE  /\ \A str \in DOMAIN MethodFromStr :
                 LET new == [out EXCEPT !.start_line.method = MethodFromStr[str]]
                 IN  MessageTyped(new) /\ new.start_line.kind = "request" /\ new.body = out.body
           /\ \A str \in DOMAIN TargetFromStr :
                 LET new == [out EXCEPT !.start_line.target = TargetFromStr[str]]
                 IN  MessageTyped(new) /\ new.start_line.kind = "request" /\ new.body = out.body
           /\ \A str \in DOMAIN VersionFromStr :
                 LET new == [out EXCEPT !.start_line.version = VersionFromStr[str]]
                 IN  MessageTyped(new) /\ new.start_line.kind = "request" /\ new.body = out.body
  BY SMTT(30) DEF MessageTyped, StartLineType

\* The same of the parts of a status line.
LEMMA ResponseLineUpdates ==
    ASSUME NEW out, MessageTyped(out), out.start_line.kind = "response"
    PROVE  /\ \A str \in DOMAIN VersionFromStr :
                 LET new == [out EXCEPT !.start_line.version = VersionFromStr[str]]
                 IN  MessageTyped(new) /\ new.start_line.kind = "response" /\ new.body = out.body
           /\ \A code \in Nat :
                 LET new == [out EXCEPT !.start_line.status = code]
                 IN  MessageTyped(new) /\ new.start_line.kind = "response" /\ new.body = out.body
           /\ \A str \in Seq(Byte) :
                 LET new == [out EXCEPT !.start_line.reason = str]
                 IN  MessageTyped(new) /\ new.start_line.kind = "response" /\ new.body = out.body
  <1>1. \A str \in DOMAIN VersionFromStr :
            LET new == [out EXCEPT !.start_line.version = VersionFromStr[str]]
            IN  MessageTyped(new) /\ new.start_line.kind = "response" /\ new.body = out.body
    BY SMTT(30) DEF MessageTyped, StartLineType
  <1>2. \A code \in Nat :
            LET new == [out EXCEPT !.start_line.status = code]
            IN  MessageTyped(new) /\ new.start_line.kind = "response" /\ new.body = out.body
    BY DEF MessageTyped, StartLineType
  <1>3. \A str \in Seq(Byte) :
            LET new == [out EXCEPT !.start_line.reason = str]
            IN  MessageTyped(new) /\ new.start_line.kind = "response" /\ new.body = out.body
    <2> SUFFICES ASSUME NEW str \in Seq(Byte), NEW new,
                        new = [out EXCEPT !.start_line.reason = str]
                 PROVE  MessageTyped(new) /\ new.start_line.kind = "response" /\ new.body = out.body
      OBVIOUS
    <2> DEFINE line == [out.start_line EXCEPT !.reason = str]
    <2>1. new = [start_line |-> line, fields |-> out.fields, body |-> out.body]
      BY DEF MessageTyped
    <2>2. line \in StartLineType /\ line.kind = "response"
      BY DEF MessageTyped, StartLineType
    <2> QED BY <2>1, <2>2 DEF MessageTyped
  <1> QED BY <1>1, <1>2, <1>3

-----------------------------------------------------------------------------
(* What every handler relies on. *)

\* A search for one of the line delimiters: found within the limit, or the
\* reason why not.
LEMMA Search ==
    ASSUME NEW bytes \in Seq(Byte), NEW delim \in {SP, CRLF}, NEW maxSize \in Nat, NEW found,
           found = TryFind(bytes, delim, maxSize)
    PROVE  \/ /\ found.error = "NONE"
              /\ found.value \in Seq(Byte)
              /\ found.offset \in 1 .. Len(bytes)
              /\ found.offset < ContinueToken
              /\ found.offset = Len(found.value) + Len(delim)
              /\ Len(found.value) <= maxSize
              /\ maxSize <= MaxStrSize - Len(delim)
           \/ /\ found.error \in {"NOT_FOUND", "MAX_SIZE_EXCEEDED", "ASSERTION_FAILED"}
              /\ found.error = "NOT_FOUND" => Len(bytes) < maxSize + Len(delim)
  <1>1. delim \in Seq(Byte) /\ Len(delim) \in Nat /\ 1 <= Len(delim)
    <2>1. CASE delim = SP
      BY <2>1, Tokens
    <2>2. CASE delim = CRLF
      BY <2>2, Tokens
    <2> QED BY <2>1, <2>2
  <1>2. \/ /\ found.error = "NONE"
           /\ found.value \in Seq(Byte)
           /\ found.offset \in 0 .. Len(bytes)
           /\ found.offset = Len(found.value) + Len(delim)
           /\ Len(found.value) <= maxSize
           /\ maxSize <= MaxStrSize - Len(delim)
        \/ /\ found.error = "NOT_FOUND"
           /\ Len(bytes) < maxSize + Len(delim)
        \/ found.error \in {"MAX_SIZE_EXCEEDED", "ASSERTION_FAILED"}
    BY <1>1, FindLimited
  <1>3. CASE found.error = "NONE"
    <2>1. Len(found.value) \in Nat /\ Len(bytes) \in Nat
      BY <1>2, <1>3
    <2>2. /\ found.offset \in 0 .. Len(bytes)
          /\ found.offset = Len(found.value) + Len(delim)
          /\ Len(found.value) <= maxSize
          /\ maxSize <= MaxStrSize - Len(delim)
      BY <1>2, <1>3
    <2>3. found.offset \in 1 .. Len(bytes) /\ found.offset < ContinueToken
      <3>1. Len(found.value) + Len(delim) <= MaxStrSize
        BY <1>1, <2>1, <2>2, SizesInRange
      <3>2. found.offset \in 1 .. Len(bytes)
        <4>1. 1 <= Len(found.value) + Len(delim)
          BY <1>1, <2>1
        <4>2. 1 <= found.offset
          BY <2>2, <4>1
        <4> QED BY <2>1, <2>2, <4>2
      <3>3. found.offset <= MaxStrSize
        BY <2>2, <3>1
      <3>4. found.offset \in Nat
        BY <3>2
      <3> QED BY <3>2, <3>3, <3>4, SizesInRange
    <2> QED BY <1>2, <1>3, <2>2, <2>3
  <1>4. CASE found.error # "NONE"
    BY <1>2, <1>4
  <1> QED BY <1>3, <1>4

\* To report an error is always sound.
LEMMA ErrSound ==
    ASSUME NEW status, status # NoError, NEW bytes
    PROVE  Sound(Err(status), bytes)
  BY DEF Err, Sound

\* Consuming bytes and going on to a state that fits the message is sound.
LEMMA OkSound ==
    ASSUME NEW st \in StateType, NEW out, NEW bytes \in Seq(Byte), NEW offset \in 1 .. Len(bytes),
           MessageTyped(out),
           st.at # "complete" => StateInv(st, out),
           offset < ContinueToken
    PROVE  Sound(Ok(out, st, offset), bytes)
  <1>1. offset # ContinueToken /\ offset # 0 /\ offset \in 0 .. Len(bytes)
    BY SizesInRange
  <1> QED BY <1>1 DEF Ok, Sound, NoError

\* A simple state, or the first of the fields, fits every message without a
\* body whose start line is of its kind.
LEMMA NextStateInv ==
    ASSUME NEW out, MessageTyped(out), out.body = << >>
    PROVE  /\ \A at \in SimpleStates :
                 /\ at \in RequestStates => out.start_line.kind = "request"
                 /\ at \in ResponseStates => out.start_line.kind = "response"
                 => StateInv(Simple(at), out)
           /\ StateInv(Fields(0), out)
           /\ StateInv(TrailingFields(0), out)
  <1>1. 0 <= MaxFieldSize + Len(CRLF)
    BY Tokens, LimitsInRange
  <1>2. ASSUME NEW at \in SimpleStates,
               at \in RequestStates => out.start_line.kind = "request",
               at \in ResponseStates => out.start_line.kind = "response"
        PROVE  StateInv(Simple(at), out)
    <2>1. Simple(at) \in StateType /\ Simple(at).at = at
      BY StateConstructors DEF Simple
    <2>2. at \notin {"body", "chunked_line", "fields", "trailing_fields"}
      BY DEF SimpleStates, RequestStates, ResponseStates
    <2> QED BY <1>2, <2>1, <2>2 DEF StateInv, KindAgrees
  <1>3. StateInv(Fields(0), out)
    <2>1. Fields(0) \in StateType /\ Fields(0).at = "fields" /\ Fields(0).consumed_bytes = 0
      BY StateConstructors DEF Fields
    <2>2. "fields" \notin RequestStates \cup ResponseStates
      BY DEF RequestStates, ResponseStates
    <2> QED BY <1>1, <2>1, <2>2 DEF StateInv, KindAgrees
  <1>4. StateInv(TrailingFields(0), out)
    <2>1. /\ TrailingFields(0) \in StateType
          /\ TrailingFields(0).at = "trailing_fields"
          /\ TrailingFields(0).consumed_bytes = 0
      BY StateConstructors DEF TrailingFields
    <2>2. "trailing_fields" \notin RequestStates \cup ResponseStates
      BY DEF RequestStates, ResponseStates
    <2> QED BY <1>1, <2>1, <2>2 DEF StateInv, KindAgrees
  <1> QED BY <1>2, <1>3, <1>4

-----------------------------------------------------------------------------
(* The start line. *)

\* The handler of the method (message.cpp line 127 on) is sound.
LEMMA RequestMethodSound ==
    ASSUME NEW st, NEW out, NEW bytes \in Seq(Byte), StateInv(st, out), st.at = "request_method"
    PROVE  Sound(HandleRequestMethod(out, st, bytes), bytes)
  <1> DEFINE found == TryFind(bytes, SP, MethodMaxLength)
             new   == [out EXCEPT !.start_line.method = MethodFromStr[found.value]]
  <1>1. MethodMaxLength \in Nat
    BY LimitsInRange
  <1>2. CASE found.error # "NONE"
    <2>1. /\ found.error \in {"NOT_FOUND", "MAX_SIZE_EXCEEDED", "ASSERTION_FAILED"}
          /\ found.error = "NOT_FOUND" => Len(bytes) < Window(st)
      BY <1>1, <1>2, Search DEF Window
    <2>2. Sound(Unfound(found, out, st, "NOT_IMPLEMENTED"), bytes)
      BY <2>1, UnfoundSound DEF NoError
    <2> QED BY <1>2, <2>2 DEF HandleRequestMethod
  <1>3. CASE found.error = "NONE" /\ found.value \notin DOMAIN MethodFromStr
    BY <1>3, ErrSound DEF HandleRequestMethod, NoError
  <1>4. CASE found.error = "NONE" /\ found.value \in DOMAIN MethodFromStr
    <2>1. found.offset \in 1 .. Len(bytes) /\ found.offset < ContinueToken
      BY <1>1, <1>4, Search
    <2>2. MessageTyped(new) /\ new.start_line.kind = "request" /\ new.body = << >>
      BY <1>4, RequestLineUpdates DEF StateInv, KindAgrees, RequestStates
    <2>3. StateInv(Simple("request_target"), new) /\ Simple("request_target") \in StateType
      BY <2>2, NextStateInv, StateConstructors DEF SimpleStates, RequestStates, ResponseStates
    <2>4. Sound(Ok(new, Simple("request_target"), found.offset), bytes)
      BY <2>1, <2>2, <2>3, OkSound
    <2> QED BY <1>4, <2>4 DEF HandleRequestMethod
  <1> QED BY <1>2, <1>3, <1>4

\* The handler of the target is sound.
LEMMA RequestTargetSound ==
    ASSUME NEW st, NEW out, NEW bytes \in Seq(Byte), StateInv(st, out), st.at = "request_target"
    PROVE  Sound(HandleRequestTarget(out, st, bytes), bytes)
  <1> DEFINE found == TryFind(bytes, SP, MaxTargetSize)
             new   == [out EXCEPT !.start_line.target = TargetFromStr[found.value]]
  <1>1. MaxTargetSize \in Nat
    BY LimitsInRange
  <1>2. CASE found.error # "NONE"
    <2>1. /\ found.error \in {"NOT_FOUND", "MAX_SIZE_EXCEEDED", "ASSERTION_FAILED"}
          /\ found.error = "NOT_FOUND" => Len(bytes) < Window(st)
      BY <1>1, <1>2, Search DEF Window
    <2>2. Sound(Unfound(found, out, st, "URI_TOO_LONG"), bytes)
      BY <2>1, UnfoundSound DEF NoError
    <2> QED BY <1>2, <2>2 DEF HandleRequestTarget
  <1>3. CASE found.error = "NONE" /\ found.value \notin DOMAIN TargetFromStr
    BY <1>3, ErrSound DEF HandleRequestTarget, NoError
  <1>4. CASE found.error = "NONE" /\ found.value \in DOMAIN TargetFromStr
    <2>1. found.offset \in 1 .. Len(bytes) /\ found.offset < ContinueToken
      BY <1>1, <1>4, Search
    <2>2. MessageTyped(new) /\ new.start_line.kind = "request" /\ new.body = << >>
      BY <1>4, RequestLineUpdates DEF StateInv, KindAgrees, RequestStates
    <2>3. StateInv(Simple("request_version"), new) /\ Simple("request_version") \in StateType
      BY <2>2, NextStateInv, StateConstructors DEF SimpleStates, RequestStates, ResponseStates
    <2>4. Sound(Ok(new, Simple("request_version"), found.offset), bytes)
      BY <2>1, <2>2, <2>3, OkSound
    <2> QED BY <1>4, <2>4 DEF HandleRequestTarget
  <1> QED BY <1>2, <1>3, <1>4

\* The handler of the version of a request is sound: the fields follow.
LEMMA RequestVersionSound ==
    ASSUME NEW st, NEW out, NEW bytes \in Seq(Byte), StateInv(st, out), st.at = "request_version"
    PROVE  Sound(HandleRequestVersion(out, st, bytes), bytes)
  <1> DEFINE found == TryFind(bytes, CRLF, VersionMaxLength)
             new   == [out EXCEPT !.start_line.version = VersionFromStr[found.value]]
  <1>1. VersionMaxLength \in Nat
    BY LimitsInRange
  <1>2. CASE found.error # "NONE"
    <2>1. /\ found.error \in {"NOT_FOUND", "MAX_SIZE_EXCEEDED", "ASSERTION_FAILED"}
          /\ found.error = "NOT_FOUND" => Len(bytes) < Window(st)
      BY <1>1, <1>2, Search DEF Window
    <2>2. Sound(Unfound(found, out, st, "BAD_REQUEST"), bytes)
      BY <2>1, UnfoundSound DEF NoError
    <2> QED BY <1>2, <2>2 DEF HandleRequestVersion
  <1>3. CASE found.error = "NONE" /\ found.value \notin DOMAIN VersionFromStr
    BY <1>3, ErrSound DEF HandleRequestVersion, NoError
  <1>4. CASE found.error = "NONE" /\ found.value \in DOMAIN VersionFromStr
    <2>1. found.offset \in 1 .. Len(bytes) /\ found.offset < ContinueToken
      BY <1>1, <1>4, Search
    <2>2. MessageTyped(new) /\ new.start_line.kind = "request" /\ new.body = << >>
      BY <1>4, RequestLineUpdates DEF StateInv, KindAgrees, RequestStates
    <2>3. StateInv(Fields(0), new) /\ Fields(0) \in StateType
      BY <2>2, NextStateInv, StateConstructors
    <2>4. Sound(Ok(new, Fields(0), found.offset), bytes)
      BY <2>1, <2>2, <2>3, OkSound
    <2> QED BY <1>4, <2>4 DEF HandleRequestVersion
  <1> QED BY <1>2, <1>3, <1>4

\* The handler of the version of a response is sound.
LEMMA ResponseVersionSound ==
    ASSUME NEW st, NEW out, NEW bytes \in Seq(Byte), StateInv(st, out), st.at = "response_version"
    PROVE  Sound(HandleResponseVersion(out, st, bytes), bytes)
  <1> DEFINE found == TryFind(bytes, SP, VersionMaxLength)
             new   == [out EXCEPT !.start_line.version = VersionFromStr[found.value]]
  <1>1. VersionMaxLength \in Nat
    BY LimitsInRange
  <1>2. CASE found.error # "NONE"
    <2>1. /\ found.error \in {"NOT_FOUND", "MAX_SIZE_EXCEEDED", "ASSERTION_FAILED"}
          /\ found.error = "NOT_FOUND" => Len(bytes) < Window(st)
      BY <1>1, <1>2, Search DEF Window
    <2>2. Sound(Unfound(found, out, st, "BAD_REQUEST"), bytes)
      BY <2>1, UnfoundSound DEF NoError
    <2> QED BY <1>2, <2>2 DEF HandleResponseVersion
  <1>3. CASE found.error = "NONE" /\ found.value \notin DOMAIN VersionFromStr
    BY <1>3, ErrSound DEF HandleResponseVersion, NoError
  <1>4. CASE found.error = "NONE" /\ found.value \in DOMAIN VersionFromStr
    <2>1. found.offset \in 1 .. Len(bytes) /\ found.offset < ContinueToken
      BY <1>1, <1>4, Search
    <2>2. MessageTyped(new) /\ new.start_line.kind = "response" /\ new.body = << >>
      BY <1>4, ResponseLineUpdates DEF StateInv, KindAgrees, ResponseStates
    <2>3. StateInv(Simple("response_status"), new) /\ Simple("response_status") \in StateType
      BY <2>2, NextStateInv, StateConstructors DEF SimpleStates, RequestStates, ResponseStates
    <2>4. Sound(Ok(new, Simple("response_status"), found.offset), bytes)
      BY <2>1, <2>2, <2>3, OkSound
    <2> QED BY <1>4, <2>4 DEF HandleResponseVersion
  <1> QED BY <1>2, <1>3, <1>4

\* The handler of the reason is sound: the fields follow.
LEMMA ResponseReasonSound ==
    ASSUME NEW st, NEW out, NEW bytes \in Seq(Byte), StateInv(st, out), st.at = "response_reason"
    PROVE  Sound(HandleResponseReason(out, st, bytes), bytes)
  <1> DEFINE found == TryFind(bytes, CRLF, MaxReasonSize)
             new   == [out EXCEPT !.start_line.reason = found.value]
  <1>1. MaxReasonSize \in Nat
    BY LimitsInRange
  <1>2. CASE found.error # "NONE"
    <2>1. /\ found.error \in {"NOT_FOUND", "MAX_SIZE_EXCEEDED", "ASSERTION_FAILED"}
          /\ found.error = "NOT_FOUND" => Len(bytes) < Window(st)
      BY <1>1, <1>2, Search DEF Window
    <2>2. Sound(Unfound(found, out, st, "BAD_REQUEST"), bytes)
      BY <2>1, UnfoundSound DEF NoError
    <2> QED BY <1>2, <2>2 DEF HandleResponseReason
  <1>4. CASE found.error = "NONE"
    <2>1. found.value \in Seq(Byte) /\ found.offset \in 1 .. Len(bytes) /\ found.offset < ContinueToken
      BY <1>1, <1>4, Search
    <2>2. MessageTyped(new) /\ new.start_line.kind = "response" /\ new.body = << >>
      BY <1>4, <2>1, ResponseLineUpdates DEF StateInv, KindAgrees, ResponseStates
    <2>3. StateInv(Fields(0), new) /\ Fields(0) \in StateType
      BY <2>2, NextStateInv, StateConstructors
    <2>4. Sound(Ok(new, Fields(0), found.offset), bytes)
      BY <2>1, <2>2, <2>3, OkSound
    <2> QED BY <1>4, <2>4 DEF HandleResponseReason
  <1> QED BY <1>2, <1>4

\* The handler of the status code is sound: the code is a number.
LEMMA ResponseStatusSound ==
    ASSUME NEW st, NEW out, NEW bytes \in Seq(Byte), StateInv(st, out), st.at = "response_status"
    PROVE  Sound(HandleResponseStatus(out, st, bytes), bytes)
  <1> DEFINE found == TryFind(bytes, SP, StatusCodeLength)
             code  == FromChars(found.value, 10, 2 ^ 16)
             new   == [out EXCEPT !.start_line.status = code]
  <1>1. StatusCodeLength \in Nat
    BY LimitsInRange
  <1>2. CASE found.error # "NONE"
    <2>1. /\ found.error \in {"NOT_FOUND", "MAX_SIZE_EXCEEDED", "ASSERTION_FAILED"}
          /\ found.error = "NOT_FOUND" => Len(bytes) < Window(st)
      BY <1>1, <1>2, Search DEF Window
    <2>2. Sound(Unfound(found, out, st, "BAD_REQUEST"), bytes)
      BY <2>1, UnfoundSound DEF NoError
    <2> QED BY <1>2, <2>2 DEF HandleResponseStatus
  <1>3. CASE found.error = "NONE" /\ (Len(found.value) # StatusCodeLength \/ code = NoNumber)
    BY <1>3, ErrSound DEF HandleResponseStatus, NoError
  <1>4. CASE found.error = "NONE" /\ ~ (Len(found.value) # StatusCodeLength \/ code = NoNumber)
    <2>1. found.offset \in 1 .. Len(bytes) /\ found.offset < ContinueToken
      BY <1>1, <1>4, Search
    <2>2. code \in Nat
      <3>1. 2 ^ 16 \in Nat
        OBVIOUS
      <3>2. code \in 0 .. 2 ^ 16 - 1
        BY <1>4, <3>1, FromCharsType
      <3> QED BY <3>1, <3>2
    <2>3. MessageTyped(new) /\ new.start_line.kind = "response" /\ new.body = << >>
      BY <2>2, ResponseLineUpdates DEF StateInv, KindAgrees, ResponseStates
    <2>4. StateInv(Simple("response_reason"), new) /\ Simple("response_reason") \in StateType
      BY <2>3, NextStateInv, StateConstructors DEF SimpleStates, RequestStates, ResponseStates
    <2>5. Sound(Ok(new, Simple("response_reason"), found.offset), bytes)
      BY <2>1, <2>3, <2>4, OkSound
    <2> QED BY <1>4, <2>5 DEF HandleResponseStatus
  <1> QED BY <1>2, <1>3, <1>4

-----------------------------------------------------------------------------
(* The fields. *)

\* A field that is added or joined keeps the fields well typed.
LEMMA AddFieldTyped ==
    ASSUME NEW fields, FieldsTyped(fields), NEW key \in Seq(Byte), NEW value \in Seq(Byte)
    PROVE  FieldsTyped(AddField(fields, key, value))
  <1>1. << ",", " " >> \in Seq(Byte)
    <2>1. "," \in Byte /\ " " \in Byte
      BY StringsAssumption
    <2> QED BY <2>1, Tuples
  <1>2. key \in DOMAIN fields => fields[key] \o << ",", " " >> \o value \in Seq(Byte)
    <2> SUFFICES ASSUME key \in DOMAIN fields
                 PROVE  fields[key] \o << ",", " " >> \o value \in Seq(Byte)
      OBVIOUS
    <2>1. fields[key] \in Seq(Byte)
      BY DEF FieldsTyped
    <2>2. fields[key] \o << ",", " " >> \in Seq(Byte)
      BY <1>1, <2>1, ConcatProperties
    <2> QED BY <2>2, ConcatProperties
  <1>3. DOMAIN AddField(fields, key, value) = DOMAIN fields \cup {key}
    BY DEF AddField
  <1>4. ASSUME NEW k \in DOMAIN fields \cup {key}
        PROVE  k \in Seq(Byte) /\ AddField(fields, key, value)[k] \in Seq(Byte)
    <2>1. CASE k # key
      BY <2>1 DEF AddField, FieldsTyped
    <2>2. CASE k = key
      BY <1>2, <2>2 DEF AddField
    <2> QED BY <2>1, <2>2
  <1> QED BY <1>3, <1>4 DEF FieldsTyped

\* The announced length is a number, 0 when there is none.
LEMMA BodyLengthType == ASSUME NEW fields PROVE BodyLength(fields) \in Nat
  <1>1. FromChars(fields[ContentLength], 10, SizeModulus) # NoNumber =>
            FromChars(fields[ContentLength], 10, SizeModulus) \in 0 .. SizeModulus - 1
    BY SizesInRange, FromCharsType
  <1> QED BY <1>1, SizesInRange DEF BodyLength

\* The end of the fields: how the body is framed.
LEMMA FinalizeFieldsSound ==
    ASSUME NEW out, MessageTyped(out), out.body = << >>,
           NEW bytes \in Seq(Byte), NEW offset \in 1 .. Len(bytes), offset < ContinueToken
    PROVE  Sound(FinalizeFields(out, offset), bytes)
  <1> DEFINE length == BodyLength(out.fields)
  <1>1. Sound(Ok(out, Simple("chunked_empty"), offset), bytes)
    BY NextStateInv, StateConstructors, OkSound DEF SimpleStates, RequestStates, ResponseStates
  <1>2. Sound(Ok(out, Simple("complete"), offset), bytes)
    <2>1. Simple("complete") \in StateType /\ Simple("complete").at = "complete"
      BY StateConstructors DEF SimpleStates, Simple
    <2> QED BY <2>1, OkSound
  <1>3. ASSUME length # 0, length <= MaxBodySize
        PROVE  Sound(Ok(out, Body(length), offset), bytes)
    <2>1. Body(length) \in StateType /\ Body(length).at = "body" /\ Body(length).content_length = length
      BY BodyLengthType, StateConstructors DEF Body
    <2>2. Len(out.body) < length
      BY <1>3, BodyLengthType
    <2>3. StateInv(Body(length), out)
      BY <1>3, <2>1, <2>2 DEF StateInv, KindAgrees, RequestStates, ResponseStates
    <2> QED BY <2>1, <2>3, OkSound
  <1>4. \A status \in {"BAD_REQUEST", "CONTENT_TOO_LARGE"} : Sound(Err(status), bytes)
    BY ErrSound DEF NoError
  <1>5. length > MaxBodySize \/ length <= MaxBodySize
    BY BodyLengthType, HandlersAssumption
  <1> QED BY <1>1, <1>2, <1>3, <1>4, <1>5 DEF FinalizeFields

\* The bytes left for the fields are a size, and a line that is found within
\* them keeps the count within the budget.
LEMMA FieldsBudget ==
    ASSUME NEW consumed \in Nat, consumed <= MaxFieldSize + 2
    PROVE  /\ SizeSub(MaxFieldSize, consumed) \in Nat
           /\ SizeSub(MaxFieldSize, consumed) <= MaxStrSize - 2 =>
                  SizeSub(MaxFieldSize, consumed) = MaxFieldSize - consumed
  <1>1. /\ MaxFieldSize \in Nat /\ MaxStrSize \in Nat /\ SizeModulus \in Nat
        /\ 2 < MaxStrSize /\ MaxStrSize < SizeModulus - 1
    BY SizesInRange, LimitsInRange
  <1> QED BY <1>1 DEF SizeSub

\* Replacing the fields of a message keeps everything else.
LEMMA FieldsUpdate ==
    ASSUME NEW out, MessageTyped(out), NEW fields, FieldsTyped(fields), NEW new,
           new = [out EXCEPT !.fields = fields]
    PROVE  MessageTyped(new) /\ new.start_line = out.start_line /\ new.body = out.body
  <1>1. new = [start_line |-> out.start_line, fields |-> fields, body |-> out.body]
    BY DEF MessageTyped
  <1>2. out.start_line \in StartLineType /\ out.body \in Seq(Byte)
    BY DEF MessageTyped
  <1>3. new.start_line = out.start_line /\ new.fields = fields /\ new.body = out.body
    BY <1>1
  <1>4. MessageTyped(new)
    BY <1>1, <1>2, <1>3 DEF MessageTyped
  <1> QED BY <1>3, <1>4

\* Replacing the body of a message keeps everything else.
LEMMA BodyUpdate ==
    ASSUME NEW out, MessageTyped(out), NEW body \in Seq(Byte), NEW new,
           new = [out EXCEPT !.body = body]
    PROVE  MessageTyped(new) /\ new.start_line = out.start_line /\ new.body = body
  <1>1. new = [start_line |-> out.start_line, fields |-> out.fields, body |-> body]
    BY DEF MessageTyped
  <1>2. out.start_line \in StartLineType /\ FieldsTyped(out.fields)
    BY DEF MessageTyped
  <1>3. new.start_line = out.start_line /\ new.fields = out.fields /\ new.body = body
    BY <1>1
  <1>4. MessageTyped(new)
    BY <1>1, <1>2, <1>3 DEF MessageTyped
  <1> QED BY <1>3, <1>4

\* The handler of both sections of fields is sound: a line within the budget
\* is counted, the empty line ends the section.
LEMMA FieldsSound ==
    ASSUME NEW st, NEW out, NEW bytes \in Seq(Byte), StateInv(st, out),
           st.at \in {"fields", "trailing_fields"}
    PROVE  Sound(HandleFields(out, st, bytes), bytes)
  <1> DEFINE budget == SizeSub(MaxFieldSize, st.consumed_bytes)
             found == TryFind(bytes, CRLF, budget)
             line  == found.value
             colon == TryFindUnlimited(line, COLON)
             key   == ToLowercase(colon.value)
             value == StripWs(SubSeq(line, colon.offset + 1, Len(line)))
             new   == [out EXCEPT !.fields = AddField(@, key, value)]
             next  == [st EXCEPT !.consumed_bytes = @ + found.offset]
  <1>1. /\ st = [at |-> st.at, consumed_bytes |-> st.consumed_bytes]
        /\ st.consumed_bytes \in Nat
        /\ st.consumed_bytes <= MaxFieldSize + 2
        /\ out.body = << >>
        /\ MessageTyped(out)
    BY StateParts, Tokens DEF StateInv
  <1>2. /\ budget \in Nat
        /\ budget <= MaxStrSize - 2 => budget = MaxFieldSize - st.consumed_bytes
    BY <1>1, FieldsBudget
  <1>3. CASE found.error # "NONE"
    <2>1. /\ found.error \in {"NOT_FOUND", "MAX_SIZE_EXCEEDED", "ASSERTION_FAILED"}
          /\ found.error = "NOT_FOUND" => Len(bytes) < Window(st)
      BY <1>2, <1>3, Search DEF Window
    <2>2. Sound(Unfound(found, out, st, "CONTENT_TOO_LARGE"), bytes)
      BY <2>1, UnfoundSound DEF NoError
    <2> QED BY <1>3, <2>2 DEF HandleFields
  <1>4. CASE found.error = "NONE"
    <2>1. /\ line \in Seq(Byte)
          /\ found.offset \in 1 .. Len(bytes)
          /\ found.offset < ContinueToken
          /\ found.offset = Len(line) + 2
          /\ Len(line) <= budget
          /\ budget <= MaxStrSize - 2
      BY <1>2, <1>4, Search, Tokens
    <2>2. CASE line # << >> /\ colon.error # "NONE"
      BY <1>4, <2>2, ErrSound DEF HandleFields, NoError
    <2>3. CASE line # << >> /\ colon.error = "NONE"
      <3>1. colon.value \in Seq(Byte) /\ colon.offset \in 0 .. Len(line)
        BY <2>1, <2>3, Tokens, FindUnlimited DEF NotFound
      <3>2. key \in Seq(Byte)
        BY <3>1, ToLowercaseType
      <3>3. value \in Seq(Byte)
        <4>1. SubSeq(line, colon.offset + 1, Len(line)) \in Seq(Byte)
          BY <2>1, <3>1
        <4> QED BY <4>1, StripWsType
      <3>4. MessageTyped(new) /\ new.start_line = out.start_line /\ new.body = << >>
        <4>1. FieldsTyped(AddField(out.fields, key, value))
          BY <1>1, <3>2, <3>3, AddFieldTyped DEF MessageTyped
        <4>2. new = [out EXCEPT !.fields = AddField(out.fields, key, value)]
          OBVIOUS
        <4> HIDE DEF key, value, new
        <4> QED BY <1>1, <4>1, <4>2, FieldsUpdate
      <3>5. /\ next.at = st.at
            /\ next.consumed_bytes = st.consumed_bytes + found.offset
            /\ next = [at |-> st.at, consumed_bytes |-> st.consumed_bytes + found.offset]
        BY <1>1
      <3>6. /\ st.consumed_bytes + found.offset \in Nat
            /\ st.consumed_bytes + found.offset <= MaxFieldSize + 2
        <4>1. Len(line) \in Nat /\ MaxFieldSize \in Nat
          BY <2>1, LimitsInRange
        <4>2. budget = MaxFieldSize - st.consumed_bytes
          BY <1>2, <2>1
        <4> HIDE DEF budget, found, line
        <4> QED BY <1>1, <2>1, <4>1, <4>2
      <3>7. next \in StateType
        BY <3>5, <3>6 DEF StateType
      <3>8. StateInv(next, new)
        <4> HIDE DEF next, new
        <4> QED BY <3>4, <3>5, <3>6, <3>7, Tokens DEF StateInv, KindAgrees, RequestStates, ResponseStates
      <3>9. Sound(Ok(new, next, found.offset), bytes)
        BY <2>1, <3>4, <3>7, <3>8, OkSound
      <3> QED BY <1>4, <2>3, <3>9 DEF HandleFields, Counted
    <2>4. CASE line = << >> /\ st.at = "fields"
      BY <1>1, <1>4, <2>1, <2>4, FinalizeFieldsSound DEF HandleFields
    <2>5. CASE line = << >> /\ st.at = "trailing_fields"
      <3>1. Simple("complete") \in StateType /\ Simple("complete").at = "complete"
        BY StateConstructors DEF SimpleStates, Simple
      <3>2. Sound(Ok(out, Simple("complete"), found.offset), bytes)
        BY <1>1, <2>1, <3>1, OkSound
      <3> QED BY <1>4, <2>5, <3>2 DEF HandleFields
    <2> QED BY <2>2, <2>3, <2>4, <2>5
  <1> QED BY <1>3, <1>4

-----------------------------------------------------------------------------
(* Chunk states. *)

\* The states of a chunk fit every message without a body.
LEMMA ChunkedLineInv ==
    ASSUME NEW out, MessageTyped(out), out.body = << >>,
           NEW ext \in Seq(Byte), NEW size \in Nat \ {0}, size < ChunkSizeModulus
    PROVE  StateInv(ChunkedLine(ext, size), out) /\ ChunkedLine(ext, size) \in StateType
  <1>1. /\ ChunkedLine(ext, size) \in StateType
        /\ ChunkedLine(ext, size).at = "chunked_line"
        /\ ChunkedLine(ext, size).chunk_size = size
    BY StateConstructors DEF ChunkedLine
  <1>2. "chunked_line" \notin RequestStates \cup ResponseStates
    BY DEF RequestStates, ResponseStates
  <1> QED BY <1>1, <1>2 DEF StateInv, KindAgrees

\* So does the state in which chunk_cb is called.
LEMMA ChunkedCompleteInv ==
    ASSUME NEW out, MessageTyped(out), out.body = << >>,
           NEW ext \in Seq(Byte), NEW chunk \in Seq(Byte)
    PROVE  StateInv(ChunkedComplete(ext, chunk), out) /\ ChunkedComplete(ext, chunk) \in StateType
  <1>1. /\ ChunkedComplete(ext, chunk) \in StateType
        /\ ChunkedComplete(ext, chunk).at = "chunked_complete"
    BY StateConstructors DEF ChunkedComplete
  <1>2. "chunked_complete" \notin RequestStates \cup ResponseStates
    BY DEF RequestStates, ResponseStates
  <1> QED BY <1>1, <1>2 DEF StateInv, KindAgrees

-----------------------------------------------------------------------------
(* Bodies. *)

\* The limits on bodies and chunks keep the offsets below continue_token.
LEMMA BodyLimitsInRange ==
    /\ MaxBodySize \in Nat
    /\ MaxBodySize < ContinueToken
    /\ ChunkSizeModulus \in Nat
    /\ ChunkSizeModulus + 2 <= ContinueToken
  <1>1. ChunkSizeModulus \in 1 .. SizeModulus - 3 /\ MaxBodySize \in 0 .. SizeModulus - 2
    BY HandlersAssumption, Zenon
  <1> QED BY <1>1, SizesInRange

\* How much of a span the body takes: all of it, or what completes the body.
LEMMA BodyTaken ==
    ASSUME NEW length \in Nat, NEW have \in Nat, NEW shown \in Nat, have < length,
           length <= MaxBodySize,
           NEW taken, taken = Lesser(SizeSub(length, have), shown)
    PROVE  /\ taken \in 0 .. shown
           /\ taken < ContinueToken
           /\ have + taken < length => taken = shown
           /\ ~ (have + taken < length) => have + taken = length /\ taken \in 1 .. shown
  BY BodyLimitsInRange, SizesInRange DEF Lesser, SizeSub

\* message.cpp lines 477 to 496.
LEMMA BodySound ==
    ASSUME NEW st, NEW out, NEW bytes \in Seq(Byte), StateInv(st, out), st.at = "body"
    PROVE  Sound(HandleBody(out, st, bytes), bytes)
  <1> DEFINE taken == Lesser(SizeSub(st.content_length, Len(out.body)), Len(bytes))
             more  == SubSeq(bytes, 1, taken)
             grown == [out EXCEPT !.body = out.body \o more]
  <1>1. /\ st \in StateType
        /\ st.content_length \in Nat
        /\ Len(out.body) < st.content_length
        /\ st.content_length <= MaxBodySize
        /\ MessageTyped(out)
        /\ out.body \in Seq(Byte)
        /\ Len(out.body) \in Nat
        /\ Len(bytes) \in Nat
    BY StateParts DEF StateInv, MessageTyped
  <1>2. /\ taken \in 0 .. Len(bytes)
        /\ taken < ContinueToken
        /\ Len(out.body) + taken < st.content_length => taken = Len(bytes)
        /\ ~ (Len(out.body) + taken < st.content_length) => taken \in 1 .. Len(bytes)
    <2> DEFINE length == st.content_length
               have   == Len(out.body)
               shown  == Len(bytes)
    <2>1. /\ length \in Nat /\ have \in Nat /\ shown \in Nat
          /\ have < length /\ length <= MaxBodySize
          /\ taken = Lesser(SizeSub(length, have), shown)
      BY <1>1
    <2> HIDE DEF taken, length, have, shown
    <2>2. /\ taken \in 0 .. shown
          /\ taken < ContinueToken
          /\ have + taken < length => taken = shown
          /\ ~ (have + taken < length) => taken \in 1 .. shown
      BY <2>1, BodyTaken
    <2> QED BY <2>2 DEF length, have, shown
  <1> HIDE DEF taken
  <1>3. more \in Seq(Byte) /\ Len(more) = taken
    <2> SUFFICES ASSUME NEW n \in 0 .. Len(bytes)
                 PROVE  SubSeq(bytes, 1, n) \in Seq(Byte) /\ Len(SubSeq(bytes, 1, n)) = n
      BY <1>2
    <2> QED OBVIOUS
  <1>4. /\ out.body \o more \in Seq(Byte)
        /\ Len(out.body \o more) = Len(out.body) + taken
    BY <1>1, <1>3
  <1>5. MessageTyped(grown) /\ grown.body = out.body \o more
    <2> DEFINE joined == out.body \o more
    <2>1. MessageTyped(out) /\ joined \in Seq(Byte) /\ grown = [out EXCEPT !.body = joined]
      BY <1>1, <1>4
    <2> HIDE DEF joined, grown
    <2>2. MessageTyped(grown) /\ grown.body = joined
      BY <2>1, BodyUpdate
    <2> QED BY <2>2 DEF joined
  <1>6. HandleBody(out, st, bytes) =
            IF Len(grown.body) < st.content_length
            THEN Ok(grown, st, taken)
            ELSE Ok(grown, Simple("complete"), taken)
    BY DEF HandleBody, taken
  <1> HIDE DEF grown, more
  <1>7. CASE Len(grown.body) < st.content_length
    <2>1. taken = Len(bytes)
      BY <1>2, <1>4, <1>5, <1>7
    <2>2. StateInv(st, grown)
      BY <1>1, <1>5, <1>7 DEF StateInv, KindAgrees, RequestStates, ResponseStates
    <2>3. Window(st) = 1
      BY DEF Window
    <2>4. taken = 0 => Len(bytes) < Window(st)
      BY <2>1, <2>3
    <2>5. taken # ContinueToken
      BY <1>2, <2>1, <1>1, SizesInRange
    <2> HIDE DEF taken
    <2> QED BY <1>1, <1>2, <1>5, <1>6, <1>7, <2>2, <2>4, <2>5 DEF Sound, Ok
  <1>8. CASE ~ (Len(grown.body) < st.content_length)
    <2>1. taken \in 1 .. Len(bytes)
      BY <1>2, <1>4, <1>5, <1>8
    <2>2. Simple("complete") \in StateType /\ Simple("complete").at = "complete"
      BY StateConstructors DEF SimpleStates, Simple
    <2> QED BY <1>2, <1>5, <1>6, <1>8, <2>1, <2>2, OkSound
  <1> QED BY <1>7, <1>8

-----------------------------------------------------------------------------
(* Chunks. *)

\* message.cpp lines 506 to 565.
LEMMA ChunkedEmptySound ==
    ASSUME NEW st, NEW out, NEW bytes \in Seq(Byte), StateInv(st, out), st.at = "chunked_empty"
    PROVE  Sound(HandleChunkedEmpty(out, st, bytes), bytes)
  <1> DEFINE found == TryFind(bytes, CRLF, MaxChunkLineSize)
             split == TryFindSplitUnlimited(found.value, SEMICOLON)
             sizeStr == StripSuffixWhileWs(split.head)
             size  == FromChars(sizeStr, 16, ChunkSizeModulus)
             ext   == StripPrefixWhileWs(split.tail)
  <1>1. MessageTyped(out) /\ out.body = << >>
    BY DEF StateInv
  <1>2. CASE found.error # "NONE"
    <2>1. /\ found.error \in {"NOT_FOUND", "MAX_SIZE_EXCEEDED", "ASSERTION_FAILED"}
          /\ found.error = "NOT_FOUND" => Len(bytes) < Window(st)
      BY <1>2, LimitsInRange, Search DEF Window
    <2>2. Sound(Unfound(found, out, st, "BAD_REQUEST"), bytes)
      BY <2>1, UnfoundSound DEF NoError
    <2> QED BY <1>2, <2>2 DEF HandleChunkedEmpty
  <1>3. CASE found.error = "NONE"
    <2>1. /\ found.value \in Seq(Byte)
          /\ found.offset \in 1 .. Len(bytes)
          /\ found.offset < ContinueToken
      BY <1>3, LimitsInRange, Search
    <2>2. ext \in Seq(Byte)
      BY <2>1, Tokens, SplitType, StripPrefixType
    <2>3. size # NoNumber => size \in 0 .. ChunkSizeModulus - 1
      BY BodyLimitsInRange, FromCharsType
    <2> HIDE DEF found, size, sizeStr, ext
    <2>4. HandleChunkedEmpty(out, st, bytes) =
              IF Len(sizeStr) > MaxChunkSizeSize \/ size = NoNumber THEN Err("BAD_REQUEST")
              ELSE IF size = 0 THEN Ok(out, ChunkedComplete(ext, << >>), found.offset)
              ELSE Ok(out, ChunkedLine(ext, size), found.offset)
      BY <1>3 DEF HandleChunkedEmpty, found, size, sizeStr, ext
    <2>5. CASE Len(sizeStr) > MaxChunkSizeSize \/ size = NoNumber
      BY <2>4, <2>5, ErrSound DEF NoError
    <2>6. CASE ~ (Len(sizeStr) > MaxChunkSizeSize \/ size = NoNumber) /\ size = 0
      <3> DEFINE none == << >>
      <3>1. none \in Seq(Byte)
        OBVIOUS
      <3> HIDE DEF none
      <3>2. StateInv(ChunkedComplete(ext, none), out) /\ ChunkedComplete(ext, none) \in StateType
        BY <1>1, <2>2, <3>1, ChunkedCompleteInv
      <3>3. Sound(Ok(out, ChunkedComplete(ext, none), found.offset), bytes)
        BY <1>1, <2>1, <3>2, OkSound
      <3> QED BY <2>4, <2>6, <3>3 DEF none
    <2>7. CASE ~ (Len(sizeStr) > MaxChunkSizeSize \/ size = NoNumber) /\ size # 0
      <3>1. size \in Nat \ {0} /\ size < ChunkSizeModulus
        BY <2>3, <2>7, BodyLimitsInRange
      <3>2. StateInv(ChunkedLine(ext, size), out) /\ ChunkedLine(ext, size) \in StateType
        BY <1>1, <2>2, <3>1, ChunkedLineInv
      <3> QED BY <1>1, <2>1, <2>4, <2>7, <3>2, OkSound
    <2> QED BY <2>5, <2>6, <2>7
  <1> QED BY <1>2, <1>3

\* message.cpp lines 566 to 590.
LEMMA ChunkedLineSound ==
    ASSUME NEW st, NEW out, NEW bytes \in Seq(Byte), StateInv(st, out), st.at = "chunked_line"
    PROVE  Sound(HandleChunkedLine(out, st, bytes), bytes)
  <1> DEFINE offset == st.chunk_size + 2
             chunk  == SubSeq(bytes, 1, st.chunk_size)
  <1>1. /\ MessageTyped(out) /\ out.body = << >>
        /\ st.chunk_ext \in Seq(Byte)
        /\ st.chunk_size \in Nat
        /\ 1 <= st.chunk_size
        /\ st.chunk_size < ChunkSizeModulus
        /\ Len(bytes) \in Nat
    BY StateParts DEF StateInv
  <1>2. CASE Len(bytes) < offset
    <2>1. Len(bytes) < Window(st) /\ st.at # "complete"
      BY <1>2, Tokens DEF Window
    <2>2. Sound(Stop(out, st), bytes)
      BY <2>1, StopSound
    <2> QED BY <1>2, <2>2, Tokens DEF HandleChunkedLine
  <1>3. CASE ~ (Len(bytes) < offset)
    <2>1. offset \in 1 .. Len(bytes) /\ offset < ContinueToken /\ st.chunk_size \in 0 .. Len(bytes)
      BY <1>1, <1>3, BodyLimitsInRange, SizesInRange
    <2>2. chunk \in Seq(Byte)
      BY <2>1
    <2> HIDE DEF chunk, offset
    <2>3. StateInv(ChunkedComplete(st.chunk_ext, chunk), out)
      BY <1>1, <2>2, ChunkedCompleteInv
    <2>4. ChunkedComplete(st.chunk_ext, chunk) \in StateType
      BY <1>1, <2>2, ChunkedCompleteInv
    <2>5. Sound(Ok(out, ChunkedComplete(st.chunk_ext, chunk), offset), bytes)
      BY <1>1, <2>1, <2>3, <2>4, OkSound
    <2>6. Sound(Err("BAD_REQUEST"), bytes)
      BY ErrSound DEF NoError
    <2>7. \/ HandleChunkedLine(out, st, bytes) = Err("BAD_REQUEST")
          \/ HandleChunkedLine(out, st, bytes) =
                 Ok(out, ChunkedComplete(st.chunk_ext, chunk), offset)
      BY <1>3, Tokens DEF HandleChunkedLine, chunk, offset
    <2> QED BY <2>5, <2>6, <2>7
  <1> QED BY <1>2, <1>3

-----------------------------------------------------------------------------
(* The states that only hand over, and the dispatcher. *)

\* The result of a handler that asks to be called again.
HandsOver(r) ==
    /\ r.error = NoError
    /\ r.offset = ContinueToken
    /\ r.state.at \notin {"chunked_complete", "complete"}
    /\ StateInv(r.state, r.output)

\* message.cpp lines 591 to 608.
LEMMA ChunkedCompleteHandsOver ==
    ASSUME NEW st, NEW out, NEW bytes, StateInv(st, out), st.at = "chunked_complete"
    PROVE  HandsOver(HandleChunkedComplete(out, st, bytes))
  <1>1. MessageTyped(out) /\ out.body = << >>
    BY DEF StateInv
  <1>2. StateInv(TrailingFields(0), out) /\ TrailingFields(0).at = "trailing_fields"
    BY <1>1, NextStateInv DEF TrailingFields
  <1>3. StateInv(Simple("chunked_empty"), out) /\ Simple("chunked_empty").at = "chunked_empty"
    BY <1>1, NextStateInv DEF Simple, SimpleStates, RequestStates, ResponseStates
  <1>4. CASE st.chunk = << >>
    BY <1>2, <1>4 DEF HandleChunkedComplete, HandsOver, Ok
  <1>5. CASE st.chunk # << >>
    BY <1>3, <1>5 DEF HandleChunkedComplete, HandsOver, Ok
  <1> QED BY <1>4, <1>5

\* message.cpp lines 610 to 630.
LEMMA CompleteHandsOver ==
    ASSUME NEW st, NEW out, NEW bytes, StateInv(st, out), st.at = "complete"
    PROVE  HandsOver(HandleComplete(out, st, bytes))
  <1>1. MessageTyped(out) /\ out.body = << >>
    BY DEF StateInv
  <1>2. out.start_line.kind \in {"request", "response"}
    BY <1>1 DEF MessageTyped, StartLineType
  <1>3. CASE out.start_line.kind = "request"
    <2>1. StateInv(Simple("request_method"), out) /\ Simple("request_method").at = "request_method"
      BY <1>1, <1>3, NextStateInv DEF Simple, SimpleStates, RequestStates, ResponseStates
    <2> QED BY <1>3, <2>1 DEF HandleComplete, HandsOver, Ok
  <1>4. CASE out.start_line.kind = "response"
    <2>1. StateInv(Simple("response_version"), out) /\ Simple("response_version").at = "response_version"
      BY <1>1, <1>4, NextStateInv DEF Simple, SimpleStates, RequestStates, ResponseStates
    <2> QED BY <1>4, <2>1 DEF HandleComplete, HandsOver, Ok
  <1> QED BY <1>2, <1>3, <1>4

\* Every handler is sound where the dispatcher calls it, and only the two
\* states that hand over ask to be called again.
LEMMA HandleSound ==
    ASSUME NEW st, NEW out, NEW bytes \in Seq(Byte), StateInv(st, out)
    PROVE  IF st.at \in {"chunked_complete", "complete"}
           THEN HandsOver(Handle(st, out, bytes))
           ELSE Sound(Handle(st, out, bytes), bytes)
  <1>1. CASE st.at = "request_method"
    BY <1>1, RequestMethodSound DEF Handle
  <1>2. CASE st.at = "request_target"
    BY <1>2, RequestTargetSound DEF Handle
  <1>3. CASE st.at = "request_version"
    BY <1>3, RequestVersionSound DEF Handle
  <1>4. CASE st.at = "response_version"
    BY <1>4, ResponseVersionSound DEF Handle
  <1>5. CASE st.at = "response_status"
    BY <1>5, ResponseStatusSound DEF Handle
  <1>6. CASE st.at = "response_reason"
    BY <1>6, ResponseReasonSound DEF Handle
  <1>7. CASE st.at \in {"fields", "trailing_fields"}
    BY <1>7, FieldsSound DEF Handle
  <1>8. CASE st.at = "body"
    BY <1>8, BodySound DEF Handle
  <1>9. CASE st.at = "chunked_empty"
    BY <1>9, ChunkedEmptySound DEF Handle
  <1>10. CASE st.at = "chunked_line"
    BY <1>10, ChunkedLineSound DEF Handle
  <1>11. CASE st.at = "chunked_complete"
    BY <1>11, ChunkedCompleteHandsOver DEF Handle
  <1>12. CASE st.at = "complete"
    BY <1>12, CompleteHandsOver DEF Handle
  <1>13. st.at \in {"request_method", "request_target", "request_version",
                    "response_version", "response_status", "response_reason",
                    "fields", "trailing_fields", "body", "chunked_empty",
                    "chunked_line", "chunked_complete", "complete"}
    BY StateParts DEF StateInv, SimpleStates, RequestStates, ResponseStates
  <1> QED BY <1>1, <1>2, <1>3, <1>4, <1>5, <1>6, <1>7, <1>8, <1>9, <1>10, <1>11, <1>12, <1>13

\* The message that replaces a delivered one fits state "complete".
LEMMA DefaultMessageInv ==
    ASSUME NEW st \in StateType, st.at = "complete"
    PROVE  StateInv(st, DefaultMessage)
  <1>1. MessageTyped(DefaultMessage) /\ DefaultMessage.body = << >>
    BY DEF DefaultMessage, EmptyMessage, RequestLine, MessageTyped, StartLineType, FieldsTyped
  <1> QED BY <1>1 DEF StateInv, KindAgrees, RequestStates, ResponseStates

\* One step of either loop on the bytes it shows the handler.
DispatchOk(r, st, out, bytes) ==
    /\ r.error # NoError => r.state = st /\ r.output = out
    /\ r.error = NoError /\ r.offset = ContinueToken =>
           r.state # st /\ r.state.at \notin {"chunked_complete", "complete"}
    /\ r.error = NoError /\ r.offset # ContinueToken =>
           /\ r.offset \in 0 .. Len(bytes)
           /\ r.offset = 0 => Len(bytes) < Window(r.state)
    /\ StateInv(r.state, r.output)

\* A step of the dispatcher keeps message and state in agreement, consumes no
\* more than it is shown, and stops only below the window of the new state.
LEMMA DispatchSound ==
    ASSUME NEW st, NEW out, NEW bytes \in Seq(Byte), StateInv(st, out)
    PROVE  DispatchOk(Dispatch(st, out, bytes), st, out, bytes)
  <1> DEFINE h == Handle(st, out, bytes)
             r == Dispatch(st, out, bytes)
  <1>1. CASE h.error # NoError
    <2>1. r.error = h.error /\ r.state = st /\ r.output = out
      BY <1>1 DEF Dispatch, Outcome
    <2> QED BY <1>1, <2>1 DEF DispatchOk
  <1>2. CASE h.error = NoError
    <2>1. /\ r.error = NoError
          /\ r.state = h.state
          /\ r.output = IF h.state.at = "complete" THEN DefaultMessage ELSE h.output
          /\ r.offset = h.offset
      BY <1>2 DEF Dispatch, Outcome
    <2> HIDE DEF r, h
    <2>2. CASE st.at \in {"chunked_complete", "complete"}
      <3>1. HandsOver(h)
        BY <2>2, HandleSound DEF h
      <3> QED BY <2>1, <2>2, <3>1 DEF HandsOver, DispatchOk, r
    <2>3. CASE st.at \notin {"chunked_complete", "complete"}
      <3>1. Sound(h, bytes)
        BY <2>3, HandleSound DEF h
      <3>2. StateInv(r.state, r.output)
        BY <1>2, <2>1, <3>1, DefaultMessageInv DEF Sound
      <3>3. /\ r.offset # ContinueToken
            /\ r.offset \in 0 .. Len(bytes)
            /\ r.offset = 0 => Len(bytes) < Window(r.state)
        BY <1>2, <2>1, <3>1 DEF Sound
      <3>4. DispatchOk(r, st, out, bytes)
        BY <2>1, <3>2, <3>3 DEF DispatchOk
      <3> QED BY <3>4 DEF r
    <2> QED BY <2>2, <2>3
  <1> QED BY <1>1, <1>2

-----------------------------------------------------------------------------
(* How the body of a message is framed. *)

\* chunk_cb was given the empty chunk, message_cb not yet the message.
AfterLastChunk(st) ==
    \/ st.at = "trailing_fields"
    \/ st.at = "chunked_complete" /\ st.chunk = << >>

ChunkedStates == {"chunked_empty", "chunked_line", "chunked_complete", "trailing_fields"}

\* The state in which a body is read is the one its fields ask for.
FramingInv(st, out) ==
    /\ st.at = "body" => /\ ~ IsChunked(out.fields)
                         /\ st.content_length = BodyLength(out.fields)
    /\ st.at \in ChunkedStates => IsChunked(out.fields)

\* The body of a message is as long as its fields say, within the limit.
Framed(message) ==
    /\ Len(message.body) = IF IsChunked(message.fields) THEN 0 ELSE BodyLength(message.fields)
    /\ Len(message.body) <= MaxBodySize

\* What the framing needs of the result r of the handler of state st: a
\* message is complete when its body is, after the last chunk if there are
\* any, and nothing but the message follows the last chunk.
Frames(r, st) ==
    r.error = NoError =>
        /\ r.state.at # "complete" => FramingInv(r.state, r.output)
        /\ r.state.at = "complete" =>
               /\ Framed(r.output)
               /\ IsChunked(r.output.fields) <=> AfterLastChunk(st)
        /\ r.state.at = "chunked_complete" => ~ AfterLastChunk(st)
        /\ r.state.at \notin {"chunked_complete", "complete"} =>
               (AfterLastChunk(r.state) <=> AfterLastChunk(st))

\* The items of a value are items of the value another one is joined to.
LEMMA ItemsKept ==
    ASSUME NEW v \in Seq(Byte), NEW w \in Seq(Byte)
    PROVE  CommaItems(v) \subseteq CommaItems(v \o << ",", " " >> \o w)
  <1> DEFINE comma == ","
             sep == << ",", " " >>
             rest == sep \o w
             joined == v \o sep \o w
             Ends(str) == {0, Len(str) + 1} \cup {i \in DOMAIN str : str[i] = comma}
             n == Len(v)
  <1>1. sep \in Seq(Byte) /\ 1 \in 1 .. Len(sep) /\ sep[1] = comma
    <2>1. "," \in Byte /\ " " \in Byte
      BY StringsAssumption
    <2>2. sep \in Seq(Byte) /\ Len(sep) = 2
      BY <2>1, Tuples
    <2>3. 1 \in 1 .. 2
      OBVIOUS
    <2> QED BY <2>2, <2>3
  <1> HIDE DEF sep, comma
  <1>2. rest \in Seq(Byte) /\ 1 \in 1 .. Len(rest) /\ rest[1] = comma
    <2>1. /\ rest \in Seq(Byte) /\ Len(rest) = Len(sep) + Len(w) /\ Len(w) \in Nat
          /\ \A i \in 1 .. Len(sep) : rest[i] = sep[i]
      BY <1>1, ConcatProperties, LenProperties
    <2> HIDE DEF rest
    <2> QED BY <1>1, <2>1
  <1>3. joined = v \o rest
    BY <1>1, ConcatAssociative
  <1> HIDE DEF rest, joined
  <1>4. /\ joined \in Seq(Byte)
        /\ Len(joined) = n + Len(rest)
        /\ \A i \in 1 .. n : joined[i] = v[i]
        /\ \A i \in n + 1 .. n + Len(rest) : joined[i] = rest[i - n]
    BY <1>2, <1>3, ConcatProperties
  <1>5. n \in Nat /\ Len(rest) \in Nat
    BY <1>2, LenProperties
  <1> HIDE DEF n
  <1>6. n + 1 \in 1 .. Len(joined) /\ joined[n + 1] = comma /\ Len(joined) \in Nat
    <2>1. n + 1 - n = 1 /\ n + 1 \in n + 1 .. n + Len(rest)
      BY <1>2, <1>5
    <2> QED BY SMTT(30), <1>2, <1>4, <1>5, <2>1
  <1>7. /\ Ends(v) \subseteq Ends(joined) \cap 0 .. n + 1
        /\ Ends(joined) \cap 0 .. n + 1 \subseteq Ends(v)
    <2>1. DOMAIN v = 1 .. n /\ DOMAIN joined = 1 .. Len(joined)
      BY <1>4, LenProperties DEF n
    <2>2. Ends(v) = {0, n + 1} \cup {i \in 1 .. n : v[i] = comma}
      BY <2>1 DEF n
    <2>3. Ends(joined) = {0, Len(joined) + 1} \cup {i \in 1 .. Len(joined) : joined[i] = comma}
      BY <2>1
    <2> HIDE DEF Ends
    <2> QED BY <1>4, <1>5, <1>6, <2>2, <2>3
  <1> SUFFICES ASSUME NEW item \in CommaItems(v)
               PROVE  item \in CommaItems(joined)
    BY DEF joined, sep
  <1>8. PICK p \in Ends(v) \X Ends(v) : /\ p[1] < p[2]
                                        /\ \A e \in Ends(v) : ~ (p[1] < e /\ e < p[2])
                                        /\ item = SubSeq(v, p[1] + 1, p[2] - 1)
    BY DEF CommaItems, comma
  <1>9. Ends(v) \subseteq Nat /\ Ends(joined) \subseteq Nat
    BY <1>4, <1>5, <1>6 DEF n
  <1> DEFINE a == p[1]
             b == p[2] - 1
  <1>10. /\ p \in Ends(joined) \X Ends(joined)
         /\ p[1] \in Ends(v) /\ p[2] \in Ends(v)
         /\ p[1] \in 0 .. n + 1 /\ p[2] \in 0 .. n + 1
    <2> HIDE DEF Ends
    <2> QED BY <1>7, <1>8
  <1>11. \A e \in Ends(joined) : ~ (p[1] < e /\ e < p[2])
    <2> HIDE DEF Ends
    <2> SUFFICES ASSUME NEW e \in Ends(joined), p[1] < e, e < p[2] PROVE FALSE
      OBVIOUS
    <2>1. e \in 0 .. n + 1
      BY <1>5, <1>9, <1>10
    <2> QED BY <1>7, <1>8, <2>1
  <1>12. SubSeq(joined, a + 1, b) = SubSeq(v, a + 1, b)
    <2>1. b \in 0 .. n /\ a \in 0 .. b /\ b \in 0 .. Len(joined) /\ b - a \in Nat
      <3>1. p[1] < p[2] /\ p[1] \in 0 .. n + 1 /\ p[2] \in 0 .. n + 1
        BY <1>8, <1>10
      <3>2. n + 1 <= Len(joined) /\ Len(joined) \in Nat
        BY <1>5, <1>6
      <3>3. ASSUME NEW x \in 0 .. n + 1, NEW y \in 0 .. n + 1, x < y
            PROVE  /\ y - 1 \in 0 .. n /\ x \in 0 .. y - 1
                   /\ y - 1 \in 0 .. Len(joined) /\ y - 1 - x \in Nat
        BY <1>5, <3>2, <3>3
      <3> QED BY <3>1, <3>3
    <2> HIDE DEF a, b
    <2> DEFINE x == SubSeq(joined, a + 1, b)
               y == SubSeq(v, a + 1, b)
    <2>2. b \in 0 .. Len(v)
      BY <2>1 DEF n
    <2>3. y \in Seq(Byte) /\ Len(y) = b - a /\ \A i \in 1 .. b - a : y[i] = v[a + i]
      BY SMTT(30), <2>1, <2>2, Piece
    <2>4. x \in Seq(Byte) /\ Len(x) = b - a /\ \A i \in 1 .. b - a : x[i] = joined[a + i]
      BY <1>4, <2>1, Piece
    <2> HIDE DEF x, y
    <2>5. \A i \in 1 .. b - a : a + i \in 1 .. n
      BY <1>5, <2>1
    <2>6. \A i \in 1 .. b - a : x[i] = y[i]
      BY <1>4, <2>3, <2>4, <2>5
    <2>7. x = y
      BY <2>3, <2>4, <2>6, SeqEqual
    <2> QED BY <2>7 DEF x, y
  <1> QED BY <1>8, <1>10, <1>11, <1>12 DEF CommaItems, comma

\* A further field leaves a chunked body chunked.
LEMMA AddFieldChunked ==
    ASSUME NEW fields, FieldsTyped(fields), NEW key \in Seq(Byte), NEW value \in Seq(Byte),
           IsChunked(fields)
    PROVE  IsChunked(AddField(fields, key, value))
  <1> DEFINE old == fields[TransferEncoding]
             new == AddField(fields, key, value)
  <1>1. TransferEncoding \in DOMAIN fields /\ TransferEncoding \in DOMAIN new /\ old \in Seq(Byte)
    BY DEF IsChunked, AddField, FieldsTyped
  <1>2. new[TransferEncoding] = IF key = TransferEncoding
                                THEN old \o << ",", " " >> \o value ELSE old
    BY <1>1 DEF AddField
  <1>3. CommaItems(old) \subseteq CommaItems(new[TransferEncoding])
    BY <1>1, <1>2, ItemsKept
  <1> HIDE DEF new
  <1> QED BY <1>1, <1>3 DEF IsChunked, new

\* A handler that waits for more leaves the framing as it is.
LEMMA StopFrames ==
    ASSUME NEW st, NEW out, FramingInv(st, out), st.at \notin {"chunked_complete", "complete"}
    PROVE  Frames(Stop(out, st), st)
  BY DEF Frames, Stop, Ok

\* The ways in which a search does not succeed.
SearchErrors == {"NOT_FOUND", "MAX_SIZE_EXCEEDED", "ASSERTION_FAILED"}

\* A search ends in one of them or succeeds, whatever it is given.
LEMMA SearchEnds ==
    ASSUME NEW str, NEW delim, NEW size
    PROVE  TryFind(str, delim, size).error \in SearchErrors \cup {"NONE"}
  BY DEF TryFind, TryFindUnlimited, Found, NotFound, SearchErrors

\* So does one whose search does not succeed.
LEMMA UnfoundFrames ==
    ASSUME NEW st, NEW out, FramingInv(st, out), st.at \notin {"chunked_complete", "complete"},
           NEW found, found.error \in SearchErrors, NEW status, status # NoError
    PROVE  Frames(Unfound(found, out, st, status), st)
  <1>1. CASE found.error = "NOT_FOUND"
    BY <1>1, StopFrames DEF Unfound
  <1>2. CASE found.error # "NOT_FOUND"
    BY <1>2 DEF Unfound, Err, Frames, NoError, SearchErrors
  <1> QED BY <1>1, <1>2

\* A step that only fills in the start line does not touch the framing.
LEMMA StartLineOk ==
    ASSUME NEW st, st.at \in RequestStates \cup ResponseStates,
           NEW new, NEW offset,
           NEW next, next.at \in RequestStates \cup ResponseStates \cup {"fields"}
    PROVE  Frames(Ok(new, next, offset), st)
  <1>1. st.at \notin ChunkedStates /\ st.at # "body"
    BY DEF ChunkedStates, RequestStates, ResponseStates
  <1>2. next.at \notin ChunkedStates /\ next.at \notin {"body", "complete"}
    BY DEF ChunkedStates, RequestStates, ResponseStates
  <1> QED BY <1>1, <1>2 DEF Frames, Ok, FramingInv, AfterLastChunk, ChunkedStates

\* An error frames nothing.
LEMMA ErrFrames == ASSUME NEW st, NEW status, status # NoError PROVE Frames(Err(status), st)
  BY DEF Frames, Err

\* The handlers of the request line and the status line.
LEMMA StartLineFrames ==
    ASSUME NEW st, st.at \in RequestStates \cup ResponseStates, NEW out, FramingInv(st, out), NEW bytes
    PROVE  Frames(Handle(st, out, bytes), st)
  <1>1. st.at \notin {"chunked_complete", "complete"}
    BY DEF RequestStates, ResponseStates
  <1>2. \A status \in {"BAD_REQUEST", "NOT_IMPLEMENTED", "URI_TOO_LONG"} :
            /\ Frames(Err(status), st)
            /\ \A str, delim, size :
                   TryFind(str, delim, size).error # "NONE" =>
                       Frames(Unfound(TryFind(str, delim, size), out, st, status), st)
    BY <1>1, ErrFrames, UnfoundFrames, SearchEnds DEF NoError
  <1>3. ASSUME NEW new, NEW offset
        PROVE  /\ \A at \in {"request_target", "request_version", "response_status",
                              "response_reason"} : Frames(Ok(new, Simple(at), offset), st)
               /\ Frames(Ok(new, Fields(0), offset), st)
    <2>1. ASSUME NEW at \in {"request_target", "request_version", "response_status", "response_reason"}
          PROVE  Frames(Ok(new, Simple(at), offset), st)
      BY StartLineOk DEF Simple, RequestStates, ResponseStates
    <2>2. Frames(Ok(new, Fields(0), offset), st)
      BY StartLineOk DEF Fields
    <2> QED BY <2>1, <2>2
  <1>4. CASE st.at = "request_method"
    BY <1>2, <1>3, <1>4 DEF Handle, HandleRequestMethod
  <1>5. CASE st.at = "request_target"
    BY <1>2, <1>3, <1>5 DEF Handle, HandleRequestTarget
  <1>6. CASE st.at = "request_version"
    BY <1>2, <1>3, <1>6 DEF Handle, HandleRequestVersion
  <1>7. CASE st.at = "response_version"
    BY <1>2, <1>3, <1>7 DEF Handle, HandleResponseVersion
  <1>8. CASE st.at = "response_status"
    BY <1>2, <1>3, <1>8 DEF Handle, HandleResponseStatus
  <1>9. CASE st.at = "response_reason"
    BY <1>2, <1>3, <1>9 DEF Handle, HandleResponseReason
  <1> QED BY <1>4, <1>5, <1>6, <1>7, <1>8, <1>9 DEF RequestStates, ResponseStates

\* The end of the first section decides how the body is framed.
LEMMA FinalizeFrames ==
    ASSUME NEW st, st.at = "fields", NEW out, out.body = << >>, NEW offset
    PROVE  Frames(FinalizeFields(out, offset), st)
  <1> DEFINE length == BodyLength(out.fields)
  <1>1. length \in Nat /\ MaxBodySize \in Nat
    BY BodyLengthType, BodyLimitsInRange
  <1>2. ~ AfterLastChunk(st) /\ Len(out.body) = 0
    BY DEF AfterLastChunk
  <1>3. \A status \in {"BAD_REQUEST", "CONTENT_TOO_LARGE"} : Frames(Err(status), st)
    BY ErrFrames DEF NoError
  <1>4. IsChunked(out.fields) => Frames(Ok(out, Simple("chunked_empty"), offset), st)
    BY <1>2 DEF Frames, Ok, Simple, FramingInv, AfterLastChunk
  <1>5. ~ IsChunked(out.fields) /\ length = 0 => Frames(Ok(out, Simple("complete"), offset), st)
    BY <1>1, <1>2 DEF Frames, Ok, Simple, Framed
  <1>6. ~ IsChunked(out.fields) => Frames(Ok(out, Body(length), offset), st)
    BY <1>2 DEF Frames, Ok, Body, FramingInv, AfterLastChunk, ChunkedStates
  <1> QED BY <1>3, <1>4, <1>5, <1>6 DEF FinalizeFields

\* A field changes the framing of no body: the body comes after the first
\* section, and a trailing field leaves a chunked message chunked.
LEMMA FieldsFrames ==
    ASSUME NEW st, NEW out, NEW bytes \in Seq(Byte), StateInv(st, out), FramingInv(st, out),
           st.at \in {"fields", "trailing_fields"}
    PROVE  Frames(HandleFields(out, st, bytes), st)
  <1> DEFINE found == TryFind(bytes, CRLF, SizeSub(MaxFieldSize, st.consumed_bytes))
             line  == found.value
             colon == TryFindUnlimited(line, COLON)
             key   == ToLowercase(colon.value)
             value == StripWs(SubSeq(line, colon.offset + 1, Len(line)))
             new   == [out EXCEPT !.fields = AddField(@, key, value)]
             next  == [st EXCEPT !.consumed_bytes = @ + found.offset]
  <1>1. /\ st = [at |-> st.at, consumed_bytes |-> st.consumed_bytes]
        /\ out.body = << >>
        /\ FieldsTyped(out.fields)
        /\ out = [start_line |-> out.start_line, fields |-> out.fields, body |-> out.body]
    BY StateParts DEF StateInv, MessageTyped
  <1>2. CASE found.error # "NONE"
    <2>1. found.error \in SearchErrors
      BY <1>2, SearchEnds
    <2>2. Frames(Unfound(found, out, st, "CONTENT_TOO_LARGE"), st)
      BY <2>1, UnfoundFrames DEF NoError
    <2> QED BY <1>2, <2>2 DEF HandleFields
  <1>3. CASE found.error = "NONE" /\ line # << >>
    <2>1. CASE colon.error # "NONE"
      BY <1>3, <2>1, ErrFrames DEF HandleFields, NoError
    <2>2. CASE colon.error = "NONE"
      <3>1. key \in Seq(Byte) /\ value \in Seq(Byte)
        <4>1. line \in Seq(Byte)
          <5>1. st.consumed_bytes \in Nat /\ st.consumed_bytes <= MaxFieldSize + 2
            BY StateParts, Tokens DEF StateInv
          <5>2. SizeSub(MaxFieldSize, st.consumed_bytes) \in Nat
            BY <5>1, FieldsBudget
          <5> QED BY <1>3, <5>2, Search
        <4>2. colon.value \in Seq(Byte) /\ colon.offset \in 0 .. Len(line)
          BY <2>2, <4>1, Tokens, FindUnlimited DEF NotFound
        <4>3. SubSeq(line, colon.offset + 1, Len(line)) \in Seq(Byte)
          BY <4>1, <4>2
        <4> QED BY <4>2, <4>3, ToLowercaseType, StripWsType
      <3>2. HandleFields(out, st, bytes) = Ok(new, next, found.offset)
        BY <1>3, <2>2 DEF HandleFields, Counted
      <3>3. next.at = st.at
        BY <1>1
      <3>4. new.fields = AddField(out.fields, key, value)
        BY <1>1
      <3> HIDE DEF key, value, new, next, found
      <3>5. IsChunked(out.fields) => IsChunked(new.fields)
        BY <1>1, <3>1, <3>4, AddFieldChunked
      <3> QED BY <3>2, <3>3, <3>5 DEF Frames, Ok, FramingInv, AfterLastChunk, ChunkedStates
    <2> QED BY <2>1, <2>2
  <1>4. CASE found.error = "NONE" /\ line = << >> /\ st.at = "fields"
    BY <1>1, <1>4, FinalizeFrames DEF HandleFields
  <1>5. CASE found.error = "NONE" /\ line = << >> /\ st.at = "trailing_fields"
    <2>1. HandleFields(out, st, bytes) = Ok(out, Simple("complete"), found.offset)
      BY <1>5 DEF HandleFields
    <2>2. IsChunked(out.fields) /\ AfterLastChunk(st) /\ Len(out.body) = 0
      BY <1>1, <1>5 DEF FramingInv, ChunkedStates, AfterLastChunk
    <2> QED BY <2>1, <2>2, BodyLimitsInRange DEF Frames, Ok, Simple, Framed
  <1> QED BY <1>2, <1>3, <1>4, <1>5

\* A body that is complete has the length its fields announce.
LEMMA BodyFrames ==
    ASSUME NEW st, NEW out, NEW bytes \in Seq(Byte), StateInv(st, out), FramingInv(st, out),
           st.at = "body"
    PROVE  Frames(HandleBody(out, st, bytes), st)
  <1> DEFINE length == st.content_length
             taken == Lesser(SizeSub(length, Len(out.body)), Len(bytes))
             more  == SubSeq(bytes, 1, taken)
             grown == [out EXCEPT !.body = out.body \o more]
  <1>1. /\ length \in Nat /\ length <= MaxBodySize
        /\ Len(out.body) < length
        /\ length = BodyLength(out.fields)
        /\ ~ IsChunked(out.fields)
        /\ out.body \in Seq(Byte)
        /\ Len(out.body) \in Nat /\ Len(bytes) \in Nat
        /\ out = [start_line |-> out.start_line, fields |-> out.fields, body |-> out.body]
    BY StateParts DEF StateInv, FramingInv, MessageTyped
  <1>2. /\ taken \in 0 .. Len(bytes)
        /\ ~ (Len(out.body) + taken < length) => Len(out.body) + taken = length
    BY <1>1, BodyTaken
  <1> HIDE DEF taken
  <1>3. more \in Seq(Byte) /\ Len(more) = taken
    BY <1>2, FrontProperties
  <1>4. grown.body = out.body \o more /\ grown.fields = out.fields
    BY <1>1
  <1>5. Len(grown.body) = Len(out.body) + taken
    BY <1>1, <1>3, <1>4, ConcatProperties
  <1>6. HandleBody(out, st, bytes) = IF Len(grown.body) < length
                                     THEN Ok(grown, st, taken)
                                     ELSE Ok(grown, Simple("complete"), taken)
    BY DEF HandleBody, taken
  <1> HIDE DEF grown, more
  <1>7. ~ AfterLastChunk(st)
    BY DEF AfterLastChunk
  <1>8. CASE Len(grown.body) < length
    <2>1. HandleBody(out, st, bytes) = Ok(grown, st, taken)
      BY <1>6, <1>8
    <2> QED BY <1>1, <1>4, <2>1 DEF Frames, Ok, FramingInv, ChunkedStates
  <1>9. CASE ~ (Len(grown.body) < length)
    <2>1. HandleBody(out, st, bytes) = Ok(grown, Simple("complete"), taken)
      BY <1>6, <1>9
    <2>2. Len(grown.body) = BodyLength(grown.fields) /\ Len(grown.body) <= MaxBodySize
      BY <1>1, <1>2, <1>4, <1>5, <1>9
    <2> QED BY <1>1, <1>4, <1>7, <2>1, <2>2 DEF Frames, Ok, Simple, Framed
  <1> QED BY <1>8, <1>9

\* The size line of a chunk and the chunk itself: only the size 0 makes the
\* empty chunk.
LEMMA ChunkFrames ==
    ASSUME NEW st, NEW out, NEW bytes \in Seq(Byte), StateInv(st, out), FramingInv(st, out),
           st.at \in {"chunked_empty", "chunked_line"}
    PROVE  Frames(Handle(st, out, bytes), st)
  <1>1. IsChunked(out.fields) /\ ~ AfterLastChunk(st)
    BY DEF FramingInv, ChunkedStates, AfterLastChunk
  <1>2. Frames(Err("BAD_REQUEST"), st)
    BY ErrFrames DEF NoError
  <1>3. ASSUME NEW ext, NEW chunk, NEW offset
        PROVE  Frames(Ok(out, ChunkedComplete(ext, chunk), offset), st)
    BY <1>1 DEF Frames, Ok, ChunkedComplete, FramingInv
  <1>4. ASSUME NEW ext, NEW size, NEW offset
        PROVE  Frames(Ok(out, ChunkedLine(ext, size), offset), st)
    BY <1>1 DEF Frames, Ok, ChunkedLine, FramingInv, AfterLastChunk
  <1>5. CASE st.at = "chunked_empty"
    <2>1. \A str, delim, size :
              TryFind(str, delim, size).error # "NONE" =>
                  Frames(Unfound(TryFind(str, delim, size), out, st, "BAD_REQUEST"), st)
      BY <1>5, UnfoundFrames, SearchEnds DEF NoError
    <2> QED BY <1>2, <1>3, <1>4, <1>5, <2>1 DEF Handle, HandleChunkedEmpty
  <1>6. CASE st.at = "chunked_line"
    BY <1>2, <1>3, <1>6, StopFrames DEF Handle, HandleChunkedLine
  <1> QED BY <1>5, <1>6

\* The two states that hand over.
LEMMA HandoverFrames ==
    ASSUME NEW st, NEW out, NEW bytes, StateInv(st, out), FramingInv(st, out),
           st.at \in {"chunked_complete", "complete"}
    PROVE  Frames(Handle(st, out, bytes), st)
  <1>1. CASE st.at = "chunked_complete"
    BY <1>1 DEF Handle, HandleChunkedComplete, Frames, Ok, FramingInv, ChunkedStates,
                AfterLastChunk, TrailingFields, Simple
  <1>2. CASE st.at = "complete"
    BY <1>2 DEF Handle, HandleComplete, Frames, Ok, FramingInv, ChunkedStates,
                AfterLastChunk, Simple
  <1> QED BY <1>1, <1>2

\* Every handler keeps the framing.
LEMMA HandleFrames ==
    ASSUME NEW st, NEW out, NEW bytes \in Seq(Byte), StateInv(st, out), FramingInv(st, out)
    PROVE  Frames(Handle(st, out, bytes), st)
  <1>1. CASE st.at \in RequestStates \cup ResponseStates
    BY <1>1, StartLineFrames
  <1>2. CASE st.at \in {"fields", "trailing_fields"}
    BY <1>2, FieldsFrames DEF Handle
  <1>3. CASE st.at = "body"
    BY <1>3, BodyFrames DEF Handle
  <1>4. CASE st.at \in {"chunked_empty", "chunked_line"}
    BY <1>4, ChunkFrames
  <1>5. CASE st.at \in {"chunked_complete", "complete"}
    BY <1>5, HandoverFrames
  <1> QED BY <1>1, <1>2, <1>3, <1>4, <1>5, StateParts DEF StateInv, SimpleStates

-----------------------------------------------------------------------------
(* The memory of the fields. *)

\* The bytes that are kept of a section of fields.
Sizes(fields) == [key \in DOMAIN fields |-> Len(key) + Len(fields[key])]
Memory(fields) == SumFunction(Sizes(fields))

\* The bytes counted for one section, and the line end that may go over them.
SectionSize == MaxFieldSize + Len(CRLF)

\* What the fields may take in each state: nothing before there are any, what
\* is counted while they arrive, and both sections at the end.
FieldRoom(st) ==
    CASE st.at \in RequestStates \cup ResponseStates \cup {"complete"} -> 0
      [] st.at = "fields"          -> st.consumed_bytes
      [] st.at = "trailing_fields" -> SectionSize + st.consumed_bytes
      [] OTHER                     -> SectionSize

FieldsFit(fields, room) == IsFiniteSet(DOMAIN fields) /\ Memory(fields) <= room

\* What the memory needs of the result r of a handler.
Fits(r) ==
    r.error = NoError =>
        FieldsFit(r.output.fields, IF r.state.at = "complete" THEN 2 * SectionSize ELSE FieldRoom(r.state))

\* The memory of the fields is a number.
LEMMA MemoryType ==
    ASSUME NEW fields, FieldsTyped(fields)
    PROVE  Sizes(fields) \in [DOMAIN fields -> Nat]
  <1>1. \A key \in DOMAIN fields : Len(key) \in Nat /\ Len(fields[key]) \in Nat
    BY DEF FieldsTyped
  <1>2. \A key \in DOMAIN fields : Len(key) + Len(fields[key]) \in Nat
    BY <1>1
  <1> QED BY <1>2 DEF Sizes

\* A field adds its name, its value and the two bytes between joined values.
LEMMA AddFieldMemory ==
    ASSUME NEW fields, FieldsTyped(fields), IsFiniteSet(DOMAIN fields),
           NEW key \in Seq(Byte), NEW value \in Seq(Byte)
    PROVE  /\ Memory(fields) \in Nat
           /\ IsFiniteSet(DOMAIN AddField(fields, key, value))
           /\ Memory(AddField(fields, key, value)) <= Memory(fields) + Len(key) + Len(value) + 2
  <1> DEFINE D == DOMAIN fields
             new == AddField(fields, key, value)
             f == Sizes(fields)
             h == Sizes(new)
             sep == << ",", " " >>
  <1>1. FieldsTyped(new) /\ DOMAIN new = D \cup {key} /\ IsFiniteSet(D \cup {key})
    <2>1. DOMAIN new = D \cup {key}
      BY DEF AddField
    <2>2. FieldsTyped(new)
      BY AddFieldTyped
    <2> HIDE DEF D
    <2>3. IsFiniteSet(D)
      BY DEF D
    <2> QED BY <2>1, <2>2, <2>3, FS_AddElement
  <1>2. f \in [D -> Nat] /\ h \in [D \cup {key} -> Nat]
    BY <1>1, MemoryType
  <1>3. \A x \in D \ {key} : h[x] = f[x]
    <2> SUFFICES ASSUME NEW x \in D \ {key} PROVE h[x] = f[x]
      OBVIOUS
    <2>1. new[x] = fields[x]
      BY DEF AddField
    <2>2. h[x] = Len(x) + Len(new[x]) /\ f[x] = Len(x) + Len(fields[x])
      BY <1>1 DEF Sizes
    <2> QED BY <2>1, <2>2
  <1>4. /\ SumFunction(f) \in Nat
        /\ SumFunction(h) \in Nat
        /\ SumFunction(h) + (IF key \in D THEN f[key] ELSE 0) = SumFunction(f) + h[key]
    <2>1. ChangedAt(f, h, key)
      <3>1. DOMAIN f = D
        BY DEF Sizes
      <3> HIDE DEF f, h
      <3> QED BY <1>2, <1>3, <3>1 DEF ChangedAt
    <2>2. DOMAIN f = D
      BY DEF Sizes
    <2> HIDE DEF D, f, h
    <2> QED BY <2>1, <2>2, SumChanged
  <1>5. h[key] = Len(key) + Len(new[key]) /\ (key \in D => f[key] = Len(key) + Len(fields[key]))
    BY <1>1 DEF Sizes
  <1>6. /\ key \notin D => Len(new[key]) = Len(value)
        /\ key \in D => Len(new[key]) = Len(fields[key]) + 2 + Len(value) /\ Len(fields[key]) \in Nat
    <2>1. key \notin D => new[key] = value
      BY DEF AddField
    <2>2. ASSUME key \in D
          PROVE  Len(new[key]) = Len(fields[key]) + 2 + Len(value) /\ Len(fields[key]) \in Nat
      <3>1. new[key] = fields[key] \o sep \o value
        BY <2>2 DEF AddField
      <3>2. sep \in Seq(Byte) /\ Len(sep) = 2
        <4>1. "," \in Byte /\ " " \in Byte
          BY StringsAssumption
        <4> QED BY <4>1, Tuples
      <3>3. fields[key] \in Seq(Byte)
        BY <2>2 DEF FieldsTyped
      <3> DEFINE old == fields[key]
      <3> HIDE DEF sep, old, new
      <3>4. old \o sep \in Seq(Byte) /\ Len(old \o sep) = Len(old) + Len(sep) /\ Len(old) \in Nat
        BY <3>2, <3>3, ConcatProperties, LenProperties DEF old
      <3>5. Len((old \o sep) \o value) = Len(old \o sep) + Len(value)
        BY <3>4, ConcatProperties
      <3> QED BY <3>1, <3>2, <3>4, <3>5 DEF old
    <2> QED BY <2>1, <2>2
  <1>7. Len(key) \in Nat /\ Len(value) \in Nat
    OBVIOUS
  <1> DEFINE a == SumFunction(f)
             b == SumFunction(h)
  <1>8. b <= a + Len(key) + Len(value) + 2
    <2> HIDE DEF D, f, h, a, b, new
    <2>1. CASE key \in D
      <3> DEFINE n == Len(fields[key])
      <3>1. h[key] = Len(key) + (n + 2 + Len(value)) /\ f[key] = Len(key) + n /\ n \in Nat
        BY <1>5, <1>6, <2>1
      <3>2. b + f[key] = a + h[key] /\ a \in Nat /\ b \in Nat
        BY <1>4, <2>1 DEF a, b
      <3> HIDE DEF n
      <3> QED BY <1>7, <3>1, <3>2
    <2>2. CASE key \notin D
      <3>1. h[key] = Len(key) + Len(value)
        BY <1>5, <1>6, <2>2
      <3>2. b + 0 = a + h[key] /\ a \in Nat /\ b \in Nat
        BY <1>4, <2>2 DEF a, b
      <3> QED BY <1>7, <3>1, <3>2
    <2> QED BY <2>1, <2>2
  <1> QED BY <1>1, <1>4, <1>8 DEF Memory

\* What a line adds is less than the bytes counted for it.
LEMMA LineMemory ==
    ASSUME NEW line \in Seq(Byte), NEW colon, colon = TryFindUnlimited(line, COLON),
           colon.error = "NONE",
           NEW key, key = ToLowercase(colon.value),
           NEW value, value = StripWs(SubSeq(line, colon.offset + 1, Len(line)))
    PROVE  /\ key \in Seq(Byte) /\ value \in Seq(Byte)
           /\ Len(key) + Len(value) + 1 <= Len(line)
  <1>1. /\ colon.value \in Seq(Byte)
        /\ colon.offset \in 0 .. Len(line)
        /\ colon.offset = Len(colon.value) + 1
    <2>1. COLON \in Seq(Byte) /\ Len(COLON) = 1
      BY Tokens
    <2>2. \/ /\ colon.error = "NONE"
             /\ colon.value \in Seq(Byte)
             /\ colon.offset \in 0 .. Len(line)
             /\ colon.offset = Len(colon.value) + Len(COLON)
          \/ colon = NotFound("NOT_FOUND")
      BY <2>1, FindUnlimited
    <2>3. colon # NotFound("NOT_FOUND")
      BY DEF NotFound
    <2> QED BY <2>1, <2>2, <2>3
  <1>2. key \in Seq(Byte) /\ Len(key) = Len(colon.value)
    BY <1>1, ToLowercaseType
  <1> DEFINE rest == SubSeq(line, colon.offset + 1, Len(line))
  <1>3. rest \in Seq(Byte) /\ Len(rest) = Len(line) - colon.offset
    <2> DEFINE a == colon.offset
               b == Len(line)
    <2>1. b \in 0 .. Len(line) /\ a \in 0 .. b
      BY <1>1
    <2>2. SubSeq(line, a + 1, b) \in Seq(Byte) /\ Len(SubSeq(line, a + 1, b)) = b - a
      <3> HIDE DEF a, b
      <3> QED BY <2>1, Piece
    <2> QED BY <2>2
  <1>4. value \in Seq(Byte) /\ Len(value) <= Len(rest)
    <2> HIDE DEF rest
    <2> QED BY <1>3, StripWsType DEF rest
  <1>5. Len(key) \in Nat /\ Len(value) \in Nat /\ Len(line) \in Nat /\ Len(colon.value) \in Nat
    BY <1>1, <1>2, <1>4
  <1>6. ASSUME NEW k \in Nat, NEW v \in Nat, NEW l \in Nat, NEW o, o = k + 1, v <= l - o
        PROVE  k + v + 1 <= l
    BY <1>6
  <1> HIDE DEF rest
  <1>7. Len(value) <= Len(line) - colon.offset
    BY <1>3, <1>4
  <1>8. Len(key) + Len(value) + 1 <= Len(line)
    BY <1>1, <1>2, <1>5, <1>6, <1>7
  <1> QED BY <1>2, <1>4, <1>8

\* The room that a state leaves is a number, at most that for both sections.
LEMMA RoomType ==
    ASSUME NEW st, NEW out, StateInv(st, out)
    PROVE  /\ SectionSize \in Nat
           /\ FieldRoom(st) \in Nat
           /\ FieldRoom(st) <= 2 * SectionSize
           /\ st.at # "trailing_fields" => FieldRoom(st) <= SectionSize
  <1>1. SectionSize \in Nat
    BY LimitsInRange, Tokens DEF SectionSize
  <1>2. st.at \in {"fields", "trailing_fields"} =>
            st.consumed_bytes \in Nat /\ st.consumed_bytes <= SectionSize
    BY StateParts DEF StateInv, SectionSize
  <1> HIDE DEF SectionSize
  <1>3. st.at \in {"fields", "trailing_fields"} =>
            st.at \notin RequestStates \cup ResponseStates \cup {"complete"}
    BY DEF RequestStates, ResponseStates
  <1> QED BY <1>1, <1>2, <1>3 DEF FieldRoom

\* A handler that leaves the fields alone needs no less room than before.
LEMMA SameFieldsFit ==
    ASSUME NEW fields, FieldsTyped(fields), NEW room \in Nat, FieldsFit(fields, room),
           NEW more \in Nat, room <= more
    PROVE  FieldsFit(fields, more)
  <1>1. SumFunction(Sizes(fields)) \in Nat
    <2>1. Sizes(fields) \in [DOMAIN fields -> Nat] /\ IsFiniteSet(DOMAIN fields)
      BY MemoryType DEF FieldsFit
    <2> QED BY <2>1, SumType
  <1> QED BY <1>1 DEF FieldsFit, Memory

\* A handler that reports an error needs none.
LEMMA ErrFits == ASSUME NEW status, status # NoError PROVE Fits(Err(status))
  BY DEF Err, Fits

\* One that goes on with the same fields needs that of the next state.
LEMMA OkFits ==
    ASSUME NEW st, NEW out, StateInv(st, out), FieldsFit(out.fields, FieldRoom(st)),
           NEW new, new.fields = out.fields, NEW next, NEW offset,
           NEW room \in Nat, FieldRoom(st) <= room,
           room = IF next.at = "complete" THEN 2 * SectionSize ELSE FieldRoom(next)
    PROVE  Fits(Ok(new, next, offset))
  <1>1. FieldsFit(out.fields, room)
    <2>1. FieldsTyped(out.fields) /\ FieldRoom(st) \in Nat
      BY RoomType DEF StateInv, MessageTyped
    <2> QED BY <2>1, SameFieldsFit
  <1> QED BY <1>1 DEF Fits, Ok

\* The same when there is nothing to go on with.
LEMMA StopFits ==
    ASSUME NEW st, NEW out, StateInv(st, out), FieldsFit(out.fields, FieldRoom(st)),
           st.at # "complete"
    PROVE  /\ Fits(Stop(out, st))
           /\ \A found, status : found.error \in SearchErrors /\ status # NoError
                  => Fits(Unfound(found, out, st, status))
  <1>1. FieldRoom(st) \in Nat /\ FieldRoom(st) <= FieldRoom(st)
    BY RoomType
  <1>2. Fits(Stop(out, st))
    BY <1>1, OkFits DEF Stop
  <1>3. ASSUME NEW found, found.error \in SearchErrors, NEW status, status # NoError
        PROVE  Fits(Unfound(found, out, st, status))
    BY <1>2, <1>3, ErrFits DEF Unfound, NoError, SearchErrors
  <1> QED BY <1>2, <1>3

\* The room of the states in which no field is counted.
LEMMA Rooms ==
    /\ \A at \in RequestStates \cup ResponseStates : FieldRoom(Simple(at)) = 0
    /\ FieldRoom(Fields(0)) = 0
    /\ FieldRoom(TrailingFields(0)) = SectionSize
    /\ FieldRoom(Simple("chunked_empty")) = SectionSize
    /\ \A n : FieldRoom(Body(n)) = SectionSize
    /\ \A ext, n : FieldRoom(ChunkedLine(ext, n)) = SectionSize
    /\ \A ext, chunk : FieldRoom(ChunkedComplete(ext, chunk)) = SectionSize
  <1>1. SectionSize \in Nat
    BY LimitsInRange, Tokens DEF SectionSize
  <1> HIDE DEF SectionSize
  <1> QED BY <1>1 DEF FieldRoom, Simple, Fields, TrailingFields, Body, ChunkedLine,
                      ChunkedComplete, RequestStates, ResponseStates

\* A line of a section of fields fits into the bytes counted for it.
LEMMA FieldsFits ==
    ASSUME NEW st, NEW out, NEW bytes \in Seq(Byte), StateInv(st, out),
           FieldsFit(out.fields, FieldRoom(st)), st.at \in {"fields", "trailing_fields"}
    PROVE  Fits(HandleFields(out, st, bytes))
  <1> DEFINE budget == SizeSub(MaxFieldSize, st.consumed_bytes)
             found == TryFind(bytes, CRLF, budget)
             line  == found.value
             colon == TryFindUnlimited(line, COLON)
             key   == ToLowercase(colon.value)
             value == StripWs(SubSeq(line, colon.offset + 1, Len(line)))
             new   == [out EXCEPT !.fields = AddField(@, key, value)]
             next  == [st EXCEPT !.consumed_bytes = @ + found.offset]
  <1>1. /\ st = [at |-> st.at, consumed_bytes |-> st.consumed_bytes]
        /\ st.consumed_bytes \in Nat
        /\ st.consumed_bytes <= MaxFieldSize + 2
        /\ FieldsTyped(out.fields)
        /\ out = [start_line |-> out.start_line, fields |-> out.fields, body |-> out.body]
    BY StateParts, Tokens DEF StateInv, MessageTyped
  <1>2. /\ SectionSize \in Nat /\ FieldRoom(st) \in Nat /\ FieldRoom(st) <= 2 * SectionSize
        /\ st.at = "fields" => FieldRoom(st) <= SectionSize
    BY RoomType
  <1>3. CASE found.error # "NONE"
    <2>1. found.error \in SearchErrors
      BY <1>3, SearchEnds
    <2>2. Fits(Unfound(found, out, st, "CONTENT_TOO_LARGE"))
      BY <2>1, StopFits DEF NoError
    <2> QED BY <1>3, <2>2 DEF HandleFields
  <1>4. CASE found.error = "NONE" /\ line # << >>
    <2>1. CASE colon.error # "NONE"
      BY <1>4, <2>1, ErrFits DEF HandleFields, NoError
    <2>2. CASE colon.error = "NONE"
      <3>1. line \in Seq(Byte) /\ found.offset = Len(line) + 2
        <4>1. budget \in Nat
          BY <1>1, FieldsBudget
        <4> QED BY <1>4, <4>1, Search, Tokens
      <3>2. key \in Seq(Byte) /\ value \in Seq(Byte) /\ Len(key) + Len(value) + 1 <= Len(line)
        <4> HIDE DEF line
        <4> QED BY <2>2, <3>1, LineMemory
      <3>3. HandleFields(out, st, bytes) = Ok(new, next, found.offset)
        BY <1>4, <2>2 DEF HandleFields, Counted
      <3>4. next.at = st.at /\ next.consumed_bytes = st.consumed_bytes + found.offset
        BY <1>1
      <3>5. new.fields = AddField(out.fields, key, value)
        BY <1>1
      <3> DEFINE old == Memory(out.fields)
                 grown == Memory(new.fields)
      <3>6. /\ old \in Nat
            /\ IsFiniteSet(DOMAIN new.fields)
            /\ grown <= old + Len(key) + Len(value) + 2
        <4> HIDE DEF key, value, new
        <4> QED BY <1>1, <3>2, <3>5, AddFieldMemory DEF FieldsFit
      <3>7. old <= FieldRoom(st)
        BY DEF FieldsFit
      <3>8. FieldRoom(next) = FieldRoom(st) + found.offset
        <4>1. st.at \notin RequestStates \cup ResponseStates \cup {"complete"}
          BY DEF RequestStates, ResponseStates
        <4>2. found.offset \in Nat
          <5>1. Len(line) \in Nat
            BY <3>1
          <5> HIDE DEF found
          <5> QED BY <3>1, <5>1
        <4> HIDE DEF next, SectionSize, found
        <4> QED BY <1>1, <1>2, <3>4, <4>1, <4>2 DEF FieldRoom
      <3>9. grown <= FieldRoom(next)
        <4>1. Len(key) \in Nat /\ Len(value) \in Nat /\ Len(line) \in Nat
          BY <3>1, <3>2
        <4>2. ASSUME NEW k \in Nat, NEW v \in Nat, NEW l \in Nat, NEW o, o = l + 2, k + v + 1 <= l,
                     NEW room \in Nat, old <= room
              PROVE  old + k + v + 2 <= room + o
          <5> HIDE DEF old
          <5> QED BY SMTT(30), <3>6, <4>2
        <4>3. grown \in Nat
          <5>1. FieldsTyped(new.fields)
            <6> HIDE DEF key, value, new
            <6> QED BY <1>1, <3>2, <3>5, AddFieldTyped
          <5> HIDE DEF new
          <5>2. SumFunction(Sizes(new.fields)) \in Nat
            BY <3>6, <5>1, MemoryType, SumType
          <5> QED BY <5>2 DEF Memory
        <4>4. old + Len(key) + Len(value) + 2 <= FieldRoom(st) + found.offset
          <5> HIDE DEF found, key, value, line, old
          <5> QED BY <1>2, <3>1, <3>2, <3>7, <4>1, <4>2
        <4> HIDE DEF grown, old, found, key, value, line, next
        <4>5. found.offset \in Nat
          BY <3>1, <4>1
        <4> QED BY SMTT(30), <1>2, <3>6, <3>8, <4>1, <4>3, <4>4, <4>5
      <3>10. next.at # "complete"
        BY <3>4
      <3> HIDE DEF new, next, found
      <3> QED BY <3>3, <3>6, <3>9, <3>10 DEF Fits, Ok, FieldsFit
    <2> QED BY <2>1, <2>2
  <1>5. CASE found.error = "NONE" /\ line = << >> /\ st.at = "fields"
    <2>1. \A offset : Fits(FinalizeFields(out, offset))
      <3> SUFFICES ASSUME NEW offset PROVE Fits(FinalizeFields(out, offset))
        OBVIOUS
      <3>1. \A status \in {"BAD_REQUEST", "CONTENT_TOO_LARGE"} : Fits(Err(status))
        BY ErrFits DEF NoError
      <3>2. FieldRoom(st) <= SectionSize /\ SectionSize <= 2 * SectionSize /\ 2 * SectionSize \in Nat
        BY <1>2, <1>5
      <3>3. Fits(Ok(out, Simple("chunked_empty"), offset))
        BY <1>2, <3>2, OkFits, Rooms DEF Simple
      <3>4. Fits(Ok(out, Simple("complete"), offset))
        BY <1>2, <3>2, OkFits DEF Simple
      <3>5. \A n : Fits(Ok(out, Body(n), offset))
        BY <1>2, <3>2, OkFits, Rooms DEF Body
      <3> QED BY <3>1, <3>3, <3>4, <3>5 DEF FinalizeFields
    <2> QED BY <1>5, <2>1 DEF HandleFields
  <1>6. CASE found.error = "NONE" /\ line = << >> /\ st.at = "trailing_fields"
    <2>1. 2 * SectionSize \in Nat
      BY <1>2
    <2>2. Fits(Ok(out, Simple("complete"), found.offset))
      BY <1>2, <2>1, OkFits DEF Simple
    <2> QED BY <1>6, <2>2 DEF HandleFields
  <1> QED BY <1>3, <1>4, <1>5, <1>6

\* The handlers of the request line and the status line know of no fields.
LEMMA StartLineFits ==
    ASSUME NEW st, NEW out, NEW bytes \in Seq(Byte), StateInv(st, out),
           FieldsFit(out.fields, FieldRoom(st)), st.at \in RequestStates \cup ResponseStates
    PROVE  Fits(Handle(st, out, bytes))
  <1>1. /\ out = [start_line |-> out.start_line, fields |-> out.fields, body |-> out.body]
        /\ st.at # "complete"
        /\ FieldRoom(st) = 0
    BY DEF StateInv, MessageTyped, FieldRoom, RequestStates, ResponseStates
  <1>2. \A status \in {"BAD_REQUEST", "NOT_IMPLEMENTED", "URI_TOO_LONG"} :
            /\ Fits(Err(status))
            /\ \A str, delim, size :
                   TryFind(str, delim, size).error # "NONE" =>
                       Fits(Unfound(TryFind(str, delim, size), out, st, status))
    BY <1>1, ErrFits, StopFits, SearchEnds DEF NoError
  <1>3. ASSUME NEW new, new.fields = out.fields, NEW offset
        PROVE  /\ \A at \in {"request_target", "request_version", "response_status",
                              "response_reason"} : Fits(Ok(new, Simple(at), offset))
               /\ Fits(Ok(new, Fields(0), offset))
    <2>1. ASSUME NEW at \in {"request_target", "request_version", "response_status", "response_reason"}
          PROVE  Fits(Ok(new, Simple(at), offset))
      <3>1. FieldRoom(Simple(at)) = 0 /\ Simple(at).at # "complete"
        BY Rooms DEF Simple, RequestStates, ResponseStates
      <3> QED BY <1>1, <1>3, <3>1, OkFits
    <2>2. Fits(Ok(new, Fields(0), offset))
      <3>1. FieldRoom(Fields(0)) = 0 /\ Fields(0).at # "complete"
        BY Rooms DEF Fields
      <3> QED BY <1>1, <1>3, <3>1, OkFits
    <2> QED BY <2>1, <2>2
  <1>4. \A line, offset :
            /\ \A at \in {"request_target", "request_version", "response_status", "response_reason"} :
                   Fits(Ok([out EXCEPT !.start_line = line], Simple(at), offset))
            /\ Fits(Ok([out EXCEPT !.start_line = line], Fields(0), offset))
    <2> SUFFICES ASSUME NEW line, NEW offset, NEW new, new = [out EXCEPT !.start_line = line]
                 PROVE  /\ \A at \in {"request_target", "request_version", "response_status",
                                       "response_reason"} : Fits(Ok(new, Simple(at), offset))
                        /\ Fits(Ok(new, Fields(0), offset))
      OBVIOUS
    <2>1. new.fields = out.fields
      BY <1>1
    <2> QED BY <1>3, <2>1
  <1>5. CASE st.at = "request_method"
    BY <1>2, <1>4, <1>5 DEF Handle, HandleRequestMethod
  <1>6. CASE st.at = "request_target"
    BY <1>2, <1>4, <1>6 DEF Handle, HandleRequestTarget
  <1>7. CASE st.at = "request_version"
    BY <1>2, <1>4, <1>7 DEF Handle, HandleRequestVersion
  <1>8. CASE st.at = "response_version"
    BY <1>2, <1>4, <1>8 DEF Handle, HandleResponseVersion
  <1>9. CASE st.at = "response_status"
    BY <1>2, <1>4, <1>9 DEF Handle, HandleResponseStatus
  <1>10. CASE st.at = "response_reason"
    BY <1>2, <1>4, <1>10 DEF Handle, HandleResponseReason
  <1> QED BY <1>5, <1>6, <1>7, <1>8, <1>9, <1>10 DEF RequestStates, ResponseStates

\* Neither do those of the body and of the chunks change the fields, and the
\* states that hand over keep them for the trailing fields or start anew.
LEMMA BodyFits ==
    ASSUME NEW st, NEW out, NEW bytes \in Seq(Byte), StateInv(st, out),
           FieldsFit(out.fields, FieldRoom(st)),
           st.at \in {"body", "chunked_empty", "chunked_line", "chunked_complete", "complete"}
    PROVE  Fits(Handle(st, out, bytes))
  <1>1. /\ out = [start_line |-> out.start_line, fields |-> out.fields, body |-> out.body]
        /\ out.start_line.kind \in {"request", "response"}
    BY DEF StateInv, MessageTyped, StartLineType
  <1>2. /\ SectionSize \in Nat /\ 2 * SectionSize \in Nat /\ SectionSize <= 2 * SectionSize
        /\ FieldRoom(st) \in Nat /\ FieldRoom(st) <= SectionSize
    BY RoomType
  <1>3. ASSUME NEW new, new.fields = out.fields, NEW offset
        PROVE  /\ Fits(Ok(new, Simple("complete"), offset))
               /\ st.at = "body" => Fits(Ok(new, st, offset))
    <2>1. Fits(Ok(new, Simple("complete"), offset))
      BY <1>2, <1>3, OkFits DEF Simple
    <2>2. st.at = "body" => Fits(Ok(new, st, offset))
      BY <1>2, <1>3, OkFits
    <2> QED BY <2>1, <2>2
  <1>4. ASSUME NEW offset
        PROVE  /\ \A ext, chunk : Fits(Ok(out, ChunkedComplete(ext, chunk), offset))
               /\ \A ext, size : Fits(Ok(out, ChunkedLine(ext, size), offset))
               /\ Fits(Ok(out, TrailingFields(0), offset))
               /\ Fits(Ok(out, Simple("chunked_empty"), offset))
    <2>1. \A ext, chunk : Fits(Ok(out, ChunkedComplete(ext, chunk), offset))
      BY <1>2, OkFits, Rooms DEF ChunkedComplete
    <2>2. \A ext, size : Fits(Ok(out, ChunkedLine(ext, size), offset))
      BY <1>2, OkFits, Rooms DEF ChunkedLine
    <2>3. Fits(Ok(out, TrailingFields(0), offset))
      BY <1>2, OkFits, Rooms DEF TrailingFields
    <2>4. Fits(Ok(out, Simple("chunked_empty"), offset))
      BY <1>2, OkFits, Rooms DEF Simple
    <2> QED BY <2>1, <2>2, <2>3, <2>4
  <1>5. Fits(Err("BAD_REQUEST"))
    BY ErrFits DEF NoError
  <1>6. CASE st.at = "body"
    <2>1. \A body, offset :
              /\ Fits(Ok([out EXCEPT !.body = body], Simple("complete"), offset))
              /\ Fits(Ok([out EXCEPT !.body = body], st, offset))
      <3> SUFFICES ASSUME NEW body, NEW offset, NEW new, new = [out EXCEPT !.body = body]
                   PROVE  Fits(Ok(new, Simple("complete"), offset)) /\ Fits(Ok(new, st, offset))
        OBVIOUS
      <3>1. new.fields = out.fields
        BY <1>1
      <3> QED BY <1>3, <1>6, <3>1
    <2> QED BY <1>6, <2>1 DEF Handle, HandleBody
  <1>7. CASE st.at = "chunked_empty"
    <2>1. \A str, delim, size :
              TryFind(str, delim, size).error # "NONE" =>
                  Fits(Unfound(TryFind(str, delim, size), out, st, "BAD_REQUEST"))
      BY <1>7, StopFits, SearchEnds DEF NoError
    <2> QED BY <1>4, <1>5, <1>7, <2>1 DEF Handle, HandleChunkedEmpty
  <1>8. CASE st.at = "chunked_line"
    BY <1>4, <1>5, <1>8, StopFits DEF Handle, HandleChunkedLine
  <1>9. CASE st.at = "chunked_complete"
    BY <1>4, <1>9 DEF Handle, HandleChunkedComplete
  <1>10. CASE st.at = "complete"
    <2>1. FieldRoom(st) = 0
      BY <1>10 DEF FieldRoom
    <2>2. ASSUME NEW at \in {"request_method", "response_version"}
          PROVE  Fits(Ok(out, Simple(at), ContinueToken))
      <3>1. FieldRoom(Simple(at)) = 0 /\ Simple(at).at # "complete"
        BY Rooms DEF Simple, RequestStates, ResponseStates
      <3> QED BY <2>1, <3>1, OkFits
    <2> QED BY <1>10, <2>2 DEF Handle, HandleComplete
  <1> QED BY <1>6, <1>7, <1>8, <1>9, <1>10

\* Every handler keeps the fields within their room.
LEMMA HandleFits ==
    ASSUME NEW st, NEW out, NEW bytes \in Seq(Byte), StateInv(st, out),
           FieldsFit(out.fields, FieldRoom(st))
    PROVE  Fits(Handle(st, out, bytes))
  <1>1. CASE st.at \in RequestStates \cup ResponseStates
    BY <1>1, StartLineFits
  <1>2. CASE st.at \in {"fields", "trailing_fields"}
    BY <1>2, FieldsFits DEF Handle
  <1>3. CASE st.at \in {"body", "chunked_empty", "chunked_line", "chunked_complete", "complete"}
    BY <1>3, BodyFits
  <1> QED BY <1>1, <1>2, <1>3, StateParts DEF StateInv, SimpleStates

\* No fields take no room.
LEMMA NoFieldsFit == FieldsFit(<< >>, 0) /\ DOMAIN << >> = {}
  <1>1. DOMAIN << >> = {} /\ Sizes(<< >>) \in [{} -> Nat]
    BY DEF Sizes
  <1>2. SumFunction(Sizes(<< >>)) = 0
    BY <1>1, SumOfNothing
  <1> QED BY <1>1, <1>2, FS_EmptySet DEF FieldsFit, Memory

\* What a step keeps and what it delivers fit into the room there is.
LEMMA DispatchFits ==
    ASSUME NEW st, NEW out, NEW bytes \in Seq(Byte), StateInv(st, out),
           FieldsFit(out.fields, FieldRoom(st)),
           NEW r, r = Dispatch(st, out, bytes)
    PROVE  /\ FieldsFit(r.output.fields, FieldRoom(r.state))
           /\ \/ r.events = << >>
              \/ \E e : r.events = << e >> /\ FieldsFit(e.message.fields, 2 * SectionSize)
  <1> DEFINE h == Handle(st, out, bytes)
  <1>1. Fits(h)
    BY HandleFits
  <1>2. CASE h.error # NoError
    BY <1>2 DEF Dispatch, Outcome
  <1>3. CASE h.error = NoError
    <2>1. /\ r.state = h.state
          /\ r.output = IF h.state.at = "complete" THEN DefaultMessage ELSE h.output
          /\ r.events = CASE h.state.at = "chunked_complete" -> << ChunkEvent(h.output, h.state) >>
                          [] h.state.at = "complete" -> << MessageEvent(h.output) >>
                          [] OTHER -> << >>
      BY <1>3 DEF Dispatch, Outcome
    <2> HIDE DEF h
    <2>2. CASE h.state.at = "complete"
      <3>1. FieldsFit(h.output.fields, 2 * SectionSize)
        BY <1>1, <1>3, <2>2 DEF Fits
      <3>2. r.output.fields = << >> /\ FieldRoom(r.state) = 0
        BY <2>1, <2>2 DEF DefaultMessage, EmptyMessage, FieldRoom
      <3>3. r.events = << MessageEvent(h.output) >> /\ MessageEvent(h.output).message = h.output
        BY <2>1, <2>2 DEF MessageEvent
      <3> QED BY <3>1, <3>2, <3>3, NoFieldsFit
    <2>3. CASE h.state.at = "chunked_complete"
      <3>1. FieldsFit(r.output.fields, SectionSize) /\ FieldRoom(r.state) = SectionSize
        BY <1>1, <1>3, <2>1, <2>3 DEF Fits, FieldRoom, RequestStates, ResponseStates
      <3>2. SectionSize \in Nat
        BY LimitsInRange, Tokens DEF SectionSize
      <3>3. FieldsFit(h.output.fields, 2 * SectionSize)
        <4>1. Memory(h.output.fields) \in Nat
          <5>1. FieldsTyped(h.output.fields)
            <6>1. MessageTyped(r.output) /\ r.output = h.output
              BY <2>1, <2>3, DispatchSound DEF DispatchOk, StateInv
            <6> QED BY <6>1 DEF MessageTyped
          <5> QED BY <2>1, <2>3, <3>1, <5>1, MemoryType, SumType DEF FieldsFit, Memory
        <4> QED BY <2>1, <2>3, <3>1, <3>2, <4>1 DEF FieldsFit
      <3>4. r.events = << ChunkEvent(h.output, h.state) >> /\ ChunkEvent(h.output, h.state).message = h.output
        BY <2>1, <2>3 DEF ChunkEvent
      <3> QED BY <3>1, <3>3, <3>4
    <2>4. CASE h.state.at \notin {"chunked_complete", "complete"}
      BY <1>1, <1>3, <2>1, <2>4 DEF Fits
    <2> QED BY <2>2, <2>3, <2>4
  <1> QED BY <1>2, <1>3

-----------------------------------------------------------------------------
(* The kind of the messages. *)

\* What the result r of a handler keeps of the message: its start line stays
\* of its kind, and only another status line follows a status line.
SameKind(r, st, out) ==
    r.error = NoError =>
        /\ r.output.start_line.kind = out.start_line.kind
        /\ r.state.at \in ResponseStates =>
               st.at \in ResponseStates \/ out.start_line.kind # "request"

\* No part of the start line that is filled in is its kind.
LEMMA PartsAreNotKind ==
    ASSUME NEW out, MessageTyped(out), NEW value
    PROVE  /\ [out EXCEPT !.start_line.method = value].start_line.kind = out.start_line.kind
           /\ [out EXCEPT !.start_line.target = value].start_line.kind = out.start_line.kind
           /\ [out EXCEPT !.start_line.version = value].start_line.kind = out.start_line.kind
           /\ [out EXCEPT !.start_line.status = value].start_line.kind = out.start_line.kind
           /\ [out EXCEPT !.start_line.reason = value].start_line.kind = out.start_line.kind
           /\ [out EXCEPT !.fields = value].start_line = out.start_line
           /\ [out EXCEPT !.body = value].start_line = out.start_line
  BY DEF MessageTyped, StartLineType

\* A step to a state that is not one of a status line.
LEMMA OkSameKind ==
    ASSUME NEW st, NEW out, NEW new, new.start_line.kind = out.start_line.kind,
           NEW next, next.at \in ResponseStates => st.at \in ResponseStates, NEW offset
    PROVE  SameKind(Ok(new, next, offset), st, out)
  BY DEF SameKind, Ok

\* An error has no message.
LEMMA ErrSameKind ==
    ASSUME NEW st, NEW out, NEW status, status # NoError
    PROVE  SameKind(Err(status), st, out)
  BY DEF SameKind, Err

\* A search that does not succeed leaves message and state.
LEMMA UnfoundSameKind ==
    ASSUME NEW st, NEW out, NEW found, found.error \in SearchErrors, NEW status, status # NoError
    PROVE  SameKind(Unfound(found, out, st, status), st, out)
  <1>1. CASE found.error = "NOT_FOUND"
    BY <1>1, OkSameKind DEF Unfound, Stop
  <1>2. CASE found.error # "NOT_FOUND"
    BY <1>2, ErrSameKind DEF Unfound, NoError, SearchErrors
  <1> QED BY <1>1, <1>2

\* Every handler keeps the kind of the message.
LEMMA HandleSameKind ==
    ASSUME NEW st, NEW out, NEW bytes, StateInv(st, out)
    PROVE  SameKind(Handle(st, out, bytes), st, out)
  <1> DEFINE Same(r) == SameKind(r, st, out)
             Kept(new) == new.start_line.kind = out.start_line.kind
  <1> SUFFICES Same(Handle(st, out, bytes))
    OBVIOUS
  <1>1. Kept(out)
    OBVIOUS
  <1>2. \A status \in {"BAD_REQUEST", "NOT_IMPLEMENTED", "URI_TOO_LONG", "CONTENT_TOO_LARGE"} :
            /\ Same(Err(status))
            /\ \A str, delim, size :
                   TryFind(str, delim, size).error # "NONE" =>
                       Same(Unfound(TryFind(str, delim, size), out, st, status))
    BY ErrSameKind, UnfoundSameKind, SearchEnds DEF NoError
  <1>3. ASSUME NEW new, Kept(new), NEW offset
        PROVE  /\ \A at : at \notin ResponseStates \/ st.at \in ResponseStates
                              => Same(Ok(new, Simple(at), offset))
               /\ Same(Ok(new, st, offset))
               /\ \A n : Same(Ok(new, Fields(n), offset)) /\ Same(Ok(new, TrailingFields(n), offset))
               /\ \A n : Same(Ok(new, Body(n), offset))
               /\ \A ext, x : /\ Same(Ok(new, ChunkedLine(ext, x), offset))
                              /\ Same(Ok(new, ChunkedComplete(ext, x), offset))
    <2>1. \A next : (next.at \in ResponseStates => st.at \in ResponseStates) => Same(Ok(new, next, offset))
      BY <1>3, OkSameKind
    <2>2. /\ \A at : Simple(at).at = at
          /\ \A n : Fields(n).at = "fields" /\ TrailingFields(n).at = "trailing_fields"
          /\ \A n : Body(n).at = "body"
          /\ \A ext, x : ChunkedLine(ext, x).at = "chunked_line"
          /\ \A ext, x : ChunkedComplete(ext, x).at = "chunked_complete"
      BY DEF Simple, Fields, TrailingFields, Body, ChunkedLine, ChunkedComplete
    <2>3. {"fields", "trailing_fields", "body", "chunked_line", "chunked_complete"}
              \cap ResponseStates = {}
      BY DEF ResponseStates
    <2> HIDE DEF Same, Kept
    <2> QED BY <2>1, <2>2, <2>3
  <1>4. {"request_method", "request_target", "request_version", "complete", "chunked_empty"}
            \cap ResponseStates = {}
    BY DEF ResponseStates
  <1>5. {"response_version", "response_status", "response_reason"} \subseteq ResponseStates
    BY DEF ResponseStates
  <1> HIDE DEF Same, Kept
  <1>7. CASE st.at = "request_method"
    <2> DEFINE found == TryFind(bytes, SP, MethodMaxLength)
               new == [out EXCEPT !.start_line.method = MethodFromStr[found.value]]
               next == Simple("request_target")
    <2>1. Kept(new)
      BY PartsAreNotKind DEF StateInv, Kept
    <2> HIDE DEF new
    <2>2. Same(Ok(new, next, found.offset))
      BY <1>3, <1>4, <1>5, <1>7, <2>1
    <2> HIDE DEF next
    <2> QED BY <1>2, <1>7, <2>2 DEF Handle, HandleRequestMethod, new, next
  <1>8. CASE st.at = "request_target"
    <2> DEFINE found == TryFind(bytes, SP, MaxTargetSize)
               new == [out EXCEPT !.start_line.target = TargetFromStr[found.value]]
               next == Simple("request_version")
    <2>1. Kept(new)
      BY PartsAreNotKind DEF StateInv, Kept
    <2> HIDE DEF new
    <2>2. Same(Ok(new, next, found.offset))
      BY <1>3, <1>4, <1>5, <1>8, <2>1
    <2> HIDE DEF next
    <2> QED BY <1>2, <1>8, <2>2 DEF Handle, HandleRequestTarget, new, next
  <1>9. CASE st.at = "request_version"
    <2> DEFINE found == TryFind(bytes, CRLF, VersionMaxLength)
               new == [out EXCEPT !.start_line.version = VersionFromStr[found.value]]
               next == Fields(0)
    <2>1. Kept(new)
      BY PartsAreNotKind DEF StateInv, Kept
    <2> HIDE DEF new
    <2>2. Same(Ok(new, next, found.offset))
      BY <1>3, <1>4, <1>5, <1>9, <2>1
    <2> HIDE DEF next
    <2> QED BY <1>2, <1>9, <2>2 DEF Handle, HandleRequestVersion, new, next
  <1>10. CASE st.at = "response_version"
    <2> DEFINE found == TryFind(bytes, SP, VersionMaxLength)
               new == [out EXCEPT !.start_line.version = VersionFromStr[found.value]]
               next == Simple("response_status")
    <2>1. Kept(new)
      BY PartsAreNotKind DEF StateInv, Kept
    <2> HIDE DEF new
    <2>2. Same(Ok(new, next, found.offset))
      BY <1>3, <1>4, <1>5, <1>10, <2>1
    <2> HIDE DEF next
    <2> QED BY <1>2, <1>10, <2>2 DEF Handle, HandleResponseVersion, new, next
  <1>11. CASE st.at = "response_status"
    <2> DEFINE found == TryFind(bytes, SP, StatusCodeLength)
               new == [out EXCEPT !.start_line.status = FromChars(found.value, 10, 2 ^ 16)]
               next == Simple("response_reason")
    <2>1. Kept(new)
      BY PartsAreNotKind DEF StateInv, Kept
    <2> HIDE DEF new
    <2>2. Same(Ok(new, next, found.offset))
      BY <1>3, <1>4, <1>5, <1>11, <2>1
    <2> HIDE DEF next
    <2> QED BY <1>2, <1>11, <2>2 DEF Handle, HandleResponseStatus, new, next
  <1>12. CASE st.at = "response_reason"
    <2> DEFINE found == TryFind(bytes, CRLF, MaxReasonSize)
               new == [out EXCEPT !.start_line.reason = found.value]
               next == Fields(0)
    <2>1. Kept(new)
      BY PartsAreNotKind DEF StateInv, Kept
    <2> HIDE DEF new
    <2>2. Same(Ok(new, next, found.offset))
      BY <1>3, <1>4, <1>5, <1>12, <2>1
    <2> HIDE DEF next
    <2> QED BY <1>2, <1>12, <2>2 DEF Handle, HandleResponseReason, new, next
  <1>13. CASE st.at \in {"fields", "trailing_fields"}
    <2>1. \A offset : Same(FinalizeFields(out, offset))
      BY <1>2, <1>3, <1>4, <1>1 DEF FinalizeFields
    <2>2. \A new, size, offset : Kept(new) => Same(Ok(new, Counted(st, size), offset))
      <3>1. \A size : Counted(st, size).at = st.at
        BY <1>13, StateParts DEF Counted, StateInv
      <3>2. st.at \notin ResponseStates
        BY <1>13 DEF ResponseStates
      <3> QED BY <3>1, <3>2, OkSameKind DEF Same, Kept
    <2> DEFINE found == TryFind(bytes, CRLF, SizeSub(MaxFieldSize, st.consumed_bytes))
               line  == found.value
               colon == TryFindUnlimited(line, COLON)
               key   == ToLowercase(colon.value)
               value == StripWs(SubSeq(line, colon.offset + 1, Len(line)))
               new   == [out EXCEPT !.fields = AddField(@, key, value)]
    <2>3. Kept(new)
      BY PartsAreNotKind DEF StateInv, Kept
    <2> HIDE DEF key, value, new
    <2>4. Same(Ok(new, Counted(st, found.offset), found.offset))
      BY <2>2, <2>3
    <2>5. Same(Ok(out, Simple("complete"), found.offset))
      BY <1>3, <1>4, <1>1
    <2> QED BY <1>2, <1>13, <2>1, <2>4, <2>5 DEF Handle, HandleFields, key, value, new
  <1>14. CASE st.at = "body"
    <2> DEFINE taken == Lesser(SizeSub(st.content_length, Len(out.body)), Len(bytes))
               grown == [out EXCEPT !.body = @ \o SubSeq(bytes, 1, taken)]
    <2>1. Kept(grown)
      BY PartsAreNotKind DEF StateInv, Kept
    <2> HIDE DEF grown, taken
    <2>2. Same(Ok(grown, st, taken)) /\ Same(Ok(grown, Simple("complete"), taken))
      BY <1>3, <1>4, <2>1
    <2> QED BY <1>14, <2>2 DEF Handle, HandleBody, grown, taken
  <1>15. CASE st.at = "chunked_empty"
    BY <1>2, <1>3, <1>1, <1>15 DEF Handle, HandleChunkedEmpty
  <1>16. CASE st.at = "chunked_line"
    BY <1>2, <1>3, <1>1, <1>16 DEF Handle, HandleChunkedLine, Stop
  <1>17. CASE st.at = "chunked_complete"
    BY <1>3, <1>4, <1>1, <1>17 DEF Handle, HandleChunkedComplete
  <1>18. CASE st.at = "complete"
    BY <1>18 DEF Handle, HandleComplete, Same, SameKind, Ok, Simple, ResponseStates
  <1> QED BY <1>7, <1>8, <1>9, <1>10, <1>11, <1>12, <1>13, <1>14, <1>15, <1>16, <1>17, <1>18,
             StateParts
          DEF StateInv, SimpleStates, RequestStates, ResponseStates

\* A step of a deserializer of requests: the message it fills in and those it
\* delivers are requests, and at most one event is delivered.
LEMMA RequestStep ==
    ASSUME NEW st, NEW out, NEW bytes, StateInv(st, out),
           st.at \notin ResponseStates, out.start_line.kind = "request",
           NEW r, r = Dispatch(st, out, bytes)
    PROVE  /\ r.state.at \notin ResponseStates
           /\ r.output.start_line.kind = "request"
           /\ \/ r.events = << >>
              \/ \E e : r.events = << e >> /\ e.message.start_line.kind = "request"
  <1> DEFINE h == Handle(st, out, bytes)
  <1>1. SameKind(h, st, out)
    BY HandleSameKind
  <1>2. CASE h.error # NoError
    BY <1>2 DEF Dispatch, Outcome
  <1>3. CASE h.error = NoError
    <2>1. h.output.start_line.kind = "request" /\ h.state.at \notin ResponseStates
      BY <1>1, <1>3 DEF SameKind
    <2>2. DefaultMessage.start_line.kind = "request"
      BY DEF DefaultMessage, EmptyMessage, RequestLine
    <2>3. /\ ChunkEvent(h.output, h.state).message = h.output
          /\ MessageEvent(h.output).message = h.output
      BY DEF ChunkEvent, MessageEvent
    <2>4. /\ r.state = h.state
          /\ r.output = IF h.state.at = "complete" THEN DefaultMessage ELSE h.output
          /\ r.events = CASE h.state.at = "chunked_complete" -> << ChunkEvent(h.output, h.state) >>
                          [] h.state.at = "complete" -> << MessageEvent(h.output) >>
                          [] OTHER -> << >>
      BY <1>3 DEF Dispatch, Outcome
    <2> HIDE DEF h
    <2>5. CASE h.state.at = "chunked_complete"
      BY <2>1, <2>3, <2>4, <2>5
    <2>6. CASE h.state.at = "complete"
      BY <2>1, <2>2, <2>3, <2>4, <2>6
    <2>7. CASE h.state.at \notin {"chunked_complete", "complete"}
      BY <2>1, <2>4, <2>7
    <2> QED BY <2>5, <2>6, <2>7
  <1> QED BY <1>2, <1>3

-----------------------------------------------------------------------------
(* What more bytes change: nothing, once a handler does not wait for them. *)

\* A search that has an answer has the same when more bytes have arrived: it
\* looks at a window only.
LEMMA FindExtends ==
    ASSUME NEW str \in Seq(Byte), NEW more \in Seq(Byte), NEW delim \in {SP, CRLF},
           NEW maxSize \in Nat,
           TryFind(str, delim, maxSize).error # "NOT_FOUND"
    PROVE  TryFind(str \o more, delim, maxSize) = TryFind(str, delim, maxSize)
  <1> DEFINE long   == str \o more
             window == maxSize + Len(delim)
             front(s) == SubSeq(s, 1, Lesser(window, Len(s)))
             found(s) == TryFindUnlimited(front(s), delim)
  <1>1. /\ delim \in Seq(Byte) /\ Len(delim) \in {1, 2}
        /\ MaxStrSize \in Nat /\ DebugBuild \in BOOLEAN
    BY Tokens, StringsAssumption
  <1>2. /\ long \in Seq(Byte) /\ Len(str) \in Nat /\ Len(more) \in Nat
        /\ Len(long) = Len(str) + Len(more)
        /\ \A i \in 1 .. Len(str) : long[i] = str[i]
    BY ConcatProperties, LenProperties
  <1>3. \A s : TryFind(s, delim, maxSize) =
            IF maxSize > MaxStrSize - Len(delim)
            THEN NotFound(IF DebugBuild THEN "ASSERTION_FAILED" ELSE "MAX_SIZE_EXCEEDED")
            ELSE IF found(s).error = "NOT_FOUND" /\ window <= Len(s)
            THEN NotFound("MAX_SIZE_EXCEEDED")
            ELSE found(s)
    BY DEF TryFind
  <1> HIDE DEF found, long
  <1>4. CASE maxSize > MaxStrSize - Len(delim)
    BY <1>3, <1>4 DEF long
  <1>5. CASE ~ (maxSize > MaxStrSize - Len(delim)) /\ window <= Len(str)
    <2>1. window \in 0 .. Len(str) /\ window \in 0 .. Len(long)
      BY <1>1, <1>2, <1>5
    <2>2. front(str) = SubSeq(str, 1, window) /\ front(long) = SubSeq(long, 1, window)
      BY <2>1 DEF Lesser
    <2>3. SubSeq(long, 1, window) = SubSeq(str, 1, window)
      BY <1>2, <2>1, FrontProperties, SeqEqual
    <2>4. found(long) = found(str)
      BY <2>2, <2>3 DEF found
    <2>5. window <= Len(long)
      BY <2>1
    <2> QED BY <1>3, <1>5, <2>4, <2>5 DEF long
  <1>6. CASE ~ (maxSize > MaxStrSize - Len(delim)) /\ Len(str) < window
    <2> DEFINE part == front(long)
    <2>1. TryFind(str, delim, maxSize) = found(str) /\ front(str) = str
      <3>1. Lesser(window, Len(str)) = Len(str)
        BY <1>1, <1>2, <1>6 DEF Lesser
      <3>2. SubSeq(str, 1, Len(str)) = str
        BY SubSeqFull
      <3> QED BY <1>1, <1>2, <1>3, <1>6, <3>1, <3>2
    <2>2. found(str).error # "NOT_FOUND" /\ found(str) = TryFindUnlimited(str, delim)
      BY <2>1 DEF found
    <2>3. /\ part \in Seq(Byte) /\ Len(part) \in Nat /\ Len(str) <= Len(part)
          /\ \A i \in 1 .. Len(str) : part[i] = str[i]
      <3>1. Lesser(window, Len(long)) \in 0 .. Len(long) /\ Len(str) <= Lesser(window, Len(long))
        BY <1>1, <1>2, <1>6 DEF Lesser
      <3> QED BY <1>2, <3>1, FrontProperties
    <2> HIDE DEF part
    <2>4. TryFindUnlimited(part, delim) = TryFindUnlimited(str, delim)
      BY <1>1, <2>2, <2>3, FoundEarly
    <2>5. found(long) = found(str)
      BY <2>2, <2>4 DEF found, part
    <2> QED BY <1>3, <1>6, <2>1, <2>2, <2>5 DEF long
  <1> QED BY <1>1, <1>2, <1>4, <1>5, <1>6


\* The handler leaves everything as it is until there are more bytes.
Waits(r, st, out) == st.at \notin {"chunked_complete", "complete"} /\ r = Stop(out, st)

\* A handler that does not wait does the same with more bytes.
Extends(st, out, bytes, more) ==
    \/ Waits(Handle(st, out, bytes), st, out)
    \/ Handle(st, out, bytes \o more) = Handle(st, out, bytes)

\* The handlers that begin with a search.
LEMMA SearchExtends ==
    ASSUME NEW bytes \in Seq(Byte), NEW more \in Seq(Byte), NEW delim \in {SP, CRLF},
           NEW maxSize \in Nat, NEW found, found = TryFind(bytes, delim, maxSize)
    PROVE  \/ TryFind(bytes \o more, delim, maxSize) = found
           \/ /\ found.error = "NOT_FOUND"
              /\ \A st, out, status : Unfound(found, out, st, status) = Stop(out, st)
  BY FindExtends DEF Unfound

\* Outside of a body every handler waits or does the same with more bytes.
LEMMA HandleExtends ==
    ASSUME NEW st, NEW out, NEW bytes \in Seq(Byte), NEW more \in Seq(Byte), StateInv(st, out),
           st.at # "body"
    PROVE  Extends(st, out, bytes, more)
  <1> DEFINE long == bytes \o more
  <1>1. /\ MethodMaxLength \in Nat /\ VersionMaxLength \in Nat /\ StatusCodeLength \in Nat
        /\ MaxReasonSize \in Nat /\ MaxTargetSize \in Nat /\ MaxChunkLineSize \in Nat
    BY LimitsInRange
  <1>2. "NOT_FOUND" # "NONE"
    OBVIOUS
  <1>3. CASE st.at = "request_method"
    <2> DEFINE found == TryFind(bytes, SP, MethodMaxLength)
    <2>1. \/ TryFind(long, SP, MethodMaxLength) = found
          \/ found.error = "NOT_FOUND" /\ \A status : Unfound(found, out, st, status) = Stop(out, st)
      BY <1>1, SearchExtends
    <2>2. \A b : Handle(st, out, b) = HandleRequestMethod(out, st, b)
      BY <1>3 DEF Handle
    <2> HIDE DEF long
    <2>3. HandleRequestMethod(out, st, bytes) = Stop(out, st) \/ HandleRequestMethod(out, st, long) = HandleRequestMethod(out, st, bytes)
      BY <2>1 DEF HandleRequestMethod
    <2> QED BY <1>3, <2>2, <2>3 DEF Extends, Waits, long
  <1>4. CASE st.at = "request_target"
    BY <1>1, <1>2, <1>4, SearchExtends DEF Extends, Waits, Handle, HandleRequestTarget
  <1>5. CASE st.at = "request_version"
    BY <1>1, <1>2, <1>5, SearchExtends DEF Extends, Waits, Handle, HandleRequestVersion
  <1>6. CASE st.at = "response_version"
    BY <1>1, <1>2, <1>6, SearchExtends DEF Extends, Waits, Handle, HandleResponseVersion
  <1>7. CASE st.at = "response_status"
    BY SMTT(30), <1>1, <1>2, <1>7, SearchExtends DEF Extends, Waits, Handle, HandleResponseStatus
  <1>8. CASE st.at = "response_reason"
    <2> DEFINE found == TryFind(bytes, CRLF, MaxReasonSize)
    <2>1. \/ TryFind(long, CRLF, MaxReasonSize) = found
          \/ found.error = "NOT_FOUND" /\ \A status : Unfound(found, out, st, status) = Stop(out, st)
      BY <1>1, SearchExtends
    <2>2. \A b : Handle(st, out, b) = HandleResponseReason(out, st, b)
      BY <1>8 DEF Handle
    <2> HIDE DEF long
    <2>3. HandleResponseReason(out, st, bytes) = Stop(out, st) \/ HandleResponseReason(out, st, long) = HandleResponseReason(out, st, bytes)
      BY <2>1 DEF HandleResponseReason
    <2> QED BY <1>8, <2>2, <2>3 DEF Extends, Waits, long
  <1>9. CASE st.at \in {"fields", "trailing_fields"}
    <2>1. SizeSub(MaxFieldSize, st.consumed_bytes) \in Nat
      BY <1>9, StateParts, FieldsBudget, Tokens DEF StateInv
    <2> QED BY <1>2, <1>9, <2>1, SearchExtends DEF Extends, Waits, Handle, HandleFields
  <1>10. CASE st.at = "chunked_empty"
    BY <1>1, <1>2, <1>10, SearchExtends DEF Extends, Waits, Handle, HandleChunkedEmpty
  <1>11. CASE st.at = "chunked_line"
    <2> DEFINE offset == st.chunk_size + Len(CRLF)
    <2>1. st.chunk_size \in Nat /\ Len(CRLF) = 2 /\ Len(bytes) \in Nat
      BY <1>11, StateParts, Tokens DEF StateInv
    <2>2. Handle(st, out, bytes) = HandleChunkedLine(out, st, bytes) /\ Handle(st, out, long) = HandleChunkedLine(out, st, long)
      BY <1>11 DEF Handle
    <2>3. CASE Len(bytes) < offset
      BY <1>11, <2>2, <2>3 DEF Extends, Waits, HandleChunkedLine
    <2>4. CASE ~ (Len(bytes) < offset)
      <3>1. offset \in 0 .. Len(bytes) /\ st.chunk_size \in 0 .. offset /\ st.chunk_size \in 0 .. Len(bytes)
        BY <2>1, <2>4
      <3> HIDE DEF offset
      <3>2. Len(long) \in Nat /\ ~ (Len(long) < offset)
        BY <2>1, <2>4, <3>1, ConcatProperties, LenProperties
      <3>3. SubSeq(long, 1, st.chunk_size) = SubSeq(bytes, 1, st.chunk_size)
        BY <3>1, CutInFirst
      <3>4. SubSeq(long, st.chunk_size + 1, offset) = SubSeq(bytes, st.chunk_size + 1, offset)
        BY <3>1, PieceOfFirst
      <3>5. HandleChunkedLine(out, st, long) = HandleChunkedLine(out, st, bytes)
        BY <2>4, <3>2, <3>3, <3>4 DEF HandleChunkedLine, offset
      <3> QED BY <2>2, <3>5 DEF Extends
    <2> QED BY <2>3, <2>4
  <1>12. CASE st.at = "chunked_complete"
    BY <1>12 DEF Extends, Handle, HandleChunkedComplete
  <1>13. CASE st.at = "complete"
    BY <1>13 DEF Extends, Handle, HandleComplete
  <1>14. st.at \in {"request_method", "request_target", "request_version",
                    "response_version", "response_status", "response_reason",
                    "fields", "trailing_fields", "body", "chunked_empty",
                    "chunked_line", "chunked_complete", "complete"}
    BY StateParts DEF StateInv, SimpleStates, RequestStates, ResponseStates
  <1> QED BY <1>3, <1>4, <1>5, <1>6, <1>7, <1>8, <1>9, <1>10, <1>11, <1>12, <1>13, <1>14

\* A message whose body has grown.
Grown(out, bytes) == [start_line |-> out.start_line, fields |-> out.fields, body |-> out.body \o bytes]

\* How many bytes a body still needs.
Missing(st, out) == st.content_length - Len(out.body)

\* The body takes what it still needs, or all there is.
LEMMA BodyStep ==
    ASSUME NEW st, NEW out, NEW bytes \in Seq(Byte), StateInv(st, out), st.at = "body",
           NEW left, left = Missing(st, out)
    PROVE  /\ left \in Nat \ {0} /\ left < ContinueToken
           /\ Len(bytes) < left => Handle(st, out, bytes) = Ok(Grown(out, bytes), st, Len(bytes))
           /\ left <= Len(bytes) => Handle(st, out, bytes) =
                                      Ok(Grown(out, SubSeq(bytes, 1, left)), Simple("complete"), left)
  <1> DEFINE taken == Lesser(SizeSub(st.content_length, Len(out.body)), Len(bytes))
             part  == SubSeq(bytes, 1, taken)
             grown == [out EXCEPT !.body = out.body \o part]
  <1>1. /\ st.content_length \in Nat
        /\ Len(out.body) < st.content_length
        /\ st.content_length <= MaxBodySize
        /\ MessageTyped(out)
        /\ out.body \in Seq(Byte)
        /\ Len(out.body) \in Nat
        /\ Len(bytes) \in Nat
        /\ left = st.content_length - Len(out.body)
    BY StateParts DEF StateInv, MessageTyped, Missing
  <1>2. left \in Nat \ {0} /\ left < ContinueToken
    <2>1. MaxBodySize \in Nat /\ MaxBodySize < ContinueToken /\ ContinueToken \in Nat
      BY BodyLimitsInRange, SizesInRange
    <2> QED BY <1>1, <2>1
  <1>3. taken = (IF Len(bytes) < left THEN Len(bytes) ELSE left) /\ taken \in 0 .. Len(bytes)
    <2>1. SizeSub(st.content_length, Len(out.body)) = left
      BY <1>1 DEF SizeSub
    <2> QED BY <1>1, <1>2, <2>1 DEF Lesser
  <1> HIDE DEF taken
  <1>4. /\ part \in Seq(Byte) /\ Len(part) = taken
        /\ out.body \o part \in Seq(Byte) /\ Len(out.body \o part) = Len(out.body) + taken
    BY <1>1, <1>3, FrontProperties, ConcatProperties
  <1> HIDE DEF part
  <1>5. grown = Grown(out, part) /\ grown.body = out.body \o part
    <2> DEFINE body == out.body \o part
    <2>1. out = [start_line |-> out.start_line, fields |-> out.fields, body |-> out.body]
      BY <1>1 DEF MessageTyped
    <2> HIDE DEF body
    <2>2. [out EXCEPT !.body = body] = [start_line |-> out.start_line, fields |-> out.fields, body |-> body]
      BY <2>1
    <2> QED BY <2>2 DEF Grown, body
  <1>6. Handle(st, out, bytes) = IF Len(grown.body) < st.content_length
                                 THEN Ok(grown, st, taken)
                                 ELSE Ok(grown, Simple("complete"), taken)
    BY DEF Handle, HandleBody, taken, part
  <1> HIDE DEF grown
  <1>7. CASE Len(bytes) < left
    <2>1. part = bytes
      BY <1>3, <1>7, SubSeqFull DEF part
    <2> QED BY <1>1, <1>2, <1>3, <1>4, <1>5, <1>6, <1>7, <2>1
  <1>8. CASE left <= Len(bytes)
    <2>1. taken = left
      BY <1>1, <1>2, <1>3, <1>8
    <2>2. part = SubSeq(bytes, 1, left)
      BY <2>1 DEF part
    <2> QED BY <1>1, <1>2, <1>4, <1>5, <1>6, <1>8, <2>1, <2>2
  <1> QED BY <1>1, <1>2, <1>7, <1>8

\* What a search that found nothing makes of a step.
LEMMA UnfoundStops ==
    ASSUME NEW found, found.error \in {"NOT_FOUND", "MAX_SIZE_EXCEEDED", "ASSERTION_FAILED"},
           NEW out, NEW st, NEW status, status # NoError
    PROVE  \/ Unfound(found, out, st, status).error # NoError
           \/ Unfound(found, out, st, status) = Stop(out, st)
  BY DEF Unfound, Err, NoError

\* A handler reports an error, waits or consumes something.
LEMMA WaitsOrTakes ==
    ASSUME NEW st, NEW out, NEW bytes \in Seq(Byte), StateInv(st, out),
           st.at \notin {"chunked_complete", "complete"},
           NEW h, h = Handle(st, out, bytes)
    PROVE  h.error # NoError \/ Waits(h, st, out) \/ h.offset \in Nat \ {0}
  <1>1. /\ MethodMaxLength \in Nat /\ VersionMaxLength \in Nat /\ StatusCodeLength \in Nat
        /\ MaxReasonSize \in Nat /\ MaxTargetSize \in Nat /\ MaxChunkLineSize \in Nat
        /\ Len(bytes) \in Nat
    BY LimitsInRange, LenProperties
  <1> DEFINE Good(x) == x.error # NoError \/ x = Stop(out, st) \/ x.offset \in Nat \ {0}
  <1>3. \A o, s, n : n \in Nat \ {0} => Good(Ok(o, s, n))
    BY DEF Ok
  <1>4. /\ Good(Err("BAD_REQUEST")) /\ Good(Err("CONTENT_TOO_LARGE"))
    BY DEF Err, NoError
  <1>5. ASSUME NEW delim \in {SP, CRLF}, NEW size \in Nat, NEW found,
               found = TryFind(bytes, delim, size)
        PROVE  /\ found.error = "NONE" => found.offset \in Nat \ {0}
               /\ found.error # "NONE" =>
                     \A status : status # NoError => Good(Unfound(found, out, st, status))
    <2>1. /\ found.error = "NONE" => found.offset \in 1 .. Len(bytes)
          /\ found.error # "NONE" =>
                found.error \in {"NOT_FOUND", "MAX_SIZE_EXCEEDED", "ASSERTION_FAILED"}
      BY <1>5, Search
    <2> QED BY <1>1, <2>1, UnfoundStops
  <1>6. /\ "BAD_REQUEST" # NoError /\ "CONTENT_TOO_LARGE" # NoError
        /\ "NOT_IMPLEMENTED" # NoError /\ "URI_TOO_LONG" # NoError
    BY DEF NoError
  <1> SUFFICES Good(h)
    BY DEF Waits
  <1> HIDE DEF Good
  <1>7. CASE st.at = "request_method"
    <2> DEFINE found == TryFind(bytes, SP, MethodMaxLength)
    <2>1. h = HandleRequestMethod(out, st, bytes)
      BY <1>7 DEF Handle
    <2>2. /\ found.error = "NONE" => found.offset \in Nat \ {0}
          /\ found.error # "NONE" => Good(Unfound(found, out, st, "NOT_IMPLEMENTED"))
      BY <1>1, <1>5, <1>6
    <2> QED BY <1>3, <1>4, <2>1, <2>2 DEF HandleRequestMethod
  <1>8. CASE st.at = "request_target"
    <2> DEFINE found == TryFind(bytes, SP, MaxTargetSize)
    <2>1. h = HandleRequestTarget(out, st, bytes)
      BY <1>8 DEF Handle
    <2>2. /\ found.error = "NONE" => found.offset \in Nat \ {0}
          /\ found.error # "NONE" => Good(Unfound(found, out, st, "URI_TOO_LONG"))
      BY <1>1, <1>5, <1>6
    <2> QED BY <1>3, <1>4, <2>1, <2>2 DEF HandleRequestTarget
  <1>9. CASE st.at = "request_version"
    <2> DEFINE found == TryFind(bytes, CRLF, VersionMaxLength)
    <2>1. h = HandleRequestVersion(out, st, bytes)
      BY <1>9 DEF Handle
    <2>2. /\ found.error = "NONE" => found.offset \in Nat \ {0}
          /\ found.error # "NONE" => Good(Unfound(found, out, st, "BAD_REQUEST"))
      BY <1>1, <1>5, <1>6
    <2> QED BY <1>3, <1>4, <2>1, <2>2 DEF HandleRequestVersion
  <1>10. CASE st.at = "response_version"
    <2> DEFINE found == TryFind(bytes, SP, VersionMaxLength)
    <2>1. h = HandleResponseVersion(out, st, bytes)
      BY <1>10 DEF Handle
    <2>2. /\ found.error = "NONE" => found.offset \in Nat \ {0}
          /\ found.error # "NONE" => Good(Unfound(found, out, st, "BAD_REQUEST"))
      BY <1>1, <1>5, <1>6
    <2> QED BY <1>3, <1>4, <2>1, <2>2 DEF HandleResponseVersion
  <1>11. CASE st.at = "response_status"
    <2> DEFINE found == TryFind(bytes, SP, StatusCodeLength)
    <2>1. h = HandleResponseStatus(out, st, bytes)
      BY <1>11 DEF Handle
    <2>2. /\ found.error = "NONE" => found.offset \in Nat \ {0}
          /\ found.error # "NONE" => Good(Unfound(found, out, st, "BAD_REQUEST"))
      BY <1>1, <1>5, <1>6
    <2> QED BY <1>3, <1>4, <2>1, <2>2 DEF HandleResponseStatus
  <1>12. CASE st.at = "response_reason"
    <2> DEFINE found == TryFind(bytes, CRLF, MaxReasonSize)
    <2>1. h = HandleResponseReason(out, st, bytes)
      BY <1>12 DEF Handle
    <2>2. /\ found.error = "NONE" => found.offset \in Nat \ {0}
          /\ found.error # "NONE" => Good(Unfound(found, out, st, "BAD_REQUEST"))
      BY <1>1, <1>5, <1>6
    <2> QED BY <1>3, <1>4, <2>1, <2>2 DEF HandleResponseReason
  <1>13. CASE st.at \in {"fields", "trailing_fields"}
    <2> DEFINE found == TryFind(bytes, CRLF, SizeSub(MaxFieldSize, st.consumed_bytes))
    <2>1. h = HandleFields(out, st, bytes)
      BY <1>13 DEF Handle
    <2>2. SizeSub(MaxFieldSize, st.consumed_bytes) \in Nat
      BY <1>13, StateParts, FieldsBudget, Tokens DEF StateInv
    <2>3. /\ found.error = "NONE" => found.offset \in Nat \ {0}
          /\ found.error # "NONE" => Good(Unfound(found, out, st, "CONTENT_TOO_LARGE"))
      BY <1>5, <1>6, <2>2
    <2>4. \A n : n \in Nat \ {0} => Good(FinalizeFields(out, n))
      BY <1>3, <1>4 DEF FinalizeFields
    <2> QED BY <1>3, <1>4, <2>1, <2>3, <2>4 DEF HandleFields
  <1>14. CASE st.at = "body"
    <2> DEFINE left == Missing(st, out)
    <2>1. /\ left \in Nat \ {0}
          /\ Len(bytes) < left => h = Ok(Grown(out, bytes), st, Len(bytes))
          /\ left <= Len(bytes) => h = Ok(Grown(out, SubSeq(bytes, 1, left)), Simple("complete"), left)
      BY <1>14, BodyStep
    <2> HIDE DEF left
    <2>2. CASE bytes # << >>
      <3>1. Len(bytes) \in Nat \ {0}
        BY <1>1, <2>2, EmptySeq
      <3> QED BY <1>1, <1>3, <2>1, <3>1
    <2>3. CASE bytes = << >>
      <3>1. Len(bytes) = 0
        BY <2>3
      <3>2. out.body \o << >> = out.body
        BY ConcatEmptySeq DEF StateInv, MessageTyped
      <3>3. Grown(out, bytes) = out
        BY <2>3, <3>2 DEF Grown, StateInv, MessageTyped
      <3> QED BY <2>1, <3>1, <3>3 DEF Good, Stop
    <2> QED BY <2>2, <2>3
  <1>15. CASE st.at = "chunked_empty"
    <2> DEFINE found == TryFind(bytes, CRLF, MaxChunkLineSize)
    <2>1. h = HandleChunkedEmpty(out, st, bytes)
      BY <1>15 DEF Handle
    <2>2. /\ found.error = "NONE" => found.offset \in Nat \ {0}
          /\ found.error # "NONE" => Good(Unfound(found, out, st, "BAD_REQUEST"))
      BY <1>1, <1>5, <1>6
    <2> QED BY <1>3, <1>4, <2>1, <2>2 DEF HandleChunkedEmpty
  <1>16. CASE st.at = "chunked_line"
    <2>1. h = HandleChunkedLine(out, st, bytes)
      BY <1>16 DEF Handle
    <2>2. st.chunk_size + Len(CRLF) \in Nat \ {0}
      BY <1>16, StateParts, Tokens DEF StateInv
    <2>3. Good(Stop(out, st))
      BY DEF Good
    <2> QED BY <1>3, <1>4, <2>1, <2>2, <2>3 DEF HandleChunkedLine
  <1>17. st.at \in {"request_method", "request_target", "request_version",
                    "response_version", "response_status", "response_reason",
                    "fields", "trailing_fields", "body", "chunked_empty", "chunked_line"}
    BY StateParts DEF StateInv, SimpleStates, RequestStates, ResponseStates
  <1> QED BY <1>7, <1>8, <1>9, <1>10, <1>11, <1>12, <1>13, <1>14, <1>15, <1>16, <1>17

\* Growing a message twice.
LEMMA GrownTwice ==
    ASSUME NEW out, MessageTyped(out), NEW a \in Seq(Byte), NEW b \in Seq(Byte)
    PROVE  Grown(Grown(out, a), b) = Grown(out, a \o b)
  <1>1. (out.body \o a) \o b = out.body \o (a \o b)
    BY Associate DEF Associates, MessageTyped
  <1> QED BY <1>1 DEF Grown

-----------------------------------------------------------------------------
(* The inductive invariant of the machine. *)

\* The inductive invariant.  To the types it adds what relates message and
\* parser state (StateInv), and where in deserialize() the bytes are: the
\* first loop runs while the remainder is empty, the second one when the span
\* was merged, and no loop goes on after an error.
IInv ==
    /\ TypeOK
    /\ StateInv(state, output)
    /\ phase \in {"idle", "buffered"} => input = << >>
    /\ phase = "direct" => View(remainder) = << >>
    /\ phase # "idle" => error = NoError
    /\ RemainderBounded

\* The parser state and the message a machine is made with agree, and it
\* waits for bytes.
LEMMA StartsFit ==
    ASSUME NEW isRequest \in BOOLEAN
    PROVE  /\ StateInv(StartStateFor(isRequest), StartMessageFor(isRequest))
           /\ 0 < Window(StartStateFor(isRequest))
  <1> DEFINE first == StartStateFor(isRequest)
             empty == StartMessageFor(isRequest)
  <1>1. StateInv(first, empty)
    <2>1. /\ MessageTyped(empty)
          /\ empty.body = << >>
          /\ empty.start_line.kind = IF isRequest THEN "request" ELSE "response"
      <3>1. << >> \in Seq(Byte) /\ FieldsTyped(<< >>)
        BY DEF FieldsTyped
      <3> QED BY <3>1 DEF StartMessageFor, EmptyMessage, RequestLine, ResponseLine,
                         MessageTyped, StartLineType
    <2> QED BY <2>1, NextStateInv
            DEF StartStateFor, SimpleStates, RequestStates, ResponseStates
  <1>2. 0 < Window(first)
    BY LimitsInRange, Tokens DEF StartStateFor, Simple, Window
  <1> QED BY <1>1, <1>2

\* (whichever kind it is made for)
LEMMA StartFits == StateInv(StartState, StartMessage) /\ 0 < Window(StartState)
  BY StartsFit, MachineAssumption DEF StartState, StartMessage

\* A new buffer is empty.
LEMMA EmptyBufferFits ==
    /\ EmptyBuffer \in BufferType(Byte)
    /\ OffsetInBuffer(EmptyBuffer)
    /\ View(EmptyBuffer) = << >>
  BY DEF EmptyBuffer, BufferType, OffsetInBuffer, View

\* A machine that was made for a kind of message, and not called yet.
MadeFor(isRequest) ==
    /\ stream \in Streams
    /\ fed = 0
    /\ phase = "idle"
    /\ input = << >>
    /\ remainder = EmptyBuffer
    /\ state = StartStateFor(isRequest)
    /\ output = StartMessageFor(isRequest)
    /\ delivered = << >>
    /\ error = NoError

\* This machine is.
LEMMA InitIsMade == IsRequest \in BOOLEAN /\ (Init => MadeFor(IsRequest))
  BY MachineAssumption DEF Init, MadeFor, StartState, StartMessage

\* It starts with a start line of the kind it parses.
LEMMA MadeIInv ==
    ASSUME NEW isRequest \in BOOLEAN, MadeFor(isRequest)
    PROVE  IInv
  <1>1. /\ StateInv(state, output)
        /\ 0 < Window(state)
        /\ remainder \in BufferType(Byte)
        /\ OffsetInBuffer(remainder)
        /\ Len(View(remainder)) = 0
    BY StartsFit, EmptyBufferFits DEF MadeFor
  <1>2. stream \in Seq(Byte) /\ 0 \in 0 .. Len(stream)
    BY MachineAssumption DEF MadeFor
  <1>3. TypeOK
    BY <1>1, <1>2 DEF MadeFor, TypeOK, StateInv
  <1> QED BY <1>1, <1>3 DEF MadeFor, IInv, RemainderBounded

\* So does the machine of this module.
LEMMA InitIInv == Init => IInv
  BY InitIsMade, MadeIInv

\* The caller's span goes to the first loop only if nothing is kept.
LEMMA CallIInv ==
    ASSUME IInv, NEW n \in 0 .. Len(stream) - fed, Call(n)
    PROVE  IInv'
  <1>1. input' \in Seq(Byte) /\ fed' \in 0 .. Len(stream)
    BY MachineAssumption DEF Call, IInv, TypeOK
  <1>2. phase' \in {"direct", "merge"} /\ (phase' = "direct" => View(remainder) = << >>)
    BY DEF Call
  <1>3. UNCHANGED << stream, remainder, state, output, delivered, error >> /\ error = NoError
    BY DEF Call
  <1>4. TypeOK'
    BY <1>1, <1>2, <1>3 DEF IInv, TypeOK, OffsetInBuffer, MessageTyped
  <1>5. StateInv(state, output)'
    BY <1>3 DEF IInv
  <1>6. View(remainder)' = View(remainder)
    BY <1>3 DEF View
  <1> QED BY <1>2, <1>3, <1>4, <1>5, <1>6 DEF IInv, RemainderBounded

\* What a step of either loop does to the parser state and the message.
LEMMA StepDispatch ==
    ASSUME IInv, NEW bytes \in Seq(Byte), NEW r, r = Dispatch(state, output, bytes), Apply(r)
    PROVE  /\ DispatchOk(r, state, output, bytes)
           /\ StateInv(state, output)'
           /\ state' \in StateType
           /\ MessageTyped(output)'
           /\ state' = r.state
           /\ error' = r.error
  <1>1. DispatchOk(r, state, output, bytes)
    BY DispatchSound DEF IInv
  <1>2. StateInv(r.state, r.output) /\ state' = r.state /\ output' = r.output /\ error' = r.error
    BY <1>1 DEF DispatchOk, Apply
  <1>3. StateInv(state', output')
    BY <1>2
  <1>4. state' \in StateType /\ MessageTyped(output')
    BY <1>3 DEF StateInv
  <1> QED BY <1>1, <1>2, <1>3, <1>4

\* The first loop shows the handler the rest of the caller's span.
LEMMA DirectStepIInv ==
    ASSUME IInv, DirectStep
    PROVE  IInv'
  <1> DEFINE r == Dispatch(state, output, input)
  <1>1. /\ phase = "direct" /\ Apply(r)
        /\ input' = IF r.error # NoError THEN << >>
                    ELSE IF r.offset = ContinueToken THEN input
                    ELSE SubSeq(input, r.offset + 1, Len(input))
        /\ phase' = IF r.error # NoError THEN "idle"
                    ELSE IF r.offset = 0 THEN "merge" ELSE "direct"
        /\ UNCHANGED << stream, fed, remainder >>
    BY DEF DirectStep
  <1>2. input \in Seq(Byte) /\ View(remainder) = << >>
    BY <1>1 DEF IInv, TypeOK
  <1>3. /\ DispatchOk(r, state, output, input)
        /\ StateInv(state, output)'
        /\ state' \in StateType
        /\ MessageTyped(output)'
        /\ error' = r.error
    BY <1>1, <1>2, StepDispatch
  <1> HIDE DEF r
  <1>4. input' \in Seq(Byte)
    <2>1. CASE r.error = NoError /\ r.offset # ContinueToken
      <3>1. r.offset \in 0 .. Len(input)
        BY <1>3, <2>1 DEF DispatchOk
      <3>2. SubSeq(input, r.offset + 1, Len(input)) \in Seq(Byte)
        BY <1>2, <3>1
      <3> QED BY <1>1, <2>1, <3>2
    <2>2. CASE ~ (r.error = NoError /\ r.offset # ContinueToken)
      BY <1>1, <1>2, <2>2
    <2> QED BY <2>1, <2>2
  <1>5. TypeOK'
    BY <1>1, <1>3, <1>4 DEF IInv, TypeOK, OffsetInBuffer
  <1>6. View(remainder)' = << >>
    BY <1>1, <1>2 DEF View
  <1>7. /\ phase' \in {"idle", "direct", "merge"}
        /\ phase' = "idle" => input' = << >> /\ error' # NoError
        /\ phase' # "idle" => error' = NoError
    BY <1>1, <1>3
  <1> QED BY <1>3, <1>5, <1>6, <1>7 DEF IInv, RemainderBounded

\* The first loop ends without having kept a byte.
LEMMA DirectDoneIInv ==
    ASSUME IInv, DirectDone
    PROVE  IInv'
  <1>1. /\ phase' = "merge" /\ error = NoError
        /\ UNCHANGED << stream, fed, input, remainder, state, output, delivered, error >>
    BY DEF DirectDone, IInv
  <1>2. TypeOK' /\ StateInv(state, output)'
    BY <1>1 DEF IInv, TypeOK, OffsetInBuffer, MessageTyped
  <1> QED BY <1>1, <1>2 DEF IInv, RemainderBounded

\* What is left of the span joins what was kept.
LEMMA MergeIInv ==
    ASSUME IInv, Merge
    PROVE  IInv'
  <1>1. /\ phase = "merge" /\ phase' = "buffered"
        /\ remainder' = Merged(remainder, input)
        /\ input' = << >>
        /\ UNCHANGED << stream, fed, state, output, delivered, error >>
    BY DEF Merge
  <1>2. /\ remainder \in BufferType(Byte) /\ OffsetInBuffer(remainder)
        /\ input \in Seq(Byte)
        /\ error = NoError
    BY <1>1 DEF IInv, TypeOK
  <1>3. remainder' \in BufferType(Byte) /\ OffsetInBuffer(remainder')
    BY <1>1, <1>2, MergedView
  <1>4. OffsetInBuffer(remainder)'
    BY <1>3 DEF OffsetInBuffer
  <1>5. TypeOK' /\ StateInv(state, output)'
    BY <1>1, <1>3, <1>4 DEF IInv, TypeOK, MessageTyped
  <1> QED BY <1>1, <1>2, <1>5 DEF IInv, RemainderBounded

\* The second loop shows the handler all that is kept and returns when
\* nothing is consumed, so that less than the window of the state stays.
LEMMA BufferedStepIInv ==
    ASSUME IInv, BufferedStep
    PROVE  IInv'
  <1> DEFINE shown == View(remainder)
             r == Dispatch(state, output, shown)
  <1>1. /\ phase = "buffered" /\ Apply(r)
        /\ remainder' = IF r.error # NoError \/ r.offset = ContinueToken
                        THEN remainder
                        ELSE Advanced(remainder, r.offset)
        /\ phase' = IF r.error # NoError \/ r.offset = 0 THEN "idle" ELSE "buffered"
        /\ UNCHANGED << stream, fed, input >>
    BY DEF BufferedStep
  <1>2. /\ remainder \in BufferType(Byte) /\ OffsetInBuffer(remainder)
        /\ input = << >>
        /\ shown \in Seq(Byte)
    BY <1>1, ViewType DEF IInv, TypeOK
  <1>3. /\ DispatchOk(r, state, output, shown)
        /\ StateInv(state, output)'
        /\ state' \in StateType
        /\ MessageTyped(output)'
        /\ state' = r.state
        /\ error' = r.error
    BY <1>1, <1>2, StepDispatch
  <1> HIDE DEF r
  <1>4. /\ remainder' \in BufferType(Byte)
        /\ OffsetInBuffer(remainder')
        /\ error' = NoError /\ r.offset = 0 => View(remainder') = shown
    <2>1. CASE r.error = NoError /\ r.offset # ContinueToken
      <3>1. r.offset \in 0 .. Len(shown) /\ remainder' = Advanced(remainder, r.offset)
        BY <1>1, <1>3, <2>1 DEF DispatchOk
      <3>2. /\ remainder' \in BufferType(Byte)
            /\ OffsetInBuffer(remainder')
            /\ View(remainder') = SubSeq(shown, r.offset + 1, Len(shown))
        BY <1>2, <3>1, AdvancedView
      <3>3. SubSeq(shown, 1, Len(shown)) = shown
        BY <1>2, SubSeqFull
      <3> QED BY <3>2, <3>3
    <2>2. CASE ~ (r.error = NoError /\ r.offset # ContinueToken)
      BY <1>1, <1>2, <1>3, <2>2
    <2> QED BY <2>1, <2>2
  <1>5. OffsetInBuffer(remainder)'
    BY <1>4 DEF OffsetInBuffer
  <1>6. TypeOK'
    BY <1>1, <1>3, <1>4, <1>5 DEF IInv, TypeOK
  <1>7. phase' \in {"idle", "buffered"} /\ (phase' # "idle" => error' = NoError)
    BY <1>1, <1>3
  <1>8. RemainderBounded'
    <2> SUFFICES ASSUME phase' = "idle", error' = NoError
                 PROVE  Len(View(remainder')) < Window(state')
      BY DEF RemainderBounded, View, Window
    <2>1. r.offset = 0 /\ r.error = NoError
      BY <1>1, <1>3
    <2>2. r.offset # ContinueToken
      BY <2>1, SizesInRange
    <2>3. Len(shown) < Window(r.state)
      BY <1>3, <2>1, <2>2 DEF DispatchOk
    <2> QED BY <1>3, <1>4, <2>1, <2>3
  <1> QED BY <1>1, <1>2, <1>3, <1>6, <1>7, <1>8 DEF IInv

\* Every step keeps the inductive invariant.
LEMMA InductiveStep == IInv /\ [Next]_vars => IInv'
  <1> SUFFICES ASSUME IInv, [Next]_vars PROVE IInv'
    OBVIOUS
  <1>1. CASE DirectStep
    BY <1>1, DirectStepIInv
  <1>2. CASE DirectDone
    BY <1>2, DirectDoneIInv
  <1>3. CASE Merge
    BY <1>3, MergeIInv
  <1>4. CASE BufferedStep
    BY <1>4, BufferedStepIInv
  <1>5. CASE \E n \in 0 .. Len(stream) - fed : Call(n)
    BY <1>5, CallIInv
  <1>6. CASE UNCHANGED vars
    BY <1>6 DEF vars, IInv, TypeOK, OffsetInBuffer, RemainderBounded, View
  <1> QED BY <1>1, <1>2, <1>3, <1>4, <1>5, <1>6 DEF Next, Running

\* The inductive invariant holds in every state.
LEMMA IInvariant == Spec => []IInv
  BY InductiveStep, InitIInv, PTL DEF Spec

-----------------------------------------------------------------------------
(* Invariants. *)

\* The parser state, the message and the buffer keep their types, and the
\* assertions of view() and merge() hold (machine.hpp lines 28 and 37).
THEOREM TypeCorrect == Spec => []TypeOK
  <1>1. IInv => TypeOK
    BY DEF IInv
  <1> QED BY <1>1, IInvariant, PTL

\* Between two calls less is kept than the window of the parser state, so
\* that no complete element waits and the memory is bounded by the limits
\* (message.cpp lines 60 to 73).
THEOREM RemainderIsBounded == Spec => []RemainderBounded
  <1>1. IInv => RemainderBounded
    BY DEF IInv
  <1> QED BY <1>1, IInvariant, PTL

\* The count of the bytes of a section exceeds its maximum by one line end at
\* most (message.cpp lines 353 and 363).
THEOREM FieldsWithinBudget == Spec => []FieldBudget
  <1>1. IInv => FieldBudget
    BY DEF IInv, StateInv, FieldBudget
  <1> QED BY <1>1, IInvariant, PTL

\* The assertions on the kind of the start line, on the body and on the
\* offset of the remainder hold (message.cpp lines 127, 228, 483, 494 and
\* machine.hpp line 46).
THEOREM AssertionsNeverFail == Spec => []AssertionsHold
  <1>1. IInv => AssertionsHold
    <2> SUFFICES ASSUME IInv PROVE AssertionsHold
      OBVIOUS
    <2> DEFINE shown == View(remainder)
               r == Dispatch(state, output, shown)
    <2>1. remainder \in BufferType(Byte) /\ OffsetInBuffer(remainder) /\ shown \in Seq(Byte)
      BY ViewType DEF IInv, TypeOK
    <2>2. DispatchOk(r, state, output, shown)
      BY <2>1, DispatchSound DEF IInv
    <2>3. r.error = NoError /\ r.offset # ContinueToken => MayAdvance(remainder, r.offset)
      <3> HIDE DEF r
      <3> QED BY <2>1, <2>2, AdvancedView DEF DispatchOk
    <2> QED BY <2>3 DEF IInv, StateInv, AssertionsHold
  <1> QED BY <1>1, IInvariant, PTL

\* The two loops never call a handler again on the same bytes in the same
\* state (message.cpp lines 48 and 66).
THEOREM TokenMakesProgress == Spec => []ContinueMakesProgress
  <1>1. IInv => ContinueMakesProgress
    <2> SUFFICES ASSUME IInv PROVE ContinueMakesProgress
      OBVIOUS
    <2> DEFINE shown == IF phase = "direct" THEN input ELSE View(remainder)
    <2>1. shown \in Seq(Byte)
      BY ViewType DEF IInv, TypeOK
    <2> HIDE DEF shown
    <2>2. DispatchOk(Dispatch(state, output, shown), state, output, shown)
      BY <2>1, DispatchSound DEF IInv
    <2> QED BY <2>2 DEF DispatchOk, ContinueMakesProgress, shown
  <1> QED BY <1>1, IInvariant, PTL

-----------------------------------------------------------------------------
(* The bytes that wait. *)

\* How many bytes of what is shown a step removes.
Consumed(r) == IF r.offset = ContinueToken THEN 0 ELSE r.offset

\* A call appends the next bytes of the stream to those that wait.
LEMMA CallPending ==
    ASSUME IInv, NEW n \in 0 .. Len(stream) - fed, Call(n)
    PROVE  /\ Pending \in Seq(Byte)
           /\ Pending' = Pending \o SubSeq(stream, fed + 1, fed + n)
  <1>1. /\ View(remainder) \in Seq(Byte)
        /\ input = << >>
        /\ remainder' = remainder
        /\ input' = SubSeq(stream, fed + 1, fed + n)
    BY ViewType DEF Call, IInv, TypeOK
  <1>2. Pending = View(remainder)
    BY <1>1 DEF Pending
  <1>3. Pending' = View(remainder) \o input'
    BY <1>1 DEF Pending, View
  <1> QED BY <1>1, <1>2, <1>3

\* A step of the first loop works on all that waits.
LEMMA DirectStepPending ==
    ASSUME IInv, DirectStep, NEW r, r = Dispatch(state, output, Pending)
    PROVE  /\ Pending \in Seq(Byte)
           /\ Apply(r)
           /\ DispatchOk(r, state, output, Pending)
           /\ r.error = NoError =>
                  Pending' = SubSeq(Pending, Consumed(r) + 1, Len(Pending))
           /\ r.error # NoError => Pending' = << >>
  <1>1. View(remainder) = << >> /\ input \in Seq(Byte) /\ remainder' = remainder
    BY DEF DirectStep, IInv, TypeOK
  <1>2. Pending = input
    BY <1>1 DEF Pending
  <1>3. input' \in Seq(Byte)
    BY DirectStepIInv DEF IInv, TypeOK
  <1>4. Pending' = input'
    <2>1. Pending' = View(remainder') \o input'
      BY DEF Pending, View
    <2> QED BY <1>1, <1>3, <2>1
  <1>5. /\ Apply(r)
        /\ input' = IF r.error # NoError THEN << >>
                    ELSE IF r.offset = ContinueToken THEN input
                    ELSE SubSeq(input, r.offset + 1, Len(input))
    BY <1>2 DEF DirectStep
  <1>6. DispatchOk(r, state, output, Pending)
    BY <1>1, <1>2, DispatchSound DEF IInv
  <1>7. SubSeq(input, 1, Len(input)) = input
    BY <1>1, SubSeqFull
  <1>8. r.error = NoError => Pending' = SubSeq(Pending, Consumed(r) + 1, Len(Pending))
    <2>1. CASE r.offset = ContinueToken
      BY <1>2, <1>4, <1>5, <1>7, <2>1 DEF Consumed
    <2>2. CASE r.offset # ContinueToken
      BY <1>2, <1>4, <1>5, <2>2 DEF Consumed
    <2> QED BY <2>1, <2>2
  <1>9. r.error # NoError => Pending' = << >>
    BY <1>4, <1>5
  <1> QED BY <1>1, <1>2, <1>5, <1>6, <1>8, <1>9

\* So does a step of the second loop.
LEMMA BufferedStepPending ==
    ASSUME IInv, BufferedStep, NEW r, r = Dispatch(state, output, Pending)
    PROVE  /\ Pending \in Seq(Byte)
           /\ Apply(r)
           /\ DispatchOk(r, state, output, Pending)
           /\ r.error = NoError =>
                  Pending' = SubSeq(Pending, Consumed(r) + 1, Len(Pending))
           /\ r.error # NoError => Pending' = Pending
  <1>1. /\ View(remainder) \in Seq(Byte) /\ input = << >>
        /\ remainder \in BufferType(Byte) /\ OffsetInBuffer(remainder)
    BY ViewType DEF BufferedStep, IInv, TypeOK
  <1>2. Pending = View(remainder)
    BY <1>1 DEF Pending
  <1>3. /\ Apply(r)
        /\ remainder' = IF r.error # NoError \/ r.offset = ContinueToken
                        THEN remainder
                        ELSE Advanced(remainder, r.offset)
        /\ input' = << >>
    BY <1>1, <1>2 DEF BufferedStep
  <1>4. View(remainder') \in Seq(Byte) /\ Pending' = View(remainder')
    <2>1. remainder' \in BufferType(Byte) /\ OffsetInBuffer(remainder')
      BY BufferedStepIInv DEF IInv, TypeOK, OffsetInBuffer
    <2>2. View(remainder') \in Seq(Byte)
      BY <2>1, ViewType
    <2>3. Pending' = View(remainder') \o input'
      BY DEF Pending, View
    <2> QED BY <1>3, <2>2, <2>3
  <1>5. DispatchOk(r, state, output, Pending)
    BY <1>1, <1>2, DispatchSound DEF IInv
  <1>6. CASE r.error = NoError /\ r.offset # ContinueToken
    <2>1. r.offset \in 0 .. Len(View(remainder))
      BY <1>2, <1>5, <1>6 DEF DispatchOk
    <2>2. View(remainder') = SubSeq(View(remainder), r.offset + 1, Len(View(remainder)))
      BY <1>1, <1>3, <1>6, <2>1, AdvancedView
    <2> QED BY <1>1, <1>2, <1>3, <1>4, <1>5, <1>6, <2>2 DEF Consumed
  <1>7. CASE ~ (r.error = NoError /\ r.offset # ContinueToken)
    <2>1. SubSeq(Pending, 1, Len(Pending)) = Pending
      BY <1>1, <1>2, SubSeqFull
    <2> QED BY <1>1, <1>2, <1>3, <1>4, <1>5, <1>7, <2>1 DEF Consumed
  <1> QED BY <1>6, <1>7

\* The exit of the first loop and the merge leave what waits as it is.
LEMMA HandoverPending ==
    ASSUME IInv, DirectDone \/ Merge
    PROVE  Pending' = Pending
  <1>1. CASE DirectDone
    BY <1>1 DEF DirectDone, Pending, View
  <1>2. CASE Merge
    <2>1. /\ remainder \in BufferType(Byte) /\ OffsetInBuffer(remainder)
          /\ input \in Seq(Byte) /\ View(remainder) \in Seq(Byte)
      BY ViewType DEF IInv, TypeOK
    <2>2. View(remainder') = View(remainder) \o input /\ input' = << >>
      BY <1>2, <2>1, MergedView DEF Merge
    <2>3. Pending' = View(remainder') \o input'
      BY DEF Pending, View
    <2> QED BY <2>1, <2>2, <2>3 DEF Pending
  <1> QED BY <1>1, <1>2

\* PendingIsSuffix with the place in the stream where the rest begins.
RestFrom(a) == a \in 0 .. fed /\ Pending = SubSeq(stream, a + 1, fed)

\* As long as there is no error the rest begins somewhere in what was fed.
LEMMA SuffixIsRest ==
    ASSUME IInv, PendingIsSuffix, error = NoError
    PROVE  \E a : RestFrom(a)
  <1>1. Pending \in Seq(Byte) /\ fed \in Nat
    <2>1. View(remainder) \in Seq(Byte) /\ input \in Seq(Byte)
      BY ViewType DEF IInv, TypeOK
    <2>2. stream \in Seq(Byte) /\ fed \in 0 .. Len(stream)
      BY MachineAssumption DEF IInv, TypeOK
    <2> QED BY <2>1, <2>2 DEF Pending
  <1> DEFINE a == fed - Len(Pending)
  <1>2. a \in 0 .. fed /\ Pending = SubSeq(stream, a + 1, fed)
    BY <1>1 DEF PendingIsSuffix
  <1> QED BY <1>2 DEF RestFrom

\* A call extends the rest that waits and leaves its beginning.
LEMMA CallRest ==
    ASSUME IInv, NEW a, RestFrom(a), NEW n \in 0 .. Len(stream) - fed, Call(n)
    PROVE  RestFrom(a)'
  <1>1. /\ stream \in Seq(Byte) /\ Len(stream) \in Nat /\ fed \in 0 .. Len(stream)
        /\ a \in 0 .. fed
        /\ stream' = stream /\ fed' = fed + n
    BY MachineAssumption DEF Call, IInv, TypeOK, RestFrom
  <1>2. fed + n \in 0 .. Len(stream) /\ fed \in 0 .. fed + n /\ a \in 0 .. fed + n
    BY <1>1
  <1> DEFINE c == fed + n
  <1>3. c \in 0 .. Len(stream) /\ fed \in 0 .. c
    BY <1>2
  <1> HIDE DEF c
  <1>4. SubSeq(stream, a + 1, fed) \o SubSeq(stream, fed + 1, c) = SubSeq(stream, a + 1, c)
    BY <1>1, <1>3, PiecesJoin
  <1>5. Pending' = Pending \o SubSeq(stream, fed + 1, fed + n)
    BY CallPending
  <1>6. Pending = SubSeq(stream, a + 1, fed)
    BY DEF RestFrom
  <1>7. Pending' = SubSeq(stream, a + 1, fed + n)
    BY <1>4, <1>5, <1>6 DEF c
  <1> QED BY <1>1, <1>2, <1>7 DEF RestFrom

\* A step that consumes bytes moves the beginning of the rest.
LEMMA ConsumedRest ==
    ASSUME IInv, NEW a, RestFrom(a), NEW r,
           DispatchOk(r, state, output, Pending), r.error = NoError,
           UNCHANGED << stream, fed >>,
           Pending' = SubSeq(Pending, Consumed(r) + 1, Len(Pending))
    PROVE  \E b : RestFrom(b)'
  <1> DEFINE k == Consumed(r)
  <1>1. stream \in Seq(Byte) /\ Len(stream) \in Nat /\ fed \in 0 .. Len(stream) /\ a \in 0 .. fed
    BY MachineAssumption DEF IInv, TypeOK, RestFrom
  <1>2. Pending = SubSeq(stream, a + 1, fed)
    BY DEF RestFrom
  <1>3. Len(Pending) = fed - a
    <2>1. Len(SubSeq(stream, a + 1, fed)) = fed - a
      BY <1>1, Piece
    <2> QED BY <1>2, <2>1
  <1>4. k \in 0 .. fed - a
    <2>1. r.offset # ContinueToken => r.offset \in 0 .. Len(Pending)
      BY DEF DispatchOk
    <2>2. 0 \in 0 .. fed - a
      BY <1>1
    <2> QED BY <1>3, <2>1, <2>2 DEF Consumed
  <1> HIDE DEF k
  <1>5. SubSeq(SubSeq(stream, a + 1, fed), k + 1, fed - a) = SubSeq(stream, a + k + 1, fed)
    BY <1>1, <1>4, PieceShrinks
  <1>6. Pending' = SubSeq(stream, (a + k) + 1, fed) /\ a + k \in 0 .. fed
    <2>1. Pending' = SubSeq(Pending, k + 1, Len(Pending))
      BY DEF k
    <2>2. Pending' = SubSeq(SubSeq(stream, a + 1, fed), k + 1, fed - a)
      BY <1>2, <1>3, <2>1
    <2>3. a + k \in 0 .. fed
      BY <1>1, <1>4
    <2> QED BY <1>5, <2>2, <2>3
  <1>7. RestFrom(a + k)'
    BY <1>1, <1>6 DEF RestFrom
  <1> QED BY <1>7

\* Together with the invariant, the order of the bytes is inductive.
LEMMA PendingStep ==
    ASSUME IInv, PendingIsSuffix, [Next]_vars
    PROVE  PendingIsSuffix'
  <1>1. CASE error # NoError
    <2>1. phase = "idle"
      BY <1>1 DEF IInv
    <2>2. UNCHANGED error
      BY <1>1, <2>1 DEF Next, Running, DirectStep, DirectDone, Merge, BufferedStep, Call, vars
    <2> QED BY <1>1, <2>2 DEF PendingIsSuffix
  <1>2. CASE error = NoError /\ error' = NoError
    <2>1. PICK a : RestFrom(a)
      BY <1>2, SuffixIsRest
    <2>2. IInv'
      BY InductiveStep
    <2>3. \E b : RestFrom(b)'
      <3>1. CASE DirectStep
        <4> DEFINE r == Dispatch(state, output, Pending)
        <4>1. /\ Apply(r)
              /\ DispatchOk(r, state, output, Pending)
              /\ r.error = NoError => Pending' = SubSeq(Pending, Consumed(r) + 1, Len(Pending))
          BY <3>1, DirectStepPending
        <4>2. r.error = NoError /\ UNCHANGED << stream, fed >>
          BY <1>2, <3>1, <4>1 DEF Apply, DirectStep
        <4> HIDE DEF r
        <4> QED BY <2>1, <4>1, <4>2, ConsumedRest
      <3>2. CASE BufferedStep
        <4> DEFINE r == Dispatch(state, output, Pending)
        <4>1. /\ Apply(r)
              /\ DispatchOk(r, state, output, Pending)
              /\ r.error = NoError => Pending' = SubSeq(Pending, Consumed(r) + 1, Len(Pending))
          BY <3>2, BufferedStepPending
        <4>2. r.error = NoError /\ UNCHANGED << stream, fed >>
          BY <1>2, <3>2, <4>1 DEF Apply, BufferedStep
        <4> HIDE DEF r
        <4> QED BY <2>1, <4>1, <4>2, ConsumedRest
      <3>3. CASE DirectDone \/ Merge
        <4>1. Pending' = Pending /\ UNCHANGED << stream, fed >>
          BY <3>3, HandoverPending DEF DirectDone, Merge
        <4> QED BY <2>1, <4>1 DEF RestFrom
      <3>4. CASE \E n \in 0 .. Len(stream) - fed : Call(n)
        BY <2>1, <3>4, CallRest
      <3>5. CASE UNCHANGED vars
        BY <2>1, <3>5 DEF vars, RestFrom, Pending, View
      <3> QED BY <3>1, <3>2, <3>3, <3>4, <3>5 DEF Next, Running
    <2>4. PICK b : RestFrom(b)'
      BY <2>3
    <2>5. /\ stream' \in Seq(Byte) /\ fed' \in 0 .. Len(stream')
          /\ b \in 0 .. fed' /\ Pending' = SubSeq(stream', b + 1, fed')
      BY <2>2, <2>4, MachineAssumption DEF IInv, TypeOK, RestFrom
    <2>6. /\ Len(Pending') <= fed'
          /\ Pending' = SubSeq(stream', fed' - Len(Pending') + 1, fed')
      BY <2>5, RestIsSuffix
    <2> QED BY <2>6 DEF PendingIsSuffix
  <1>3. CASE error' # NoError
    BY <1>3 DEF PendingIsSuffix
  <1> QED BY <1>1, <1>2, <1>3

\* Across both loops and the merge between them no byte is lost, repeated or
\* reordered: what waits is a suffix of what was fed (message.cpp lines 40 to
\* 76).
THEOREM NoByteIsLost == Spec => []PendingIsSuffix
  <1>1. Init => PendingIsSuffix
    <2> SUFFICES ASSUME Init PROVE PendingIsSuffix
      OBVIOUS
    <2>1. Pending = << >> /\ fed = 0
      BY DEF Init, Pending, View, EmptyBuffer
    <2>2. SubSeq(stream, 1, 0) = << >>
      BY SubSeqEmpty
    <2> QED BY <2>1, <2>2 DEF PendingIsSuffix
  <1>2. IInv /\ PendingIsSuffix /\ [Next]_vars => PendingIsSuffix'
    BY PendingStep
  <1> QED BY <1>1, <1>2, IInvariant, PTL DEF Spec

-----------------------------------------------------------------------------
(* The events delivered. *)

\* The history of the events is a sequence.
DeliveredIsList == \E S : delivered \in Seq(S)

\* The empty chunk, which ends a chunked body.
IsLastChunk(event) == event.kind = "chunk" /\ event.data = << >>

\* The strengthening of CallbackOrder and BodiesFramed: the parser state tells
\* whether the last callback was the one for the empty chunk.
EventsInv ==
    /\ DeliveredIsList
    /\ FramingInv(state, output)
    /\ delivered # << >> /\ IsLastChunk(delivered[Len(delivered)]) <=> AfterLastChunk(state)
    /\ CallbackOrder
    /\ BodiesFramed

\* What one step delivers, and what it makes of the framing.
LEMMA StepEvents ==
    ASSUME NEW st, NEW out, NEW bytes \in Seq(Byte), StateInv(st, out), FramingInv(st, out),
           NEW r, r = Dispatch(st, out, bytes)
    PROVE  /\ FramingInv(r.state, r.output)
           /\ \/ r.events = << >> /\ (AfterLastChunk(r.state) <=> AfterLastChunk(st))
              \/ \E e : /\ r.events = << e >>
                        /\ e.kind = "chunk"
                        /\ ~ AfterLastChunk(st)
                        /\ IsLastChunk(e) <=> AfterLastChunk(r.state)
              \/ \E e : /\ r.events = << e >>
                        /\ e.kind = "message"
                        /\ Framed(e.message)
                        /\ IsChunked(e.message.fields) <=> AfterLastChunk(st)
                        /\ ~ AfterLastChunk(r.state)
  <1> DEFINE h == Handle(st, out, bytes)
  <1>1. Frames(h, st)
    BY HandleFrames
  <1>2. CASE h.error # NoError
    BY <1>2 DEF Dispatch, Outcome
  <1>3. CASE h.error = NoError
    <2>1. /\ r.state = h.state
          /\ r.output = IF h.state.at = "complete" THEN DefaultMessage ELSE h.output
          /\ r.events = CASE h.state.at = "chunked_complete" -> << ChunkEvent(h.output, h.state) >>
                          [] h.state.at = "complete" -> << MessageEvent(h.output) >>
                          [] OTHER -> << >>
      BY <1>3 DEF Dispatch, Outcome
    <2> HIDE DEF h
    <2>2. CASE h.state.at = "complete"
      <3>1. FramingInv(r.state, r.output) /\ ~ AfterLastChunk(r.state)
        BY <2>1, <2>2 DEF FramingInv, ChunkedStates, AfterLastChunk
      <3>2. r.events = << MessageEvent(h.output) >>
        BY <2>1, <2>2
      <3>3. MessageEvent(h.output).kind = "message" /\ MessageEvent(h.output).message = h.output
        BY DEF MessageEvent
      <3> QED BY <1>1, <1>3, <2>2, <3>1, <3>2, <3>3 DEF Frames
    <2>3. CASE h.state.at = "chunked_complete"
      <3> DEFINE e == ChunkEvent(h.output, h.state)
      <3>1. FramingInv(r.state, r.output) /\ ~ AfterLastChunk(st)
        BY <1>1, <1>3, <2>1, <2>3 DEF Frames
      <3>2. r.events = << e >>
        BY <2>1, <2>3
      <3>3. e.kind = "chunk" /\ (IsLastChunk(e) <=> AfterLastChunk(r.state))
        BY <2>1, <2>3 DEF ChunkEvent, IsLastChunk, AfterLastChunk
      <3> QED BY <3>1, <3>2, <3>3
    <2>4. CASE h.state.at \notin {"chunked_complete", "complete"}
      BY <1>1, <1>3, <2>1, <2>4 DEF Frames
    <2> QED BY <2>2, <2>3, <2>4
  <1> QED BY <1>2, <1>3

\* One more event at the end of a list.
LEMMA OneMoreEvent ==
    ASSUME DeliveredIsList, NEW e, delivered' = delivered \o << e >>
    PROVE  /\ DeliveredIsList'
           /\ Len(delivered) \in Nat
           /\ DOMAIN delivered = 1 .. Len(delivered)
           /\ Len(delivered') = Len(delivered) + 1
           /\ DOMAIN delivered' = 1 .. Len(delivered) + 1
           /\ \A i \in 1 .. Len(delivered) : delivered'[i] = delivered[i]
           /\ delivered'[Len(delivered) + 1] = e
  <1>1. PICK S : delivered \in Seq(S)
    BY DEF DeliveredIsList
  <1> DEFINE T == S \cup {e}
             n == Len(delivered)
             one == << e >>
  <1>2. delivered \in Seq(T) /\ e \in T
    BY <1>1
  <1> HIDE DEF T
  <1>3. one \in Seq(T) /\ Len(one) = 1 /\ one[1] = e
    BY <1>2, Tuples
  <1>4. n \in Nat /\ DOMAIN delivered = 1 .. n
    BY <1>2, LenProperties
  <1>5. one \in Seq(T)
    BY <1>3
  <1> HIDE DEF one
  <1>6. /\ delivered \o one \in Seq(T)
        /\ Len(delivered \o one) = n + Len(one)
        /\ \A i \in 1 .. n : (delivered \o one)[i] = delivered[i]
        /\ \A i \in n + 1 .. n + Len(one) : (delivered \o one)[i] = one[i - n]
    BY <1>2, <1>5, ConcatProperties
  <1>7. delivered' = delivered \o one
    BY DEF one
  <1>8. delivered' \in Seq(T) /\ Len(delivered') = n + 1
    BY <1>3, <1>6, <1>7
  <1>9. n + 1 \in n + 1 .. n + Len(one) /\ n + 1 - n = 1
    BY <1>3, <1>4
  <1>10. delivered'[n + 1] = e
    BY <1>3, <1>6, <1>7, <1>9
  <1>11. DOMAIN delivered' = 1 .. n + 1
    BY <1>8, LenProperties
  <1> QED BY <1>4, <1>6, <1>7, <1>8, <1>10, <1>11 DEF DeliveredIsList

\* A step of either loop keeps the order of the callbacks and the framing.
LEMMA ApplyEvents ==
    ASSUME IInv, EventsInv, NEW bytes \in Seq(Byte),
           NEW r, r = Dispatch(state, output, bytes), Apply(r)
    PROVE  EventsInv'
  <1> DEFINE n == Len(delivered)
  <1>1. /\ state' = r.state /\ output' = r.output /\ delivered' = delivered \o r.events
    BY DEF Apply
  <1>2. FramingInv(state', output')
    BY <1>1, StepEvents DEF IInv, EventsInv
  <1>3. FramingInv(state, output)'
    BY <1>2
  <1>4. CASE r.events = << >> /\ (AfterLastChunk(r.state) <=> AfterLastChunk(state))
    <2>1. delivered' = delivered
      BY <1>1, <1>4, ConcatEmptySeq DEF EventsInv, DeliveredIsList
    <2> QED BY <1>1, <1>3, <1>4, <2>1 DEF EventsInv, DeliveredIsList, CallbackOrder, BodiesFramed
  <1>5. CASE \E e : /\ r.events = << e >>
                    /\ \/ /\ e.kind = "chunk"
                          /\ ~ AfterLastChunk(state)
                          /\ IsLastChunk(e) <=> AfterLastChunk(r.state)
                       \/ /\ e.kind = "message"
                          /\ Framed(e.message)
                          /\ IsChunked(e.message.fields) <=> AfterLastChunk(state)
                          /\ ~ AfterLastChunk(r.state)
    <2>1. PICK e : /\ r.events = << e >>
                   /\ \/ /\ e.kind = "chunk"
                         /\ ~ AfterLastChunk(state)
                         /\ IsLastChunk(e) <=> AfterLastChunk(r.state)
                      \/ /\ e.kind = "message"
                         /\ Framed(e.message)
                         /\ IsChunked(e.message.fields) <=> AfterLastChunk(state)
                         /\ ~ AfterLastChunk(r.state)
      BY <1>5
    <2>2. /\ DeliveredIsList'
          /\ n \in Nat /\ DOMAIN delivered = 1 .. n
          /\ Len(delivered') = n + 1 /\ DOMAIN delivered' = 1 .. n + 1
          /\ \A i \in 1 .. n : delivered'[i] = delivered[i]
          /\ delivered'[n + 1] = e
      BY <1>1, <2>1, OneMoreEvent DEF EventsInv
    <2>3. delivered # << >> <=> n > 0
      BY <2>2, EmptySeq DEF EventsInv, DeliveredIsList
    <2>4. n > 0 /\ IsLastChunk(delivered[n]) <=> AfterLastChunk(state)
      BY <2>3 DEF EventsInv
    <2> HIDE DEF n
    <2>5. delivered' # << >>
      BY <2>2 DEF n
    <2>6. AfterLastChunk(state') <=> IsLastChunk(delivered'[n + 1])
      BY <1>1, <2>1, <2>2 DEF IsLastChunk
    <2>7. CallbackOrder'
      <3> SUFFICES ASSUME NEW i \in 1 .. n + 1
                   PROVE  /\ IsLastChunk(delivered'[i]) /\ i < n + 1 => delivered'[i + 1].kind = "message"
                          /\ delivered'[i].kind = "message" /\ IsChunked(delivered'[i].message.fields)
                                 => i > 1 /\ IsLastChunk(delivered'[i - 1])
        BY <2>2 DEF CallbackOrder, IsLastChunk
      <3>1. CASE i < n
        <4>1. i \in 1 .. n /\ i + 1 \in 1 .. n /\ (i > 1 => i - 1 \in 1 .. n)
          BY <2>2, <3>1
        <4>2. /\ IsLastChunk(delivered[i]) /\ i < n => delivered[i + 1].kind = "message"
              /\ delivered[i].kind = "message" /\ IsChunked(delivered[i].message.fields)
                     => i > 1 /\ IsLastChunk(delivered[i - 1])
          BY <2>2, <4>1 DEF EventsInv, CallbackOrder, IsLastChunk, n
        <4> QED BY <2>2, <3>1, <4>1, <4>2
      <3>2. CASE i = n
        <4>1. i \in 1 .. n /\ (i > 1 => i - 1 \in 1 .. n)
          BY <2>2, <3>2
        <4>2. delivered[i].kind = "message" /\ IsChunked(delivered[i].message.fields)
                  => i > 1 /\ IsLastChunk(delivered[i - 1])
          BY <2>2, <4>1 DEF EventsInv, CallbackOrder, IsLastChunk, n
        <4>3. IsLastChunk(delivered[n]) => e.kind = "message"
          BY <2>1, <2>4, <3>2
        <4> QED BY <2>2, <3>2, <4>1, <4>2, <4>3
      <3>3. CASE i = n + 1
        <4>1. e.kind = "message" /\ IsChunked(e.message.fields) => n > 0 /\ IsLastChunk(delivered[n])
          BY <2>1, <2>4
        <4>2. n > 0 => n \in 1 .. n /\ i - 1 = n /\ i > 1
          BY <2>2, <3>3
        <4> QED BY <2>2, <3>3, <4>1, <4>2
      <3> QED BY <2>2, <3>1, <3>2, <3>3
    <2>8. BodiesFramed'
      <3> SUFFICES ASSUME NEW i \in 1 .. n + 1, delivered'[i].kind = "message"
                   PROVE  Framed(delivered'[i].message)
        BY <2>2 DEF BodiesFramed, Framed
      <3>1. CASE i \in 1 .. n
        BY <2>2, <3>1 DEF EventsInv, BodiesFramed, Framed
      <3>2. CASE i = n + 1
        BY <2>1, <2>2, <3>2
      <3> QED BY <2>2, <3>1, <3>2
    <2>9. (delivered # << >> /\ IsLastChunk(delivered[Len(delivered)]) <=> AfterLastChunk(state))'
      BY <2>2, <2>5, <2>6
    <2> QED BY <1>3, <2>2, <2>7, <2>8, <2>9 DEF EventsInv
  <1> QED BY <1>4, <1>5, StepEvents DEF IInv, EventsInv

\* No callback was made yet.
LEMMA MadeEvents ==
    ASSUME NEW isRequest \in BOOLEAN, MadeFor(isRequest)
    PROVE  EventsInv
  <1>1. delivered = << >> /\ DOMAIN delivered = {} /\ delivered \in Seq({})
    BY DEF MadeFor
  <1>2. state.at \in {"request_method", "response_version"}
    BY DEF MadeFor, StartStateFor, Simple
  <1>3. FramingInv(state, output) /\ ~ AfterLastChunk(state)
    BY <1>2 DEF FramingInv, AfterLastChunk, ChunkedStates
  <1> QED BY <1>1, <1>3 DEF EventsInv, DeliveredIsList, CallbackOrder, BodiesFramed

\* The order of the callbacks is inductive, together with the state that
\* tells where in it the parser is.
LEMMA EventsStep == IInv /\ EventsInv /\ [Next]_vars => EventsInv'
  <1> SUFFICES ASSUME IInv, EventsInv, [Next]_vars PROVE EventsInv'
    OBVIOUS
  <1>1. CASE DirectStep
    <2>1. Apply(Dispatch(state, output, input)) /\ input \in Seq(Byte)
      BY <1>1 DEF DirectStep, IInv, TypeOK
    <2> QED BY <2>1, ApplyEvents
  <1>2. CASE BufferedStep
    <2>1. Apply(Dispatch(state, output, View(remainder))) /\ View(remainder) \in Seq(Byte)
      BY <1>2, ViewType DEF BufferedStep, IInv, TypeOK
    <2> QED BY <2>1, ApplyEvents
  <1>3. CASE UNCHANGED << state, output, delivered >>
    BY <1>3 DEF EventsInv, DeliveredIsList, CallbackOrder, BodiesFramed
  <1> QED BY <1>1, <1>2, <1>3 DEF Next, Running, DirectDone, Merge, Call, vars

\* So it holds in every state.
LEMMA EventsInvariant == Spec => []EventsInv
  <1>1. Init => EventsInv
    BY InitIsMade, MadeEvents
  <1> QED BY <1>1, EventsStep, IInvariant, PTL DEF Spec

\* chunk_cb and message_cb are called in the order of the protocol: the empty
\* chunk is followed by its message, and no chunked message comes without it
\* (message.cpp lines 84 to 110 and 591 to 608).
THEOREM CallbacksInOrder == Spec => []CallbackOrder
  <1>1. EventsInv => CallbackOrder
    BY DEF EventsInv
  <1> QED BY <1>1, EventsInvariant, PTL

\* A delivered body has the length its fields announce and is within the
\* limit (message.cpp lines 430 to 496).
THEOREM DeliveredBodiesFramed == Spec => []BodiesFramed
  <1>1. EventsInv => BodiesFramed
    BY DEF EventsInv
  <1> QED BY <1>1, EventsInvariant, PTL

-----------------------------------------------------------------------------
(* The memory of the fields. *)

\* The strengthening of FieldMemoryBounded: the fields fit into the room of
\* every state, not of "fields" only, and there are finitely many.
FieldsInv ==
    /\ DeliveredIsList
    /\ FieldsFit(output.fields, FieldRoom(state))
    /\ \A i \in DOMAIN delivered : FieldsFit(delivered[i].message.fields, 2 * SectionSize)

\* A step of either loop keeps the fields within their room.
LEMMA ApplyFields ==
    ASSUME IInv, FieldsInv, NEW bytes \in Seq(Byte),
           NEW r, r = Dispatch(state, output, bytes), Apply(r)
    PROVE  FieldsInv'
  <1>1. state' = r.state /\ output' = r.output /\ delivered' = delivered \o r.events
    BY DEF Apply
  <1>2. /\ FieldsFit(r.output.fields, FieldRoom(r.state))
        /\ \/ r.events = << >>
           \/ \E e : r.events = << e >> /\ FieldsFit(e.message.fields, 2 * SectionSize)
    BY DispatchFits DEF IInv, FieldsInv
  <1>3. CASE r.events = << >>
    <2>1. delivered' = delivered
      BY <1>1, <1>3, ConcatEmptySeq DEF FieldsInv, DeliveredIsList
    <2> QED BY <1>1, <1>2, <2>1 DEF FieldsInv, DeliveredIsList
  <1>4. CASE \E e : r.events = << e >> /\ FieldsFit(e.message.fields, 2 * SectionSize)
    <2>1. PICK e : r.events = << e >> /\ FieldsFit(e.message.fields, 2 * SectionSize)
      BY <1>4
    <2>2. /\ DeliveredIsList'
          /\ DOMAIN delivered = 1 .. Len(delivered) /\ Len(delivered) \in Nat
          /\ DOMAIN delivered' = 1 .. Len(delivered) + 1
          /\ \A i \in 1 .. Len(delivered) : delivered'[i] = delivered[i]
          /\ delivered'[Len(delivered) + 1] = e
      BY <1>1, <2>1, OneMoreEvent DEF FieldsInv
    <2>3. ASSUME NEW i \in DOMAIN delivered'
          PROVE  FieldsFit(delivered'[i].message.fields, 2 * SectionSize)
      <3>1. CASE i \in 1 .. Len(delivered)
        BY <2>2, <3>1 DEF FieldsInv
      <3>2. CASE i = Len(delivered) + 1
        BY <2>1, <2>2, <3>2
      <3> QED BY <2>2, <3>1, <3>2
    <2> QED BY <1>1, <1>2, <2>2, <2>3 DEF FieldsInv
  <1> QED BY <1>2, <1>3, <1>4

\* The room of the fields is kept.
LEMMA FieldsInvariant == Spec => []FieldsInv
  <1>1. Init => FieldsInv
    <2> SUFFICES ASSUME Init PROVE FieldsInv
      OBVIOUS
    <2>1. delivered = << >> /\ DOMAIN delivered = {} /\ delivered \in Seq({})
      BY DEF Init
    <2>2. output.fields = << >>
      BY DEF Init, StartMessage, StartMessageFor, EmptyMessage
    <2>3. FieldRoom(state) = 0
      BY Rooms DEF Init, StartState, StartStateFor, RequestStates, ResponseStates
    <2> QED BY <2>1, <2>2, <2>3, NoFieldsFit DEF FieldsInv, DeliveredIsList
  <1>2. IInv /\ FieldsInv /\ [Next]_vars => FieldsInv'
    <2> SUFFICES ASSUME IInv, FieldsInv, [Next]_vars PROVE FieldsInv'
      OBVIOUS
    <2>1. CASE DirectStep
      <3>1. Apply(Dispatch(state, output, input)) /\ input \in Seq(Byte)
        BY <2>1 DEF DirectStep, IInv, TypeOK
      <3> QED BY <3>1, ApplyFields
    <2>2. CASE BufferedStep
      <3>1. Apply(Dispatch(state, output, View(remainder))) /\ View(remainder) \in Seq(Byte)
        BY <2>2, ViewType DEF BufferedStep, IInv, TypeOK
      <3> QED BY <3>1, ApplyFields
    <2>3. CASE UNCHANGED << state, output, delivered >>
      BY <2>3 DEF FieldsInv, DeliveredIsList
    <2> QED BY <2>1, <2>2, <2>3 DEF Next, Running, DirectDone, Merge, Call, vars
  <1> QED BY <1>1, <1>2, IInvariant, PTL DEF Spec

\* What is kept of the fields is bounded by the bytes counted for them, in a
\* message that arrives and in every one that was delivered (message.cpp lines
\* 353 to 393).
THEOREM FieldMemoryIsBounded == Spec => []FieldMemoryBounded
  <1>1. FieldsInv => FieldMemoryBounded
    <2> SUFFICES ASSUME FieldsInv PROVE FieldMemoryBounded
      OBVIOUS
    <2>1. state.at = "fields" => Memory(output.fields) <= state.consumed_bytes
      BY DEF FieldsInv, FieldsFit, FieldRoom, RequestStates, ResponseStates
    <2>2. \A i \in DOMAIN delivered : Memory(delivered[i].message.fields) <= 2 * SectionSize
      BY DEF FieldsInv, FieldsFit
    <2> QED BY <2>1, <2>2 DEF FieldMemoryBounded, Memory, Sizes, SectionSize
  <1> QED BY <1>1, FieldsInvariant, PTL

-----------------------------------------------------------------------------
(* The kind of the messages. *)

\* The message a deserializer of requests fills in is a request.
RequestInv ==
    /\ state.at \notin ResponseStates
    /\ output.start_line.kind = "request"

\* It is one at first,
LEMMA RequestStart == IsRequest => (Init => RequestInv)
  BY DEF Init, RequestInv, StartState, StartStateFor, StartMessage, StartMessageFor, Simple,
         EmptyMessage, RequestLine, ResponseStates

\* and stays one, whichever handler runs.
LEMMA RequestKept == IInv /\ RequestInv /\ [Next]_vars => RequestInv'
  <1> SUFFICES ASSUME IInv, RequestInv, [Next]_vars PROVE RequestInv'
    OBVIOUS
  <1>1. ASSUME NEW bytes, Apply(Dispatch(state, output, bytes)) PROVE RequestInv'
    BY <1>1, RequestStep DEF IInv, RequestInv, Apply
  <1>2. CASE UNCHANGED << state, output >>
    BY <1>2 DEF RequestInv
  <1> QED BY <1>1, <1>2 DEF Next, Running, DirectStep, DirectDone, Merge, BufferedStep, Call, vars

\* A deserializer of requests parses requests only, message after message
\* (message.cpp lines 26 to 36 and 610 to 630).
THEOREM RequestsOnly == IsRequest => (Spec => []KeepsKind)
  <1> SUFFICES ASSUME IsRequest PROVE Spec => []KeepsKind
    OBVIOUS
  <1>1. Init => RequestInv
    BY RequestStart
  <1>2. RequestInv => KeepsKind
    BY DEF RequestInv, KeepsKind
  <1> QED BY <1>1, <1>2, RequestKept, IInvariant, PTL DEF Spec

-----------------------------------------------------------------------------
(* For the modules that compose machines. *)

\* A step of a call delivers nothing or one event, and what a deserializer of
\* requests delivers is a request.
LEMMA RunningDelivers ==
    ASSUME IInv, RequestInv, DeliveredIsList, Running
    PROVE  \/ delivered' = delivered
           \/ \E e : delivered' = delivered \o << e >> /\ e.message.start_line.kind = "request"
  <1>1. ASSUME NEW bytes, Apply(Dispatch(state, output, bytes))
        PROVE  \/ delivered' = delivered
               \/ \E e : delivered' = delivered \o << e >> /\ e.message.start_line.kind = "request"
    <2> DEFINE r == Dispatch(state, output, bytes)
    <2>1. \/ r.events = << >>
          \/ \E e : r.events = << e >> /\ e.message.start_line.kind = "request"
      BY RequestStep DEF IInv, RequestInv
    <2>2. delivered' = delivered \o r.events /\ delivered \o << >> = delivered
      BY <1>1, ConcatEmptySeq DEF Apply, DeliveredIsList
    <2> HIDE DEF r
    <2> QED BY <2>1, <2>2
  <1> QED BY <1>1 DEF Running, DirectStep, DirectDone, Merge, BufferedStep

\* A machine that is made anew between two calls is as good as one that goes
\* on.
LEMMA MadeAnew ==
    ASSUME IInv, phase = "idle", error = NoError,
           remainder' = EmptyBuffer, state' = StartState, output' = StartMessage,
           UNCHANGED << stream, fed, phase, input, delivered, error >>
    PROVE  IInv' /\ (IsRequest => RequestInv')
  <1>1. /\ StateInv(state', output')
        /\ 0 < Window(state')
        /\ remainder' \in BufferType(Byte)
        /\ OffsetInBuffer(remainder')
        /\ View(remainder') = << >>
    BY StartFits, EmptyBufferFits
  <1>2. TypeOK'
    BY <1>1 DEF IInv, TypeOK, StateInv, OffsetInBuffer, MessageTyped
  <1>3. RemainderBounded'
    BY <1>1 DEF RemainderBounded, View, Window
  <1>4. IsRequest => RequestInv'
    BY DEF RequestInv, StartState, StartStateFor, StartMessage, StartMessageFor, Simple,
           EmptyMessage, RequestLine, ResponseStates
  <1> QED BY <1>1, <1>2, <1>3, <1>4 DEF IInv

-----------------------------------------------------------------------------
(* Refinement. *)

\* A step of either loop is a step of the parser, or its failure.
LEMMA ParserStep ==
    ASSUME DeliveredIsList,
           NEW r, r = Dispatch(state, output, Pending), Apply(r),
           DispatchOk(r, state, output, Pending),
           error = NoError,
           UNCHANGED << stream, fed >>,
           r.error = NoError => Pending' = SubSeq(Pending, Consumed(r) + 1, Len(Pending)),
           r.error # NoError => Pending' \in {Pending, << >>}
    PROVE  Parser!Next
  <1>1. CASE r.error = NoError
    <2>1. Pending' = SubSeq(Pending, Consumed(r) + 1, Len(Pending)) /\ error' = error
      BY <1>1 DEF Apply
    <2>2. Parser!Parse
      BY <1>1, <2>1 DEF Parser!Parse, Apply, Pending, Consumed
    <2> QED BY <2>2 DEF Parser!Next
  <1>2. CASE r.error # NoError
    <2>1. UNCHANGED << state, output, delivered >> /\ error' = r.error
      <3>1. UNCHANGED << state, output >> /\ error' = r.error /\ delivered' = delivered \o r.events
        BY <1>2 DEF Apply, DispatchOk
      <3>2. r.events = << >>
        BY <1>2 DEF Dispatch, Outcome
      <3>3. delivered \o << >> = delivered
        BY ConcatEmptySeq DEF DeliveredIsList
      <3> QED BY <3>1, <3>2, <3>3
    <2>2. Parser!Fail
      BY <1>2, <2>1 DEF Parser!Fail, Pending
    <2> QED BY <2>2 DEF Parser!Next
  <1> QED BY <1>1, <1>2

\* The two loops, the merge and the segments are not observable: the machine
\* is a parser over one queue of bytes (message.cpp lines 40 to 76).
THEOREM MachineIsStreamParser == Spec => ImplementsStreamParser
  <1>1. Init => Parser!Init
    BY DEF Init, Parser!Init, View, EmptyBuffer
  <1>2. IInv /\ DeliveredIsList /\ [Next]_vars => [Parser!Next]_(Parser!vars)
    <2> SUFFICES ASSUME IInv, DeliveredIsList, [Next]_vars PROVE [Parser!Next]_(Parser!vars)
      OBVIOUS
    <2>1. CASE DirectStep
      <3> DEFINE r == Dispatch(state, output, Pending)
      <3>1. /\ Apply(r)
            /\ DispatchOk(r, state, output, Pending)
            /\ r.error = NoError => Pending' = SubSeq(Pending, Consumed(r) + 1, Len(Pending))
            /\ r.error # NoError => Pending' = << >>
        BY <2>1, DirectStepPending
      <3>2. error = NoError /\ UNCHANGED << stream, fed >>
        BY <2>1 DEF DirectStep, IInv
      <3> QED BY <3>1, <3>2, ParserStep
    <2>2. CASE BufferedStep
      <3> DEFINE r == Dispatch(state, output, Pending)
      <3>1. /\ Apply(r)
            /\ DispatchOk(r, state, output, Pending)
            /\ r.error = NoError => Pending' = SubSeq(Pending, Consumed(r) + 1, Len(Pending))
            /\ r.error # NoError => Pending' = Pending
        BY <2>2, BufferedStepPending
      <3>2. error = NoError /\ UNCHANGED << stream, fed >>
        BY <2>2 DEF BufferedStep, IInv
      <3> QED BY <3>1, <3>2, ParserStep
    <2>3. CASE DirectDone \/ Merge
      <3>1. Pending' = Pending
        BY <2>3, HandoverPending
      <3>2. UNCHANGED << stream, fed, state, output, delivered, error >>
        BY <2>3 DEF DirectDone, Merge
      <3> QED BY <3>1, <3>2 DEF Parser!vars, Pending
    <2>4. CASE \E n \in 0 .. Len(stream) - fed : Call(n)
      <3>1. PICK n \in 0 .. Len(stream) - fed : Call(n)
        BY <2>4
      <3>2. Pending' = Pending \o SubSeq(stream, fed + 1, fed + n)
        BY <3>1, CallPending
      <3>3. /\ error = NoError /\ fed' = fed + n
            /\ UNCHANGED << stream, state, output, delivered, error >>
        BY <3>1 DEF Call
      <3> QED BY <3>2, <3>3 DEF Parser!Next, Parser!Arrive, Pending
    <2>5. CASE UNCHANGED vars
      BY <2>5 DEF vars, Parser!vars, View
    <2> QED BY <2>1, <2>2, <2>3, <2>4, <2>5 DEF Next, Running
  <1>3. EventsInv => DeliveredIsList
    BY DEF EventsInv
  <1> QED BY <1>1, <1>2, <1>3, IInvariant, EventsInvariant, PTL DEF Spec, ImplementsStreamParser, Parser!Spec

-----------------------------------------------------------------------------
(* One pass. *)

\* A place in the parsing of a stream.
IsPlace(at) ==
    /\ at = [pending |-> at.pending, state |-> at.state, output |-> at.output,
             delivered |-> at.delivered, error |-> at.error]
    /\ at.pending \in Seq(Byte)
    /\ StateInv(at.state, at.output)
    /\ \E S : at.delivered \in Seq(S)

\* The same place when more bytes have arrived, which nobody looks at after
\* an error.
With(at, more) ==
    IF at.error # NoError THEN at
    ELSE [pending |-> at.pending \o more, state |-> at.state, output |-> at.output,
          delivered |-> at.delivered, error |-> NoError]

\* The callbacks of a step are one or none.
LEMMA FewEvents ==
    ASSUME NEW st, NEW out, NEW bytes, NEW r, r = Dispatch(st, out, bytes)
    PROVE  r.events = << >> \/ \E e : r.events = << e >>
  BY DEF Dispatch, Outcome

\* More events in a list.
LEMMA ListGrows ==
    ASSUME NEW list, \E S : list \in Seq(S), NEW events, events = << >> \/ \E e : events = << e >>
    PROVE  /\ \E S : list \o events \in Seq(S)
           /\ events = << >> => list \o events = list
  <1>1. PICK S : list \in Seq(S)
    OBVIOUS
  <1>2. list \o << >> = list
    BY <1>1, ConcatEmptySeq
  <1>3. CASE events = << >>
    BY <1>1, <1>2, <1>3
  <1>4. CASE \E e : events = << e >>
    <2>1. PICK e : events = << e >>
      BY <1>4
    <2> DEFINE T == S \cup {e}
    <2>2. list \in Seq(T) /\ events \in Seq(T)
      BY <1>1, <2>1
    <2>3. list \o events \in Seq(T)
      BY <2>2, ConcatProperties
    <2> QED BY <2>1, <2>3
  <1> QED BY <1>3, <1>4

\* What a pass makes of a place.
LEMMA PassOf ==
    ASSUME NEW at, IsPlace(at), at.error = NoError,
           NEW r, r = Dispatch(at.state, at.output, at.pending)
    PROVE  /\ DispatchOk(r, at.state, at.output, at.pending)
           /\ Consumed(r) \in 0 .. Len(at.pending)
           /\ Pass(at) = [pending |-> IF r.error = NoError
                                      THEN SubSeq(at.pending, Consumed(r) + 1, Len(at.pending))
                                      ELSE << >>,
                           state |-> r.state, output |-> r.output,
                           delivered |-> at.delivered \o r.events, error |-> r.error]
           /\ IsPlace(Pass(at))
  <1>1. DispatchOk(r, at.state, at.output, at.pending)
    BY DispatchSound DEF IsPlace
  <1>2. r.error # NoError => r.offset = 0
    BY DEF Dispatch, Outcome
  <1>3. Consumed(r) \in 0 .. Len(at.pending) /\ Len(at.pending) \in Nat
    BY <1>1, <1>2, LenProperties DEF DispatchOk, Consumed, IsPlace
  <1>4. Pass(at) = [pending |-> IF r.error = NoError
                                THEN SubSeq(at.pending, Consumed(r) + 1, Len(at.pending))
                                ELSE << >>,
                    state |-> r.state, output |-> r.output,
                    delivered |-> at.delivered \o r.events, error |-> r.error]
    BY DEF Pass, Consumed
  <1>5. \E S : at.delivered \o r.events \in Seq(S)
    <2>1. \E S : at.delivered \in Seq(S)
      BY DEF IsPlace
    <2>2. r.events = << >> \/ \E e : r.events = << e >>
      BY FewEvents
    <2> QED BY <2>1, <2>2, ListGrows
  <1>6. SubSeq(at.pending, Consumed(r) + 1, Len(at.pending)) \in Seq(Byte) /\ << >> \in Seq(Byte)
    BY <1>3, FrontAndRest DEF IsPlace
  <1>7. StateInv(r.state, r.output)
    BY <1>1 DEF DispatchOk
  <1>8. IsPlace(Pass(at))
    BY <1>4, <1>5, <1>6, <1>7 DEF IsPlace
  <1> QED BY <1>1, <1>3, <1>4, <1>8

\* A handler that waits leaves the place as it is.
LEMMA WaitingPass ==
    ASSUME NEW at, IsPlace(at), at.error = NoError,
           Waits(Handle(at.state, at.output, at.pending), at.state, at.output)
    PROVE  Pass(at) = at
  <1> DEFINE r == Dispatch(at.state, at.output, at.pending)
  <1>1. /\ r.error = NoError /\ r.state = at.state /\ r.output = at.output
        /\ r.events = << >> /\ r.offset = 0
    BY DEF Waits, Stop, Ok, Dispatch, Outcome
  <1>2. Consumed(r) = 0
    BY <1>1 DEF Consumed
  <1> HIDE DEF r
  <1>3. SubSeq(at.pending, 1, Len(at.pending)) = at.pending /\ at.delivered \o << >> = at.delivered
    BY SubSeqFull, ListGrows DEF IsPlace
  <1>4. Pass(at) = [pending |-> IF r.error = NoError
                                THEN SubSeq(at.pending, Consumed(r) + 1, Len(at.pending))
                                ELSE << >>,
                    state |-> r.state, output |-> r.output,
                    delivered |-> at.delivered \o r.events, error |-> r.error]
    BY PassOf DEF r
  <1>5. Pass(at) = [pending |-> at.pending, state |-> at.state, output |-> at.output,
                    delivered |-> at.delivered, error |-> NoError]
    <2>1. 0 + 1 = 1
      OBVIOUS
    <2> QED BY <1>1, <1>2, <1>3, <1>4, <2>1
  <1> QED BY <1>5 DEF IsPlace

\* The message kept and the callback made when a handler has returned message
\* and state.
Kept(out, st) == IF st.at = "complete" THEN DefaultMessage ELSE out
Heard(out, st) == CASE st.at = "chunked_complete" -> << ChunkEvent(out, st) >>
                    [] st.at = "complete" -> << MessageEvent(out) >>
                    [] OTHER -> << >>

\* A pass in which the handler consumes count bytes.
LEMMA PassTakes ==
    ASSUME NEW at, IsPlace(at), at.error = NoError,
           NEW out, NEW st, NEW count \in 0 .. Len(at.pending), count # ContinueToken,
           Handle(at.state, at.output, at.pending) = Ok(out, st, count)
    PROVE  Pass(at) = [pending |-> SubSeq(at.pending, count + 1, Len(at.pending)), state |-> st,
                       output |-> Kept(out, st), delivered |-> at.delivered \o Heard(out, st),
                       error |-> NoError]
  <1> DEFINE r == Dispatch(at.state, at.output, at.pending)
  <1>1. /\ r.error = NoError /\ r.state = st /\ r.output = Kept(out, st)
        /\ r.events = Heard(out, st) /\ r.offset = count
    BY DEF Dispatch, Outcome, Ok, Kept, Heard
  <1>2. Consumed(r) = count
    BY <1>1 DEF Consumed
  <1> HIDE DEF r
  <1>3. Pass(at) = [pending |-> IF r.error = NoError
                                THEN SubSeq(at.pending, Consumed(r) + 1, Len(at.pending))
                                ELSE << >>,
                    state |-> r.state, output |-> r.output,
                    delivered |-> at.delivered \o r.events, error |-> r.error]
    BY PassOf DEF r
  <1> QED BY <1>1, <1>2, <1>3

\* More bytes behind a place.
LEMMA WithIsPlace ==
    ASSUME NEW at, IsPlace(at), NEW more \in Seq(Byte)
    PROVE  /\ IsPlace(With(at, more))
           /\ With(at, more).error = at.error
  <1>1. CASE at.error # NoError
    BY <1>1 DEF With
  <1>2. CASE at.error = NoError
    <2>1. at.pending \o more \in Seq(Byte)
      BY ConcatProperties DEF IsPlace
    <2> QED BY <1>2, <2>1 DEF With, IsPlace
  <1> QED BY <1>1, <1>2

\* A step that more bytes do not change.
LEMMA SamePass ==
    ASSUME NEW at, IsPlace(at), at.error = NoError, NEW more \in Seq(Byte),
           Handle(at.state, at.output, at.pending \o more) = Handle(at.state, at.output, at.pending)
    PROVE  Pass(With(at, more)) = With(Pass(at), more)
  <1> DEFINE long == at.pending \o more
             big == With(at, more)
             r == Dispatch(at.state, at.output, at.pending)
  <1>1. /\ IsPlace(big) /\ big.error = NoError
        /\ big.state = at.state /\ big.output = at.output /\ big.delivered = at.delivered
        /\ big.pending = long
    BY WithIsPlace DEF With
  <1>2. r = Dispatch(big.state, big.output, big.pending)
    BY <1>1 DEF Dispatch
  <1> HIDE DEF big, r
  <1>3. /\ Consumed(r) \in 0 .. Len(at.pending)
        /\ Pass(at) = [pending |-> IF r.error = NoError
                                   THEN SubSeq(at.pending, Consumed(r) + 1, Len(at.pending))
                                   ELSE << >>,
                       state |-> r.state, output |-> r.output,
                       delivered |-> at.delivered \o r.events, error |-> r.error]
    BY PassOf DEF r
  <1>4. Pass(big) = [pending |-> IF r.error = NoError
                                 THEN SubSeq(long, Consumed(r) + 1, Len(long))
                                 ELSE << >>,
                     state |-> r.state, output |-> r.output,
                     delivered |-> at.delivered \o r.events, error |-> r.error]
    BY <1>1, <1>2, PassOf
  <1>5. SubSeq(long, Consumed(r) + 1, Len(long)) = SubSeq(at.pending, Consumed(r) + 1, Len(at.pending)) \o more
    BY <1>3, CutInFirst DEF IsPlace
  <1> HIDE DEF long
  <1>6. CASE r.error = NoError
    <2> DEFINE rest == SubSeq(at.pending, Consumed(r) + 1, Len(at.pending))
               heard == at.delivered \o r.events
    <2>1. Pass(at) = [pending |-> rest, state |-> r.state, output |-> r.output,
                      delivered |-> heard, error |-> NoError]
      BY <1>3, <1>6
    <2>2. Pass(big) = [pending |-> rest \o more, state |-> r.state, output |-> r.output,
                       delivered |-> heard, error |-> NoError]
      BY <1>4, <1>5, <1>6
    <2> HIDE DEF rest, heard
    <2>3. With(Pass(at), more) = [pending |-> rest \o more, state |-> r.state, output |-> r.output,
                                  delivered |-> heard, error |-> NoError]
      BY <2>1 DEF With
    <2> QED BY <2>2, <2>3 DEF big
  <1>7. CASE r.error # NoError
    BY <1>3, <1>4, <1>7 DEF With, big
  <1> QED BY <1>6, <1>7

\* A body that takes all there is continues with what comes next as if all had
\* been there.
LEMMA BodyContinues ==
    ASSUME NEW at, IsPlace(at), at.error = NoError, NEW more \in Seq(Byte),
           at.state.at = "body",
           Len(at.pending) < Missing(at.state, at.output)
    PROVE  Pass(With(at, more)) = Pass(With(Pass(at), more))
  <1> DEFINE st == at.state
             out == at.output
             bytes == at.pending
             n == Len(bytes)
             left == Missing(st, out)
             long == bytes \o more
             grown == Grown(out, bytes)
             next == Pass(at)
             big == With(at, more)
             small == With(next, more)
  <1>1. /\ bytes \in Seq(Byte) /\ n \in Nat /\ StateInv(st, out) /\ st.at = "body"
        /\ MessageTyped(out) /\ out.body \in Seq(Byte) /\ Len(out.body) \in Nat
        /\ n = Len(bytes) /\ n < left /\ left = Missing(st, out)
    BY LenProperties DEF IsPlace, StateInv, MessageTyped
  <1>2. /\ left \in Nat \ {0} /\ left < ContinueToken
        /\ Handle(st, out, bytes) = Ok(grown, st, n)
    <2> HIDE DEF st, out, bytes, left, n
    <2>1. /\ left \in Nat \ {0} /\ left < ContinueToken
          /\ Len(bytes) < left => Handle(st, out, bytes) = Ok(Grown(out, bytes), st, Len(bytes))
      BY SMTT(30), <1>1, BodyStep
    <2> QED BY <1>1, <2>1
  <1>3. /\ ContinueToken \in Nat /\ Kept(grown, st) = grown /\ Heard(grown, st) = << >>
        /\ \E S : at.delivered \in Seq(S)
    BY SizesInRange DEF Kept, Heard, IsPlace
  <1>4. next = [pending |-> << >>, state |-> st, output |-> grown,
                delivered |-> at.delivered, error |-> NoError]
    <2>1. SubSeq(bytes, n + 1, n) = << >>
      <3>1. n \in 0 .. Len(bytes) /\ n - n = 0
        BY <1>1
      <3>2. SubSeq(bytes, n + 1, n) \in Seq(Byte) /\ Len(SubSeq(bytes, n + 1, n)) = 0
        BY <1>1, <3>1, FrontAndRest
      <3> QED BY <3>2, EmptySeq
    <2>2. at.delivered \o << >> = at.delivered
      BY <1>3, ListGrows
    <2>3. n \in 0 .. Len(at.pending) /\ n # ContinueToken /\ Handle(at.state, at.output, at.pending) = Ok(grown, st, n)
      BY <1>1, <1>2, <1>3
    <2> HIDE DEF n, grown
    <2>4. Pass(at) = [pending |-> SubSeq(bytes, n + 1, Len(bytes)), state |-> st,
                      output |-> Kept(grown, st), delivered |-> at.delivered \o Heard(grown, st),
                      error |-> NoError]
      BY <2>3, PassTakes
    <2>5. Len(bytes) = n
      BY DEF n
    <2> QED BY <1>3, <2>1, <2>2, <2>4, <2>5
  <1>5. IsPlace(next) /\ IsPlace(small) /\ IsPlace(big) /\ big.error = NoError /\ small.error = NoError
    <2>1. IsPlace(next)
      BY PassOf
    <2> HIDE DEF next
    <2> QED BY <1>4, <2>1, WithIsPlace
  <1>6. /\ small.pending = more /\ small.state = st /\ small.output = grown
        /\ small.delivered = at.delivered
    <2>1. << >> \o more = more
      BY ConcatEmptySeq
    <2> HIDE DEF next, grown
    <2> QED BY <1>4, <2>1 DEF With
  <1>7. /\ big.pending = long /\ big.state = st /\ big.output = out /\ big.delivered = at.delivered
    BY DEF With
  <1>8. long \in Seq(Byte) /\ Len(long) = n + Len(more) /\ Len(more) \in Nat
    BY <1>1, ConcatProperties, LenProperties
  <1>9. StateInv(st, grown) /\ Missing(st, grown) = left - n
    <2>1. StateInv(st, grown)
      BY <1>5, <1>6 DEF IsPlace
    <2>2. Len(grown.body) = Len(out.body) + n /\ st.content_length \in Nat
      BY <1>1, ConcatProperties, StateParts DEF Grown, StateInv
    <2>3. Missing(st, grown) = st.content_length - Len(grown.body) /\ Missing(st, out) = st.content_length - Len(out.body)
      BY DEF Missing
    <2> DEFINE c == st.content_length
               b == Len(out.body)
    <2>4. c \in Nat /\ b \in Nat /\ n \in Nat /\ left = c - b /\ Missing(st, grown) = c - (b + n)
      <3> HIDE DEF n, grown, st, out, left
      <3> QED BY <1>1, <2>2, <2>3
    <2> HIDE DEF n, grown, st, out, left, c, b
    <2>5. Missing(st, grown) = left - n
      BY <2>4
    <2> QED BY <2>1, <2>5
  <1> HIDE DEF small, big, next, long, left, n
  <1>10. \A o, s, c : Ok(o, s, c) = [error |-> NoError, output |-> o, state |-> s, offset |-> c]
    BY DEF Ok
  <1>11. CASE Len(more) < left - n
    <2>1. Len(long) < left
      BY <1>1, <1>2, <1>8, <1>11
    <2>2. Handle(st, out, long) = Ok(Grown(out, long), st, Len(long))
      <3> HIDE DEF st, out
      <3>1. long \in Seq(Byte) /\ StateInv(st, out) /\ st.at = "body" /\ left = Missing(st, out)
        BY <1>1, <1>8
      <3> QED BY <2>1, <3>1, BodyStep
    <2>3. Handle(st, grown, more) = Ok(Grown(grown, more), st, Len(more))
      BY <1>9, <1>11, BodyStep
    <2>4. Grown(grown, more) = Grown(out, long)
      BY <1>1, GrownTwice DEF long
    <2>5. /\ Len(long) \in 0 .. Len(long) /\ Len(long) # ContinueToken
          /\ Len(more) \in 0 .. Len(more) /\ Len(more) # ContinueToken
      BY <1>1, <1>2, <1>3, <1>8, <1>11, <2>1
    <2>6. /\ SubSeq(long, Len(long) + 1, Len(long)) = << >>
          /\ SubSeq(more, Len(more) + 1, Len(more)) = << >>
      <3>1. \A x \in Nat : x - x = 0
        OBVIOUS
      <3> QED BY <1>8, <2>5, <3>1, FrontAndRest, EmptySeq
    <2> DEFINE all == Grown(out, long)
    <2>7. Pass(big) = [pending |-> << >>, state |-> st, output |-> Kept(all, st),
                       delivered |-> at.delivered \o Heard(all, st), error |-> NoError]
      <3> HIDE DEF all
      <3>1. Handle(big.state, big.output, big.pending) = Ok(all, st, Len(long))
        BY <1>7, <2>2 DEF all
      <3>2. Pass(big) = [pending |-> SubSeq(big.pending, Len(long) + 1, Len(big.pending)), state |-> st,
                         output |-> Kept(all, st), delivered |-> big.delivered \o Heard(all, st),
                         error |-> NoError]
        BY <1>5, <1>7, <2>5, <3>1, PassTakes
      <3> QED BY <1>7, <2>6, <3>2
    <2>8. Pass(small) = [pending |-> << >>, state |-> st, output |-> Kept(all, st),
                         delivered |-> at.delivered \o Heard(all, st), error |-> NoError]
      <3> HIDE DEF all
      <3>1. Handle(small.state, small.output, small.pending) = Ok(all, st, Len(more))
        BY <1>6, <2>3, <2>4 DEF all
      <3>2. Pass(small) = [pending |-> SubSeq(small.pending, Len(more) + 1, Len(small.pending)), state |-> st,
                           output |-> Kept(all, st), delivered |-> small.delivered \o Heard(all, st),
                           error |-> NoError]
        BY <1>5, <1>6, <2>5, <3>1, PassTakes
      <3> QED BY <1>6, <2>6, <3>2
    <2> QED BY <2>7, <2>8 DEF small, big, next
  <1>12. CASE left - n <= Len(more)
    <2> DEFINE k == left - n
               done == Simple("complete")
               all == Grown(out, SubSeq(long, 1, left))
    <2>1. k \in 0 .. Len(more) /\ left = n + k /\ left <= Len(long) /\ k < ContinueToken
      <3>1. /\ left \in Nat /\ n \in Nat /\ n < left /\ left < ContinueToken /\ ContinueToken \in Nat
            /\ Len(more) \in Nat /\ Len(long) = n + Len(more) /\ left - n <= Len(more)
        BY <1>1, <1>2, <1>3, <1>8, <1>12
      <3> QED BY <3>1
    <2>2. Handle(st, out, long) = Ok(all, done, left)
      <3> HIDE DEF st, out
      <3>1. long \in Seq(Byte) /\ StateInv(st, out) /\ st.at = "body" /\ left = Missing(st, out)
        BY <1>1, <1>8
      <3> QED BY <2>1, <3>1, BodyStep
    <2>3. Handle(st, grown, more) = Ok(Grown(grown, SubSeq(more, 1, k)), done, k)
      BY <1>9, <1>12, BodyStep
    <2>4. /\ SubSeq(long, 1, left) = bytes \o SubSeq(more, 1, k)
          /\ SubSeq(long, left + 1, Len(long)) = SubSeq(more, k + 1, Len(more))
      <3> HIDE DEF bytes, k
      <3>1. /\ SubSeq(bytes \o more, 1, Len(bytes) + k) = bytes \o SubSeq(more, 1, k)
            /\ SubSeq(bytes \o more, Len(bytes) + k + 1, Len(bytes \o more)) = SubSeq(more, k + 1, Len(more))
        BY <1>1, <2>1, CutInSecond
      <3>2. left = Len(bytes) + k
        BY <1>1, <2>1
      <3> QED BY <3>1, <3>2 DEF long
    <2>5. SubSeq(long, left + 1, Len(long)) = SubSeq(more, k + 1, Len(more))
      BY <2>4
    <2>6. Grown(grown, SubSeq(more, 1, k)) = all
      <3> DEFINE piece == SubSeq(more, 1, k)
      <3>1. piece \in Seq(Byte)
        BY <2>1, FrontProperties
      <3>2. all = Grown(out, bytes \o piece)
        BY <2>4
      <3> HIDE DEF piece, all, out, bytes
      <3>3. Grown(grown, piece) = Grown(out, bytes \o piece)
        BY <1>1, <3>1, GrownTwice
      <3> QED BY <3>2, <3>3 DEF piece
    <2> HIDE DEF k, done, all
    <2>7. Pass(big) = [pending |-> SubSeq(more, k + 1, Len(more)), state |-> done, output |-> Kept(all, done),
                       delivered |-> at.delivered \o Heard(all, done), error |-> NoError]
      <3>1. Handle(big.state, big.output, big.pending) = Ok(all, done, left)
        BY <1>7, <2>2
      <3>2. left \in 0 .. Len(big.pending) /\ left # ContinueToken
        BY <1>2, <1>3, <1>7, <1>8, <2>1
      <3>3. Pass(big) = [pending |-> SubSeq(big.pending, left + 1, Len(big.pending)), state |-> done,
                         output |-> Kept(all, done), delivered |-> big.delivered \o Heard(all, done),
                         error |-> NoError]
        BY <1>5, <3>1, <3>2, PassTakes
      <3> QED BY <1>7, <2>5, <3>3
    <2>8. Pass(small) = [pending |-> SubSeq(more, k + 1, Len(more)), state |-> done, output |-> Kept(all, done),
                         delivered |-> at.delivered \o Heard(all, done), error |-> NoError]
      <3>1. Handle(small.state, small.output, small.pending) = Ok(all, done, k)
        BY <1>6, <2>3, <2>6
      <3>2. k \in 0 .. Len(small.pending) /\ k # ContinueToken
        BY <1>3, <1>6, <2>1
      <3>3. Pass(small) = [pending |-> SubSeq(small.pending, k + 1, Len(small.pending)), state |-> done,
                           output |-> Kept(all, done), delivered |-> small.delivered \o Heard(all, done),
                           error |-> NoError]
        BY <1>5, <3>1, <3>2, PassTakes
      <3> QED BY <1>6, <3>3
    <2> QED BY <2>7, <2>8 DEF small, big, next
  <1> QED BY <1>1, <1>2, <1>8, <1>11, <1>12 DEF left, n

\* What more bytes change of a pass: nothing, unless the handler waits for them
\* or is in the middle of a body, and then the next pass makes up for it.
LEMMA PassExtends ==
    ASSUME NEW at, IsPlace(at), NEW more \in Seq(Byte)
    PROVE  \/ Pass(at) = at
           \/ Pass(With(at, more)) = With(Pass(at), more)
           \/ Pass(With(at, more)) = Pass(With(Pass(at), more))
  <1>1. CASE at.error # NoError
    BY <1>1 DEF Pass
  <1>2. CASE at.error = NoError /\ at.state.at # "body"
    <2>1. Extends(at.state, at.output, at.pending, more)
      BY <1>2, HandleExtends DEF IsPlace
    <2> QED BY <1>2, <2>1, SamePass, WaitingPass DEF Extends
  <1>3. CASE at.error = NoError /\ at.state.at = "body"
    <2> DEFINE left == Missing(at.state, at.output)
    <2>1. at.pending \in Seq(Byte) /\ Len(at.pending) \in Nat /\ StateInv(at.state, at.output)
      BY LenProperties DEF IsPlace
    <2>2. /\ left \in Nat \ {0}
          /\ \A bytes \in Seq(Byte) : left <= Len(bytes) =>
                Handle(at.state, at.output, bytes) =
                    Ok(Grown(at.output, SubSeq(bytes, 1, left)), Simple("complete"), left)
      <3>1. ASSUME NEW bytes \in Seq(Byte)
            PROVE  /\ left \in Nat \ {0}
                   /\ left <= Len(bytes) => Handle(at.state, at.output, bytes) =
                        Ok(Grown(at.output, SubSeq(bytes, 1, left)), Simple("complete"), left)
        <4> DEFINE st == at.state
                   out == at.output
        <4>1. left = Missing(st, out) /\ StateInv(st, out) /\ st.at = "body"
          BY <1>3, <2>1
        <4> HIDE DEF left, st, out
        <4>2. /\ left \in Nat \ {0}
              /\ left <= Len(bytes) => Handle(st, out, bytes) =
                   Ok(Grown(out, SubSeq(bytes, 1, left)), Simple("complete"), left)
          BY <3>1, <4>1, BodyStep
        <4> QED BY <4>2 DEF st, out
      <3> HIDE DEF left
      <3> QED BY <2>1, <3>1
    <2>3. CASE Len(at.pending) < left
      BY <1>3, <2>3, BodyContinues
    <2>4. CASE left <= Len(at.pending)
      <3> DEFINE long == at.pending \o more
      <3>1. long \in Seq(Byte) /\ left <= Len(long) /\ left \in 0 .. Len(at.pending)
        <4>1. long \in Seq(Byte) /\ Len(long) = Len(at.pending) + Len(more) /\ Len(more) \in Nat
          BY <2>1, ConcatProperties, LenProperties
        <4> HIDE DEF long, left
        <4> QED BY <2>1, <2>2, <2>4, <4>1
      <3>2. Handle(at.state, at.output, long) =
                Ok(Grown(at.output, SubSeq(long, 1, left)), Simple("complete"), left)
        BY <2>2, <3>1
      <3> HIDE DEF left
      <3>3. SubSeq(long, 1, left) = SubSeq(at.pending, 1, left)
        BY <2>1, <3>1, CutInFirst
      <3>4. Handle(at.state, at.output, at.pending \o more) = Handle(at.state, at.output, at.pending)
        <4>1. Handle(at.state, at.output, at.pending) =
                Ok(Grown(at.output, SubSeq(at.pending, 1, left)), Simple("complete"), left)
          BY <2>1, <2>2, <2>4
        <4> QED BY <3>2, <3>3, <4>1
      <3> QED BY <1>3, <3>4, SamePass
    <2> QED BY <2>1, <2>2, <2>3, <2>4
  <1> QED BY <1>1, <1>2, <1>3

-----------------------------------------------------------------------------
(* Many passes. *)

\* The places after 0 to n passes.
IsChain(f, n, at) == f = [i \in 0 .. n |-> IF i = 0 THEN at ELSE Pass(f[i - 1])]

\* There is a chain of each length,
LEMMA ChainExists == ASSUME NEW at PROVE \A n \in Nat : \E f : IsChain(f, n, at)
  <1> DEFINE P == {n \in Nat : \E f : IsChain(f, n, at)}
  <1>1. 0 \in P
    <2> DEFINE f == [i \in 0 .. 0 |-> at]
    <2>1. \A i \in 0 .. 0 : i = 0
      OBVIOUS
    <2>2. [i \in 0 .. 0 |-> IF i = 0 THEN at ELSE Pass(f[i - 1])] = [i \in 0 .. 0 |-> at]
      BY <2>1
    <2>3. IsChain(f, 0, at)
      BY <2>2 DEF IsChain
    <2> QED BY <2>3
  <1>2. ASSUME NEW n \in Nat, n \in P PROVE n + 1 \in P
    <2>1. PICK f : IsChain(f, n, at)
      BY <1>2
    <2> DEFINE g == [i \in 0 .. n + 1 |-> IF i <= n THEN f[i] ELSE Pass(f[n])]
               h == [i \in 0 .. n + 1 |-> IF i = 0 THEN at ELSE Pass(g[i - 1])]
    <2>2. ASSUME NEW i \in 0 .. n + 1 PROVE g[i] = h[i]
      <3>1. CASE i = 0
        <4>1. 0 \in 0 .. n /\ 0 <= n /\ 0 \in 0 .. n + 1
          BY <1>2
        <4>2. f[0] = at
          BY <2>1, <4>1 DEF IsChain
        <4> QED BY <3>1, <4>1, <4>2
      <3>2. CASE i \in 1 .. n
        <4>1. i \in 0 .. n /\ i # 0 /\ i <= n /\ i - 1 <= n /\ i - 1 \in 0 .. n + 1
          BY <1>2, <3>2
        <4>2. f[i] = Pass(f[i - 1])
          BY <2>1, <4>1 DEF IsChain
        <4>3. g[i] = f[i] /\ g[i - 1] = f[i - 1]
          BY <2>2, <4>1
        <4> QED BY <2>2, <4>1, <4>2, <4>3
      <3>3. CASE i = n + 1
        <4>1. i # 0 /\ ~ (i <= n) /\ i - 1 = n /\ n <= n /\ n \in 0 .. n + 1
          BY <1>2, <3>3
        <4>2. g[i] = Pass(f[n]) /\ g[n] = f[n]
          BY <2>2, <4>1
        <4> QED BY <2>2, <4>1, <4>2
      <3>4. i = 0 \/ i \in 1 .. n \/ i = n + 1
        BY <1>2, <2>2
      <3> QED BY <3>1, <3>2, <3>3, <3>4
    <2>3. g = h
      <3>1. /\ g = [i \in 0 .. n + 1 |-> g[i]] /\ h = [i \in 0 .. n + 1 |-> h[i]]
        OBVIOUS
      <3> HIDE DEF g, h
      <3> QED BY <2>2, <3>1
    <2>4. IsChain(g, n + 1, at)
      BY <2>3 DEF IsChain
    <2> QED BY <1>2, <2>4
  <1> HIDE DEF P
  <1>3. Nat \subseteq P
    BY <1>1, <1>2, NatByInduction
  <1> QED BY <1>3 DEF P

\* and only one.
LEMMA ChainUnique ==
    ASSUME NEW at, NEW n \in Nat, NEW m \in Nat, n <= m,
           NEW f, IsChain(f, n, at), NEW g, IsChain(g, m, at)
    PROVE  \A i \in 0 .. n : f[i] = g[i]
  <1> DEFINE P == {i \in Nat : i <= n => f[i] = g[i]}
  <1>0. /\ \A i \in 0 .. n : f[i] = IF i = 0 THEN at ELSE Pass(f[i - 1])
        /\ \A i \in 0 .. m : g[i] = IF i = 0 THEN at ELSE Pass(g[i - 1])
    BY DEF IsChain
  <1>1. 0 \in P
    BY <1>0
  <1>2. ASSUME NEW i \in Nat, i \in P PROVE i + 1 \in P
    <2> SUFFICES ASSUME i + 1 <= n PROVE f[i + 1] = g[i + 1]
      BY <1>2
    <2>1. i + 1 \in 0 .. n /\ i + 1 \in 0 .. m /\ i + 1 # 0 /\ i + 1 - 1 = i /\ i <= n
      BY <1>2
    <2>2. f[i + 1] = Pass(f[i]) /\ g[i + 1] = Pass(g[i])
      BY <1>0, <2>1
    <2> QED BY <1>2, <2>1, <2>2
  <1> HIDE DEF P
  <1>3. Nat \subseteq P
    BY <1>1, <1>2, NatByInduction
  <1> QED BY <1>3 DEF P

\* No pass, and one pass more.
LEMMA AfterSteps ==
    ASSUME NEW at
    PROVE  /\ After(0, at) = at
           /\ \A n \in Nat : After(n + 1, at) = Pass(After(n, at))
  <1> DEFINE chain(n) == CHOOSE f : IsChain(f, n, at)
             all == [n \in Nat |-> chain(n)[n]]
             IsAll(f) == f = [k \in Nat |-> IF k = 0 THEN at ELSE Pass(f[k - 1])]
             chosen == CHOOSE f : IsAll(f)
  <1>1. \A n \in Nat : IsChain(chain(n), n, at)
    BY ChainExists
  <1> HIDE DEF chain
  <1>2. \A n \in Nat : all[n] = IF n = 0 THEN at ELSE Pass(all[n - 1])
    <2> SUFFICES ASSUME NEW n \in Nat PROVE all[n] = IF n = 0 THEN at ELSE Pass(all[n - 1])
      OBVIOUS
    <2>1. n \in 0 .. n
      OBVIOUS
    <2>2. chain(n)[n] = IF n = 0 THEN at ELSE Pass(chain(n)[n - 1])
      BY <1>1, <2>1 DEF IsChain
    <2>3. CASE n # 0
      <3>1. n - 1 \in Nat /\ n - 1 <= n /\ n - 1 \in 0 .. n - 1
        BY <2>3
      <3>2. chain(n - 1)[n - 1] = chain(n)[n - 1]
        BY <1>1, <3>1, ChainUnique
      <3> QED BY <2>2, <2>3, <3>1, <3>2
    <2>4. CASE n = 0
      BY <2>2, <2>4
    <2> QED BY <2>3, <2>4
  <1>3. IsAll(all)
    <2>1. all = [n \in Nat |-> all[n]]
      OBVIOUS
    <2> HIDE DEF all
    <2> QED BY <1>2, <2>1
  <1>4. IsAll(chosen)
    <2> HIDE DEF all, IsAll
    <2> QED BY <1>3
  <1>5. \A n : After(n, at) = chosen[n]
    BY DEF After
  <1>6. \A n \in Nat : chosen[n] = IF n = 0 THEN at ELSE Pass(chosen[n - 1])
    <2>1. chosen = [k \in Nat |-> IF k = 0 THEN at ELSE Pass(chosen[k - 1])]
      BY <1>4
    <2> HIDE DEF chosen
    <2> QED BY <2>1
  <1> HIDE DEF chosen
  <1>7. \A n \in Nat : n + 1 \in Nat /\ n + 1 # 0 /\ n + 1 - 1 = n
    OBVIOUS
  <1> QED BY <1>5, <1>6, <1>7

\* Passes one after the other.
LEMMA AfterAfter ==
    ASSUME NEW at, NEW m \in Nat
    PROVE  \A n \in Nat : After(n, After(m, at)) = After(m + n, at)
  <1> DEFINE P == {n \in Nat : After(n, After(m, at)) = After(m + n, at)}
  <1>1. 0 \in P
    BY AfterSteps
  <1>2. ASSUME NEW n \in Nat, n \in P PROVE n + 1 \in P
    <2>1. m + n \in Nat /\ m + (n + 1) = (m + n) + 1
      OBVIOUS
    <2>2. After((m + n) + 1, at) = Pass(After(m + n, at))
      BY <2>1, AfterSteps
    <2>3. After(n + 1, After(m, at)) = Pass(After(n, After(m, at)))
      BY <1>2, AfterSteps
    <2> QED BY <1>2, <2>1, <2>2, <2>3
  <1> HIDE DEF P
  <1>3. Nat \subseteq P
    BY <1>1, <1>2, NatByInduction
  <1> QED BY <1>3 DEF P

\* A place that a pass leaves as it is stays.
LEMMA AfterStays ==
    ASSUME NEW at, Pass(at) = at
    PROVE  \A n \in Nat : After(n, at) = at
  <1> DEFINE P == {n \in Nat : After(n, at) = at}
  <1>1. 0 \in P
    BY AfterSteps
  <1>2. ASSUME NEW n \in Nat, n \in P PROVE n + 1 \in P
    BY <1>2, AfterSteps
  <1> HIDE DEF P
  <1>3. Nat \subseteq P
    BY <1>1, <1>2, NatByInduction
  <1> QED BY <1>3 DEF P

\* Passes lead from place to place.
LEMMA AfterIsPlace ==
    ASSUME NEW at, IsPlace(at)
    PROVE  \A n \in Nat : IsPlace(After(n, at))
  <1> DEFINE P == {n \in Nat : IsPlace(After(n, at))}
  <1>1. 0 \in P
    BY AfterSteps
  <1>2. ASSUME NEW n \in Nat, n \in P PROVE n + 1 \in P
    <2> DEFINE here == After(n, at)
    <2>1. IsPlace(here) /\ After(n + 1, at) = Pass(here)
      BY <1>2, AfterSteps
    <2> HIDE DEF here
    <2>2. IsPlace(Pass(here))
      <3>1. CASE here.error = NoError
        BY <2>1, <3>1, PassOf
      <3>2. CASE here.error # NoError
        BY <2>1, <3>2 DEF Pass
      <3> QED BY <3>1, <3>2
    <2> QED BY <1>2, <2>1, <2>2
  <1> HIDE DEF P
  <1>3. Nat \subseteq P
    BY <1>1, <1>2, NatByInduction
  <1> QED BY <1>3 DEF P

\* Parsing leads from both places to the same one.
Meets(c, d) == \E m, n \in Nat : After(m, c) = After(n, d)

\* That is an equivalence: it is transitive,
LEMMA MeetsAgain ==
    ASSUME NEW c, NEW d, NEW e, Meets(c, d), Meets(d, e)
    PROVE  Meets(c, e)
  <1>1. PICK m \in Nat, n \in Nat : After(m, c) = After(n, d)
    BY DEF Meets
  <1>2. PICK k \in Nat, l \in Nat : After(k, d) = After(l, e)
    BY DEF Meets
  <1>3. After(m + k, c) = After(k, After(m, c))
    BY AfterAfter
  <1>4. After(n + k, d) = After(k, After(n, d))
    BY AfterAfter
  <1>5. After(k + n, d) = After(n, After(k, d))
    BY AfterAfter
  <1>6. After(l + n, e) = After(n, After(l, e))
    BY AfterAfter
  <1>7. n + k = k + n /\ m + k \in Nat /\ l + n \in Nat
    OBVIOUS
  <1>8. After(m + k, c) = After(l + n, e)
    BY <1>1, <1>2, <1>3, <1>4, <1>5, <1>6, <1>7
  <1> QED BY <1>7, <1>8 DEF Meets

\* symmetric
LEMMA MeetsBack == ASSUME NEW c, NEW d, Meets(c, d) PROVE Meets(d, c)
  BY DEF Meets

\* and reflexive.
LEMMA MeetsItself == ASSUME NEW c PROVE Meets(c, c)
  <1>1. After(0, c) = After(0, c) /\ 0 \in Nat
    OBVIOUS
  <1> QED BY <1>1 DEF Meets

\* A place and where a pass leads from it, both with more bytes.
LEMMA PassMeets ==
    ASSUME NEW at, IsPlace(at), NEW more \in Seq(Byte)
    PROVE  Meets(With(at, more), With(Pass(at), more))
  <1> DEFINE c == With(at, more)
             d == With(Pass(at), more)
  <1>1. c = d \/ Pass(c) = d \/ Pass(c) = Pass(d)
    BY PassExtends
  <1> HIDE DEF c, d
  <1>2. /\ 0 \in Nat /\ 1 \in Nat
        /\ After(0, c) = c /\ After(0, d) = d /\ After(0 + 1, c) = Pass(c) /\ After(0 + 1, d) = Pass(d)
    BY AfterSteps
  <1>3. 0 + 1 = 1
    OBVIOUS
  <1>4. Meets(c, d)
    BY <1>1, <1>2, <1>3, MeetsItself DEF Meets
  <1> QED BY <1>4 DEF c, d

\* (after any number of passes)
LEMMA AfterMeets ==
    ASSUME NEW at, IsPlace(at), NEW more \in Seq(Byte)
    PROVE  \A n \in Nat : Meets(With(at, more), With(After(n, at), more))
  <1> DEFINE P == {n \in Nat : Meets(With(at, more), With(After(n, at), more))}
  <1>1. 0 \in P
    BY AfterSteps, MeetsItself
  <1>2. ASSUME NEW n \in Nat, n \in P PROVE n + 1 \in P
    <2> DEFINE here == After(n, at)
    <2>1. IsPlace(here) /\ After(n + 1, at) = Pass(here)
      BY AfterIsPlace, AfterSteps
    <2>2. Meets(With(here, more), With(Pass(here), more))
      BY <2>1, PassMeets
    <2>3. Meets(With(at, more), With(Pass(here), more))
      BY <1>2, <2>2, MeetsAgain
    <2> QED BY <1>2, <2>1, <2>3
  <1> HIDE DEF P
  <1>3. Nat \subseteq P
    BY <1>1, <1>2, NatByInduction
  <1> QED BY <1>3 DEF P

\* Where parsing meets, it meets when more bytes arrive.
LEMMA WithMeets ==
    ASSUME NEW c, NEW d, IsPlace(c), IsPlace(d), Meets(c, d), NEW more \in Seq(Byte)
    PROVE  Meets(With(c, more), With(d, more))
  <1>1. PICK m \in Nat, n \in Nat : After(m, c) = After(n, d)
    BY DEF Meets
  <1>2. Meets(With(c, more), With(After(m, c), more))
    BY AfterMeets
  <1>3. Meets(With(d, more), With(After(n, d), more))
    BY AfterMeets
  <1> QED BY <1>1, <1>2, <1>3, MeetsAgain, MeetsBack

\* What a place has ahead of it: a pass consumes a byte, or only hands over to
\* the next state, or ends parsing.
Weight(at) == IF at.error # NoError THEN 0
              ELSE 1 + 2 * Len(at.pending)
                     + (IF at.state.at \in {"chunked_complete", "complete"} THEN 1 ELSE 0)

\* A pass that changes anything takes from that.
LEMMA PassWeighs ==
    ASSUME NEW at, IsPlace(at)
    PROVE  /\ Weight(at) \in Nat
           /\ Weight(at) = 0 => Pass(at) = at
           /\ Pass(at) = at \/ Weight(Pass(at)) < Weight(at)
  <1>1. Len(at.pending) \in Nat
    BY LenProperties DEF IsPlace
  <1>2. Weight(at) \in Nat /\ (Weight(at) = 0 => at.error # NoError)
    <2> DEFINE n == Len(at.pending)
               extra == IF at.state.at \in {"chunked_complete", "complete"} THEN 1 ELSE 0
    <2>1. Weight(at) = (IF at.error # NoError THEN 0 ELSE 1 + 2 * n + extra) /\ n \in Nat /\ extra \in {0, 1}
      BY <1>1 DEF Weight
    <2> HIDE DEF n, extra
    <2> QED BY <2>1
  <1>3. Weight(at) = 0 => at.error # NoError
    BY <1>2
  <1>4. at.error # NoError => Pass(at) = at
    BY DEF Pass
  <1>5. ASSUME at.error = NoError PROVE Pass(at) = at \/ Weight(Pass(at)) < Weight(at)
    <2> DEFINE h == Handle(at.state, at.output, at.pending)
               r == Dispatch(at.state, at.output, at.pending)
               n == Len(at.pending)
               hands == at.state.at \in {"chunked_complete", "complete"}
    <2>1. /\ r.error = h.error
          /\ h.error = NoError => r.offset = h.offset /\ r.state = h.state
      BY DEF Dispatch, Outcome
    <2>2. IF hands THEN HandsOver(h) ELSE Sound(h, at.pending)
      BY HandleSound DEF IsPlace
    <2>3. ~ hands => h.error # NoError \/ Waits(h, at.state, at.output) \/ h.offset \in Nat \ {0}
      BY WaitsOrTakes DEF IsPlace
    <2>4. Waits(h, at.state, at.output) => Pass(at) = at
      BY <1>5, WaitingPass
    <2> HIDE DEF r, h
    <2>5. Pass(at) = [pending |-> IF r.error = NoError
                                  THEN SubSeq(at.pending, Consumed(r) + 1, Len(at.pending))
                                  ELSE << >>,
                      state |-> r.state, output |-> r.output,
                      delivered |-> at.delivered \o r.events, error |-> r.error]
          /\ Consumed(r) \in 0 .. n
      BY <1>5, PassOf DEF r
    <2>6. Len(SubSeq(at.pending, Consumed(r) + 1, Len(at.pending))) = n - Consumed(r)
      BY <2>5, FrontAndRest DEF IsPlace
    <2>7. Weight(at) = 1 + 2 * n + (IF hands THEN 1 ELSE 0) /\ n \in Nat
      BY <1>1, <1>5 DEF Weight
    <2>8. CASE r.error # NoError
      <3>1. Weight(Pass(at)) = 0
        BY <2>5, <2>8 DEF Weight
      <3> HIDE DEF n, hands
      <3> QED BY <2>7, <3>1
    <2>9. CASE r.error = NoError
      <3>1. Weight(Pass(at)) = 1 + 2 * (n - Consumed(r))
                                 + (IF r.state.at \in {"chunked_complete", "complete"} THEN 1 ELSE 0)
        BY <2>5, <2>6, <2>9 DEF Weight
      <3>2. CASE hands
        <4>1. Consumed(r) = 0 /\ r.state.at \notin {"chunked_complete", "complete"}
          BY <2>1, <2>2, <2>9, <3>2 DEF HandsOver, Consumed
        <4>2. Weight(Pass(at)) = 1 + 2 * n
          BY <2>7, <3>1, <4>1
        <4> HIDE DEF n
        <4> QED BY <2>7, <3>2, <4>2
      <3>3. CASE ~ hands /\ h.offset \in Nat \ {0}
        <4>1. Consumed(r) = h.offset
          BY <2>1, <2>2, <2>9, <3>3 DEF Sound, Consumed
        <4> HIDE DEF n, hands
        <4>2. Consumed(r) \in 1 .. n
          BY <2>5, <2>7, <3>3, <4>1
        <4> QED BY <2>7, <3>1, <3>3, <4>2
      <3> QED BY <2>1, <2>3, <2>4, <2>9, <3>2, <3>3
    <2> QED BY <2>8, <2>9
  <1> QED BY <1>2, <1>3, <1>4, <1>5

\* After enough passes nothing changes any more.
LEMMA Settles ==
    ASSUME NEW at, IsPlace(at), NEW n \in Nat, Weight(at) <= n
    PROVE  Pass(After(n, at)) = After(n, at)
  <1> DEFINE here(k) == After(k, at)
             P == {k \in Nat : Pass(here(k)) = here(k) \/ Weight(here(k)) + k <= Weight(at)}
  <1>0. Weight(at) \in Nat
    BY PassWeighs
  <1>1. 0 \in P
    BY <1>0, AfterSteps
  <1>2. ASSUME NEW k \in Nat, k \in P PROVE k + 1 \in P
    <2>1. IsPlace(here(k)) /\ IsPlace(here(k + 1)) /\ here(k + 1) = Pass(here(k))
      <3>1. k \in Nat /\ k + 1 \in Nat
        BY <1>2
      <3>2. IsPlace(After(k, at)) /\ IsPlace(After(k + 1, at))
        BY <3>1, AfterIsPlace
      <3>3. After(k + 1, at) = Pass(After(k, at))
        BY <3>1, AfterSteps
      <3> QED BY <3>2, <3>3
    <2>2. /\ Weight(here(k)) \in Nat /\ Weight(here(k + 1)) \in Nat
          /\ here(k + 1) = here(k) \/ Weight(here(k + 1)) < Weight(here(k))
      BY <2>1, PassWeighs
    <2> HIDE DEF here
    <2>3. CASE Pass(here(k)) = here(k)
      BY <2>1, <2>3
    <2>4. CASE Pass(here(k)) # here(k)
      <3>1. Weight(here(k)) + k <= Weight(at) /\ Weight(here(k + 1)) < Weight(here(k))
        BY <1>2, <2>1, <2>2, <2>4
      <3>2. Weight(here(k + 1)) + (k + 1) <= Weight(at)
        BY <1>0, <2>2, <3>1
      <3> QED BY <3>2
    <2> QED BY <2>3, <2>4
  <1>3. n \in P
    <2> HIDE DEF P
    <2> QED BY <1>1, <1>2, NatByInduction
  <1>4. IsPlace(here(n))
    BY AfterIsPlace
  <1>5. /\ Weight(here(n)) \in Nat
        /\ Weight(here(n)) = 0 => Pass(here(n)) = here(n)
    BY <1>4, PassWeighs
  <1> HIDE DEF here
  <1>6. Pass(here(n)) = here(n)
    <2>1. CASE Weight(here(n)) + n <= Weight(at)
      <3>1. Weight(here(n)) = 0
        <4> DEFINE w == Weight(here(n))
                   v == Weight(at)
        <4>1. w \in Nat /\ v \in Nat /\ v <= n /\ w + n <= v
          BY <1>0, <1>5, <2>1
        <4> HIDE DEF w, v
        <4>2. w = 0
          BY <4>1
        <4> QED BY <4>2 DEF w
      <3> QED BY <1>5, <3>1
    <2> QED BY <1>3, <2>1
  <1> QED BY <1>6 DEF here

\* The place where the parsing of some bytes begins, for each kind of message.
BegunFor(isRequest, bytes) ==
    [pending |-> bytes, state |-> StartStateFor(isRequest), output |-> StartMessageFor(isRequest),
     delivered |-> << >>, error |-> NoError]

\* It is a place, and the bytes can be given in two goes.
LEMMA BegunForIsPlace ==
    ASSUME NEW isRequest \in BOOLEAN, NEW bytes \in Seq(Byte)
    PROVE  /\ IsPlace(BegunFor(isRequest, bytes))
           /\ Weight(BegunFor(isRequest, bytes)) = 2 * Len(bytes) + 1
           /\ \A more \in Seq(Byte) :
                 With(BegunFor(isRequest, bytes), more) = BegunFor(isRequest, bytes \o more)
  <1>1. << >> \in Seq({})
    OBVIOUS
  <1>2. IsPlace(BegunFor(isRequest, bytes))
    BY <1>1, StartsFit DEF BegunFor, IsPlace
  <1>3. Weight(BegunFor(isRequest, bytes)) = 1 + 2 * Len(bytes) + 0
    BY DEF BegunFor, Weight, StartStateFor, Simple
  <1>4. Len(bytes) \in Nat
    BY LenProperties
  <1> QED BY <1>2, <1>3, <1>4 DEF BegunFor, With

\* The kind this machine is made for.
LEMMA BegunIs == IsRequest \in BOOLEAN /\ \A bytes : Begun(bytes) = BegunFor(IsRequest, bytes)
  BY MachineAssumption DEF Begun, BegunFor, StartState, StartMessage

\* The same for it.
LEMMA BegunIsPlace ==
    ASSUME NEW bytes \in Seq(Byte)
    PROVE  /\ IsPlace(Begun(bytes))
           /\ Weight(Begun(bytes)) = 2 * Len(bytes) + 1
           /\ \A more \in Seq(Byte) : With(Begun(bytes), more) = Begun(bytes \o more)
  BY BegunIs, BegunForIsPlace

\* Where parsing the bytes in one call ends, any other way of parsing them that
\* meets it ends, too.
LEMMA EndsInOneCall ==
    ASSUME NEW bytes \in Seq(Byte), NEW at, Pass(at) = at, Meets(at, Begun(bytes))
    PROVE  at = InOneCall(bytes)
  <1> DEFINE c == Begun(bytes)
             n == 2 * Len(bytes) + 1
             end == After(n, c)
  <1>1. IsPlace(c) /\ n \in Nat /\ Weight(c) = n
    <2>1. Len(bytes) \in Nat
      BY LenProperties
    <2> QED BY <2>1, BegunIsPlace
  <1> HIDE DEF c, n
  <1>2. Pass(end) = end
    <2>1. Weight(c) <= n
      BY <1>1
    <2> QED BY <1>1, <2>1, Settles
  <1>3. PICK k \in Nat, m \in Nat : After(k, at) = After(m, c)
    BY DEF Meets, c
  <1>4. After(k, at) = at /\ at = After(m, c)
    BY <1>3, AfterStays
  <1>5. After(n + m, c) = end
    <2>1. After(m, After(n, c)) = After(n + m, c)
      BY <1>1, AfterAfter
    <2>2. After(m, end) = end
      BY <1>2, AfterStays
    <2> QED BY <2>1, <2>2
  <1>6. After(m + n, c) = at
    BY <1>1, <1>4, AfterAfter, AfterStays
  <1>7. n + m = m + n
    BY <1>1
  <1>8. at = end
    BY <1>5, <1>6, <1>7
  <1> QED BY <1>8 DEF InOneCall, c, n

\* Without a byte the first handler waits.
LEMMA NothingTaken ==
    ASSUME NEW isRequest \in BOOLEAN
    PROVE  Waits(Handle(StartStateFor(isRequest), StartMessageFor(isRequest), << >>),
                 StartStateFor(isRequest), StartMessageFor(isRequest))
  <1> DEFINE h == Handle(StartStateFor(isRequest), StartMessageFor(isRequest), << >>)
  <1>1. ASSUME NEW maxSize \in {MethodMaxLength, VersionMaxLength}
        PROVE  TryFind(<< >>, SP, maxSize).error = "NOT_FOUND"
    <2>1. /\ maxSize \in Nat /\ Len(SP) = 1 /\ maxSize <= MaxStrSize - 2 /\ MaxStrSize \in Nat
          /\ Len(<< >>) = 0
      BY <1>1, LimitsInRange, SizesInRange, Tokens
    <2>2. Lesser(maxSize + Len(SP), Len(<< >>)) = 0
      BY <2>1 DEF Lesser
    <2>3. SubSeq(<< >>, 1, 0) = << >>
      BY SubSeqEmpty
    <2>4. Occurrences(<< >>, SP) = {}
      BY <2>1 DEF Occurrences
    <2>5. TryFindUnlimited(<< >>, SP).error = "NOT_FOUND"
      BY <2>4 DEF TryFindUnlimited, NotFound
    <2>6. ~ (maxSize > MaxStrSize - Len(SP)) /\ ~ (maxSize + Len(SP) <= Len(<< >>))
      BY <2>1
    <2>7. SubSeq(<< >>, 1, Lesser(maxSize + Len(SP), Len(<< >>))) = << >>
      BY <2>2, <2>3
    <2>8. TryFind(<< >>, SP, maxSize) = TryFindUnlimited(<< >>, SP)
      BY <2>6, <2>7 DEF TryFind
    <2> QED BY <2>5, <2>8
  <1>2. h = Stop(StartMessageFor(isRequest), StartStateFor(isRequest))
    <2>1. CASE isRequest
      <3>1. h = HandleRequestMethod(StartMessageFor(isRequest), StartStateFor(isRequest), << >>)
        BY <2>1 DEF Handle, StartStateFor, Simple
      <3> QED BY <1>1, <3>1 DEF HandleRequestMethod, Unfound
    <2>2. CASE ~ isRequest
      <3>1. h = HandleResponseVersion(StartMessageFor(isRequest), StartStateFor(isRequest), << >>)
        BY <2>2 DEF Handle, StartStateFor, Simple
      <3> QED BY <1>1, <3>1 DEF HandleResponseVersion, Unfound
    <2> QED BY <2>1, <2>2
  <1>3. StartStateFor(isRequest).at \notin {"chunked_complete", "complete"}
    BY DEF StartStateFor, Simple
  <1> QED BY <1>2, <1>3 DEF Waits

\* A machine that was not called yet waits.
LEMMA NothingBegun ==
    ASSUME NEW isRequest \in BOOLEAN
    PROVE  Pass(BegunFor(isRequest, << >>)) = BegunFor(isRequest, << >>)
  <1> DEFINE c == BegunFor(isRequest, << >>)
  <1>1. /\ << >> \in Seq(Byte) /\ IsPlace(c) /\ c.pending = << >> /\ c.error = NoError
        /\ c.state = StartStateFor(isRequest) /\ c.output = StartMessageFor(isRequest)
    <2>1. << >> \in Seq(Byte)
      OBVIOUS
    <2> QED BY <2>1, BegunForIsPlace DEF BegunFor
  <1> HIDE DEF c
  <1>2. Pass(c) = c
    BY <1>1, NothingTaken, WaitingPass
  <1> QED BY <1>2 DEF c

-----------------------------------------------------------------------------
(* The machine passes as one call would. *)

\* The bytes fed so far.
SoFar == SubSeq(stream, 1, fed)

\* However the bytes came, parsing them in one call leads to the same place; and
\* between two calls there is nothing left to parse.
SegmentsInvFor(isRequest) ==
    /\ Meets(Now, BegunFor(isRequest, SoFar))
    /\ phase = "idle" => Pass(Now) = Now

SegmentsInv == SegmentsInvFor(IsRequest)

\* Where the machine is is a place.
LEMMA NowIsPlace ==
    ASSUME IInv, EventsInv
    PROVE  IsPlace(Now) /\ Pending \in Seq(Byte) /\ SoFar \in Seq(Byte) /\ Now.error = error
  <1>1. Pending \in Seq(Byte)
    <2>1. View(remainder) \in Seq(Byte) /\ input \in Seq(Byte)
      BY ViewType DEF IInv, TypeOK
    <2> QED BY <2>1, ConcatProperties DEF Pending
  <1>2. SoFar \in Seq(Byte)
    <2>1. stream \in Seq(Byte) /\ fed \in 0 .. Len(stream)
      BY MachineAssumption DEF IInv, TypeOK
    <2> QED BY <2>1, FrontProperties DEF SoFar
  <1>3. << >> \in Seq(Byte) /\ \E S : delivered \in Seq(S)
    BY DEF EventsInv, DeliveredIsList
  <1>4. StateInv(state, output)
    BY DEF IInv
  <1>5. IsPlace(Now)
    BY <1>1, <1>3, <1>4 DEF Now, IsPlace
  <1> QED BY <1>1, <1>2, <1>5 DEF Now

\* A step of a loop is a pass.
LEMMA StepPasses ==
    ASSUME IInv, EventsInv, DirectStep \/ BufferedStep
    PROVE  /\ Now' = Pass(Now)
           /\ phase' = "idle" => Pass(Now)' = Now'
           /\ UNCHANGED << stream, fed >>
  <1> DEFINE r == Dispatch(state, output, Pending)
  <1>1. /\ error = NoError /\ Now.error = NoError /\ Now.pending = Pending
        /\ Now.state = state /\ Now.output = output /\ Now.delivered = delivered
    BY DEF DirectStep, BufferedStep, IInv, Now
  <1>2. /\ Apply(r)
        /\ r.error = NoError => Pending' = SubSeq(Pending, Consumed(r) + 1, Len(Pending))
    BY DirectStepPending, BufferedStepPending
  <1>3. r = Dispatch(Now.state, Now.output, Now.pending)
    BY <1>1
  <1>4. IsPlace(Now) /\ Pending \in Seq(Byte)
    BY NowIsPlace
  <1> HIDE DEF r
  <1>5. Now' = Pass(Now)
    <2>1. Pass(Now) = [pending |-> IF r.error = NoError
                                   THEN SubSeq(Pending, Consumed(r) + 1, Len(Pending))
                                   ELSE << >>,
                       state |-> r.state, output |-> r.output,
                       delivered |-> delivered \o r.events, error |-> r.error]
      BY <1>1, <1>3, <1>4, PassOf
    <2>2. Now' = [pending |-> IF error' = NoError THEN Pending' ELSE << >>, state |-> state',
                  output |-> output', delivered |-> delivered', error |-> error']
      BY DEF Now
    <2> QED BY <1>2, <2>1, <2>2 DEF Apply
  <1>6. phase' = "idle" => Pass(Now') = Now'
    <2>1. CASE r.error # NoError
      <3>1. Now'.error # NoError
        BY <1>2, <2>1 DEF Apply, Now
      <3> QED BY <3>1 DEF Pass
    <2>2. CASE r.error = NoError /\ phase' = "idle"
      <3>1. View(remainder) = << >> /\ input \in Seq(Byte) => View(remainder) \o input = input
        BY ConcatEmptySeq
      <3>2. ASSUME BufferedStep PROVE r.offset = 0
        <4>1. input = << >> /\ View(remainder) \in Seq(Byte)
          BY <3>2, ViewType DEF BufferedStep, IInv, TypeOK
        <4>2. Pending = View(remainder)
          BY <4>1, ConcatEmptySeq DEF Pending
        <4>3. r = Dispatch(state, output, View(remainder))
          BY <4>2 DEF r
        <4> QED BY <2>2, <3>2, <4>3 DEF BufferedStep
      <3>3. ~ DirectStep
        <4> SUFFICES ASSUME DirectStep PROVE FALSE
          OBVIOUS
        <4>1. View(remainder) = << >> /\ input \in Seq(Byte)
          BY DEF DirectStep, IInv, TypeOK
        <4>2. Pending = input
          BY <3>1, <4>1 DEF Pending
        <4>3. r = Dispatch(state, output, input)
          BY <4>2 DEF r
        <4> QED BY <2>2, <4>3 DEF DirectStep
      <3>4. r.offset = 0
        BY <3>2, <3>3
      <3> DEFINE h == Handle(state, output, Pending)
      <3>5. h.error = NoError /\ h.offset = 0
        BY <2>2, <3>4 DEF r, Dispatch, Outcome
      <3>6. state.at \notin {"chunked_complete", "complete"}
        <4>1. 0 # ContinueToken
          BY SizesInRange
        <4>2. state.at \in {"chunked_complete", "complete"} => HandsOver(h)
          BY <1>4, HandleSound DEF IInv
        <4> HIDE DEF h
        <4> QED BY <3>5, <4>1, <4>2 DEF HandsOver
      <3>7. Waits(h, state, output)
        <4>1. h.error # NoError \/ Waits(h, state, output) \/ h.offset \in Nat \ {0}
          BY <1>4, <3>6, WaitsOrTakes DEF IInv
        <4> HIDE DEF h
        <4> QED BY <3>5, <4>1
      <3>8. Pass(Now) = Now
        BY <1>1, <1>4, <3>7, WaitingPass
      <3> QED BY <1>5, <3>8
    <2> QED BY <2>1, <2>2
  <1> QED BY <1>5, <1>6 DEF DirectStep, BufferedStep

\* A call puts its bytes behind those that wait.
LEMMA CallAdds ==
    ASSUME NEW isRequest \in BOOLEAN, IInv, EventsInv, SegmentsInvFor(isRequest),
           NEW n \in 0 .. Len(stream) - fed, Call(n)
    PROVE  Meets(Now', BegunFor(isRequest, SoFar'))
  <1> DEFINE more == SubSeq(stream, fed + 1, fed + n)
  <1>1. /\ stream \in Seq(Byte) /\ fed \in 0 .. Len(stream) /\ fed \in Nat /\ Len(stream) \in Nat
        /\ n \in Nat /\ fed + n <= Len(stream)
    BY MachineAssumption, LenProperties DEF IInv, TypeOK
  <1>2. more \in Seq(Byte) /\ SubSeq(stream, 1, fed + n) = SoFar \o more
    <2> DEFINE upto == fed + n
    <2>1. upto \in 0 .. Len(stream) /\ fed \in 0 .. upto /\ 0 \in 0 .. fed
      BY <1>1
    <2> HIDE DEF upto
    <2>2. SubSeq(stream, fed + 1, upto) \in Seq(Byte)
      BY <1>1, <2>1, Piece
    <2>3. SubSeq(stream, 0 + 1, fed) \o SubSeq(stream, fed + 1, upto) = SubSeq(stream, 0 + 1, upto)
      BY <1>1, <2>1, PiecesJoin
    <2>4. 0 + 1 = 1
      OBVIOUS
    <2> QED BY <2>2, <2>3, <2>4 DEF SoFar, upto
  <1>3. Now' = With(Now, more)
    <2>1. error = NoError /\ UNCHANGED << stream, state, output, delivered, error >>
      BY DEF Call
    <2>2. Pending' = Pending \o more
      BY CallPending
    <2>3. Now' = [pending |-> IF error' = NoError THEN Pending' ELSE << >>, state |-> state',
                  output |-> output', delivered |-> delivered', error |-> error']
      BY DEF Now
    <2>4. Now' = [pending |-> Pending \o more, state |-> state,
                  output |-> output, delivered |-> delivered, error |-> NoError]
      BY <2>1, <2>2, <2>3
    <2> HIDE DEF more
    <2>5. With(Now, more) = [pending |-> Pending \o more, state |-> state,
                             output |-> output, delivered |-> delivered, error |-> NoError]
      BY <2>1 DEF Now, With
    <2> QED BY <2>4, <2>5
  <1>4. SoFar' = SoFar \o more
    <2>1. SoFar' = SubSeq(stream, 1, fed + n)
      BY DEF Call, SoFar
    <2> QED BY <1>2, <2>1
  <1>5. IsPlace(Now) /\ SoFar \in Seq(Byte)
    BY NowIsPlace
  <1> HIDE DEF more
  <1>6. IsPlace(BegunFor(isRequest, SoFar)) /\ With(BegunFor(isRequest, SoFar), more) = BegunFor(isRequest, SoFar \o more)
    BY <1>2, <1>5, BegunForIsPlace
  <1>7. Meets(With(Now, more), With(BegunFor(isRequest, SoFar), more))
    BY <1>2, <1>5, <1>6, WithMeets DEF SegmentsInvFor
  <1> QED BY <1>3, <1>4, <1>6, <1>7

\* Together with the invariant, that is inductive.
LEMMA SegmentsStep ==
    ASSUME NEW isRequest \in BOOLEAN, IInv, EventsInv, SegmentsInvFor(isRequest), [Next]_vars
    PROVE  SegmentsInvFor(isRequest)'
  <1>1. CASE DirectStep \/ BufferedStep
    <2>1. /\ Now' = Pass(Now)
          /\ phase' = "idle" => Pass(Now)' = Now'
          /\ UNCHANGED << stream, fed >>
      BY <1>1, StepPasses
    <2>2. Meets(Pass(Now), Now)
      <3>1. After(0 + 1, Now) = Pass(After(0, Now)) /\ After(0, Now) = Now /\ After(0, Pass(Now)) = Pass(Now)
        BY AfterSteps
      <3>2. 0 \in Nat /\ 0 + 1 \in Nat
        OBVIOUS
      <3> QED BY <3>1, <3>2 DEF Meets
    <2>3. Meets(Pass(Now), BegunFor(isRequest, SoFar))
      BY <2>2, MeetsAgain DEF SegmentsInvFor
    <2>4. SoFar' = SoFar
      BY <2>1 DEF SoFar
    <2> QED BY <2>1, <2>3, <2>4 DEF SegmentsInvFor
  <1>2. CASE DirectDone \/ Merge
    <2>1. Pending' = Pending /\ UNCHANGED << stream, fed, state, output, delivered, error >> /\ phase' # "idle"
      BY <1>2, HandoverPending DEF DirectDone, Merge
    <2>2. Now' = Now /\ SoFar' = SoFar
      BY <2>1 DEF Now, SoFar
    <2> QED BY <2>1, <2>2 DEF SegmentsInvFor
  <1>3. CASE \E n \in 0 .. Len(stream) - fed : Call(n)
    <2>1. phase' # "idle"
      BY <1>3 DEF Call
    <2>2. Meets(Now', BegunFor(isRequest, SoFar'))
      BY <1>3, CallAdds
    <2> QED BY <2>1, <2>2 DEF SegmentsInvFor
  <1>4. CASE UNCHANGED vars
    BY <1>4 DEF vars, SegmentsInvFor, Now, SoFar, Pending, View
  <1> QED BY <1>1, <1>2, <1>3, <1>4 DEF Next, Running

\* It holds at first, when there is nothing to parse,
LEMMA MadeSegments ==
    ASSUME NEW isRequest \in BOOLEAN, MadeFor(isRequest)
    PROVE  SegmentsInvFor(isRequest)
  <1>1. Pending = << >> /\ fed = 0
    BY DEF MadeFor, Pending, View, EmptyBuffer
  <1>2. SubSeq(stream, 1, 0) = << >>
    BY SubSeqEmpty
  <1>3. Now = BegunFor(isRequest, << >>) /\ SoFar = << >>
    BY <1>1, <1>2 DEF MadeFor, Now, BegunFor, SoFar
  <1> QED BY <1>3, NothingBegun, MeetsItself DEF SegmentsInvFor

\* and so in every state.
LEMMA SegmentsInvariant == Spec => []SegmentsInv
  <1>1. Init => SegmentsInv
    BY InitIsMade, MadeSegments DEF SegmentsInv
  <1>2. IInv /\ EventsInv /\ SegmentsInv /\ [Next]_vars => SegmentsInv'
    BY BegunIs, SegmentsStep DEF SegmentsInv
  <1> QED BY <1>1, <1>2, IInvariant, EventsInvariant, PTL DEF Spec

\* Whatever segments the stream is cut into, each call leaves the machine as one
\* call with all the bytes so far would have, and an error is the one that the
\* whole stream would have given (message.cpp lines 40 to 76).
THEOREM SegmentsDoNotMatter == Spec => []SegmentationIndependent
  <1>1. IInv /\ EventsInv /\ SegmentsInv => SegmentationIndependent
    <2> SUFFICES ASSUME IInv, EventsInv, SegmentsInv, phase = "idle"
                 PROVE  /\ Now = InOneCall(SoFar)
                        /\ error # NoError => Now = InOneCall(stream)
      BY DEF SegmentationIndependent, SoFar
    <2>1. IsPlace(Now) /\ SoFar \in Seq(Byte) /\ Now.error = error
      BY NowIsPlace
    <2>2. Now = InOneCall(SoFar)
      BY <2>1, BegunIs, EndsInOneCall DEF SegmentsInv, SegmentsInvFor
    <2>3. ASSUME error # NoError PROVE Now = InOneCall(stream)
      <3> DEFINE more == SubSeq(stream, fed + 1, Len(stream))
      <3>1. more \in Seq(Byte) /\ SoFar \o more = stream /\ stream \in Seq(Byte)
        <4>1. stream \in Seq(Byte) /\ fed \in 0 .. Len(stream)
          BY MachineAssumption DEF IInv, TypeOK
        <4> QED BY <4>1, FrontAndRest DEF SoFar
      <3> HIDE DEF more
      <3>2. IsPlace(Begun(SoFar)) /\ With(Begun(SoFar), more) = Begun(stream)
        BY <2>1, <3>1, BegunIsPlace
      <3>3. With(Now, more) = Now
        BY <2>1, <2>3 DEF With
      <3>4. Meets(Now, Begun(stream))
        BY <2>1, <3>1, <3>2, <3>3, BegunIs, WithMeets DEF SegmentsInv, SegmentsInvFor
      <3> QED BY <3>1, <3>4, BegunIs, EndsInOneCall DEF SegmentsInv, SegmentsInvFor
    <2> QED BY <2>2, <2>3
  <1> QED BY <1>1, IInvariant, EventsInvariant, SegmentsInvariant, PTL
-----------------------------------------------------------------------------
(* What is read from bytes that have come in whole. *)

\* A place where nothing waits.
Place(st, out, d) ==
    [pending |-> << >>, state |-> st, output |-> out, delivered |-> d, error |-> NoError]

\* The bytes lead the parser from the one place to the other.
Reads(c, bytes, d) == Meets(With(c, bytes), d)

\* What leads there may come in two goes.
LEMMA ReadsBoth ==
    ASSUME NEW c, NEW d, NEW e, NEW a \in Seq(Byte), NEW b \in Seq(Byte),
           IsPlace(c), IsPlace(d), Reads(c, a, d), Reads(d, b, e)
    PROVE  Reads(c, a \o b, e)
  <1>1. With(With(c, a), b) = With(c, a \o b)
    <2>1. CASE c.error # NoError
      BY <2>1 DEF With
    <2>2. CASE c.error = NoError
      <3>1. (c.pending \o a) \o b = c.pending \o (a \o b)
        BY Associate, SMTT(20) DEF IsPlace, Associates
      <3> QED BY <2>2, <3>1 DEF With
    <2> QED BY <2>1, <2>2
  <1>2. IsPlace(With(c, a))
    BY WithIsPlace
  <1>3. Meets(With(With(c, a), b), With(d, b))
    BY <1>2, WithMeets DEF Reads
  <1> QED BY <1>1, <1>3, MeetsAgain DEF Reads

\* The parts of such a place.
LEMMA PlaceParts ==
    ASSUME NEW st, NEW out, NEW d, IsPlace(Place(st, out, d)), NEW bytes \in Seq(Byte)
    PROVE  /\ StateInv(st, out) /\ st \in StateType /\ MessageTyped(out)
           /\ \E S : d \in Seq(S)
           /\ With(Place(st, out, d), bytes) = [pending |-> bytes, state |-> st, output |-> out,
                                                delivered |-> d, error |-> NoError]
  <1>1. StateInv(st, out) /\ \E S : d \in Seq(S)
    BY DEF IsPlace, Place
  <1>2. << >> \o bytes = bytes
    BY ConcatEmptySeq
  <1> QED BY <1>1, <1>2 DEF With, Place, StateInv

\* A handler takes all bytes that are there.
LEMMA HandlerReads ==
    ASSUME NEW st, NEW out, NEW d, IsPlace(Place(st, out, d)), NEW bytes \in Seq(Byte),
           NEW next, NEW filled, Handle(st, out, bytes) = Ok(filled, next, Len(bytes)),
           Len(bytes) # ContinueToken
    PROVE  /\ Reads(Place(st, out, d), bytes,
                    Place(next, Kept(filled, next), d \o Heard(filled, next)))
           /\ IsPlace(Place(next, Kept(filled, next), d \o Heard(filled, next)))
  <1> DEFINE at == With(Place(st, out, d), bytes)
             there == Place(next, Kept(filled, next), d \o Heard(filled, next))
  <1>1. at = [pending |-> bytes, state |-> st, output |-> out, delivered |-> d, error |-> NoError]
    BY PlaceParts
  <1>2. IsPlace(at)
    BY WithIsPlace
  <1>3. /\ at.error = NoError /\ at.pending = bytes /\ at.state = st /\ at.output = out
        /\ at.delivered = d
    BY <1>1
  <1> HIDE DEF at
  <1>4. Len(bytes) \in 0 .. Len(bytes)
    BY LenProperties
  <1>5. Pass(at) = [pending |-> SubSeq(bytes, Len(bytes) + 1, Len(bytes)), state |-> next,
                    output |-> Kept(filled, next), delivered |-> d \o Heard(filled, next),
                    error |-> NoError]
    BY <1>2, <1>3, <1>4, PassTakes
  <1>6. SubSeq(bytes, Len(bytes) + 1, Len(bytes)) = << >>
    <2>1. Len(SubSeq(bytes, Len(bytes) + 1, Len(bytes))) = Len(bytes) - Len(bytes)
          /\ SubSeq(bytes, Len(bytes) + 1, Len(bytes)) \in Seq(Byte) /\ Len(bytes) \in Nat
      BY <1>4, FrontAndRest
    <2>2. Len(bytes) - Len(bytes) = 0
      BY <2>1
    <2> QED BY <2>1, <2>2, EmptySeq
  <1>7. Pass(at) = there
    BY <1>5, <1>6 DEF Place
  <1>8. IsPlace(there)
    BY <1>2, <1>3, <1>7, PassOf
  <1>9. Meets(at, there)
    <2>1. After(0, at) = at /\ After(0 + 1, at) = Pass(After(0, at)) /\ After(0, there) = there
      BY AfterSteps
    <2>2. 0 \in Nat /\ 0 + 1 \in Nat
      OBVIOUS
    <2> HIDE DEF there
    <2> QED BY <1>7, <2>1, <2>2 DEF Meets
  <1> QED BY <1>8, <1>9 DEF Reads, at

\* A text that does not have the first symbol of what ends it.
Apart(text, delim) == ~ Contains(text, delim[1])

\* A token that is ended in this way is found.
LEMMA TokenFound ==
    ASSUME NEW text \in Seq(Byte), NEW delim \in {SP, CRLF}, Apart(text, delim),
           NEW maxSize \in Nat, maxSize <= MaxStrSize - 2, Len(text) <= maxSize
    PROVE  /\ TryFind(text \o delim, delim, maxSize) = Found(text, Len(text \o delim))
           /\ text \o delim \in Seq(Byte)
           /\ Len(text \o delim) = Len(text) + Len(delim)
           /\ Len(text \o delim) # ContinueToken
  <1> DEFINE str == text \o delim
             n == Len(text)
             k == Len(delim)
             window == maxSize + k
  <1>1. delim \in Seq(Byte) /\ k \in {1, 2} /\ delim # << >>
    <2>1. delim \in Seq(Byte) /\ k \in {1, 2}
      <3>1. CASE delim = SP
        BY <3>1, Tokens
      <3>2. CASE delim = CRLF
        BY <3>2, Tokens
      <3> QED BY <3>1, <3>2
    <2> QED BY <2>1, EmptySeq, SMTT(20)
  <1>2. str \in Seq(Byte) /\ Len(str) = n + k /\ n \in Nat
    BY <1>1, ConcatProperties, LenProperties
  <1>3. MaxStrSize \in Nat /\ ContinueToken \in Nat /\ MaxStrSize < ContinueToken
    BY SizesInRange
  <1>4. TryFindUnlimited(str, delim) = Found(text, n + k)
    <2>1. << >> \in Seq(Byte) /\ delim \o << >> = delim
      BY <1>1, ConcatEmptySeq
    <2>2. TryFindUnlimited(text \o (delim \o << >>), delim) = Found(text, Len(text) + Len(delim))
      BY <1>1, <2>1, FirstFound DEF Apart
    <2> QED BY <2>1, <2>2
  <1>5. SubSeq(str, 1, Len(str)) = str
    BY <1>2, SubSeqFull
  <1> HIDE DEF str, k
  <1>6. Lesser(window, Len(str)) = Len(str)
    BY <1>1, <1>2 DEF Lesser
  <1>7. ~ (maxSize > MaxStrSize - k)
    BY <1>1, <1>3
  <1>8. TryFind(str, delim, maxSize) = Found(text, n + k)
    <2>1. TryFindUnlimited(SubSeq(str, 1, Lesser(window, Len(str))), delim) = Found(text, n + k)
      BY <1>4, <1>5, <1>6
    <2>2. Found(text, n + k).error = "NONE"
      BY DEF Found
    <2> QED BY <1>7, <2>1, <2>2 DEF TryFind, k
  <1>9. Len(str) # ContinueToken
    BY <1>1, <1>2, <1>3
  <1> QED BY <1>2, <1>8, <1>9 DEF str, k

\* The message and the callbacks after a step that does not end a message or a
\* chunk.
LEMMA KeptAndHeard ==
    ASSUME NEW out, NEW st, st.at \notin {"chunked_complete", "complete"},
           NEW d, \E S : d \in Seq(S)
    PROVE  Kept(out, st) = out /\ d \o Heard(out, st) = d
  <1>1. Kept(out, st) = out /\ Heard(out, st) = << >>
    BY DEF Kept, Heard
  <1> QED BY <1>1, ConcatEmptySeq

\* A handler that takes a token and goes on in the message.
LEMMA TokenReads ==
    ASSUME NEW st, NEW out, NEW d, IsPlace(Place(st, out, d)), NEW bytes \in Seq(Byte),
           NEW next, NEW filled, Handle(st, out, bytes) = Ok(filled, next, Len(bytes)),
           Len(bytes) # ContinueToken, next.at \notin {"chunked_complete", "complete"}
    PROVE  Reads(Place(st, out, d), bytes, Place(next, filled, d)) /\ IsPlace(Place(next, filled, d))
  <1>1. Kept(filled, next) = filled /\ d \o Heard(filled, next) = d
    BY PlaceParts, KeptAndHeard
  <1>2. /\ Reads(Place(st, out, d), bytes, Place(next, Kept(filled, next), d \o Heard(filled, next)))
        /\ IsPlace(Place(next, Kept(filled, next), d \o Heard(filled, next)))
    BY HandlerReads
  <1> QED BY <1>1, <1>2

\* The parts of the start lines.
LEMMA PartLengths ==
    /\ \A str \in DOMAIN MethodFromStr : str \in Seq(Byte) /\ Len(str) <= MethodMaxLength
    /\ \A str \in DOMAIN VersionFromStr : str \in Seq(Byte) /\ Len(str) <= VersionMaxLength
    /\ {MethodMaxLength, VersionMaxLength, StatusCodeLength, MaxReasonSize, MaxTargetSize}
         \subseteq 0 .. MaxStrSize - 2
    /\ MaxStrSize \in Nat /\ 2 < MaxStrSize
  <1>1. /\ \A str \in DOMAIN MethodFromStr : str \in Seq(Byte) /\ Len(str) <= MethodMaxLength
        /\ \A str \in DOMAIN VersionFromStr : str \in Seq(Byte) /\ Len(str) <= VersionMaxLength
    BY HandlersAssumption DEF IsMaxLength
  <1>2. {MethodMaxLength, VersionMaxLength, StatusCodeLength, MaxReasonSize, MaxTargetSize}
          \subseteq 0 .. MaxStrSize - 2
    BY HandlersAssumption DEF Limits, StatusCodeLength
  <1> QED BY <1>1, <1>2, SizesInRange

\* What the search makes of it.
Ended(text, delim, maxSize) ==
    /\ TryFind(text \o delim, delim, maxSize) = Found(text, Len(text \o delim))
    /\ text \o delim \in Seq(Byte)
    /\ Len(text \o delim) = Len(text) + Len(delim)
    /\ Len(text \o delim) # ContinueToken

\* The delimiters of the heads.
LEMMA PartFound ==
    ASSUME NEW text \in Seq(Byte), NEW delim \in {SP, CRLF}, Apart(text, delim),
           NEW maxSize \in 0 .. MaxStrSize - 2, Len(text) <= maxSize
    PROVE  Ended(text, delim, maxSize)
  <1>1. maxSize \in Nat /\ maxSize <= MaxStrSize - 2
    BY SizesInRange
  <1> QED BY <1>1, TokenFound DEF Ended

\* A request line with its parts up to the one at which parsing is.
LineOf(method, target, version) ==
    [kind |-> "request", method |-> method, target |-> target, version |-> version]

\* Filling in a part of the start line.
LEMMA StartLineFilled ==
    ASSUME NEW line, NEW out, out = EmptyMessage(line)
    PROVE  out.start_line = line /\ \A f : [out EXCEPT !.start_line = f] = EmptyMessage(f)
  <1>1. \A f : [[start_line |-> line, fields |-> << >>, body |-> << >>] EXCEPT !.start_line = f]
               = [start_line |-> f, fields |-> << >>, body |-> << >>]
    OBVIOUS
  <1>2. out.start_line = line /\ out = [start_line |-> line, fields |-> << >>, body |-> << >>]
    BY DEF EmptyMessage
  <1> QED BY <1>1, <1>2 DEF EmptyMessage

\* The method of a request line,
LEMMA MethodFilled ==
    ASSUME NEW method, NEW target, NEW version, NEW new, NEW out,
           out = EmptyMessage(LineOf(method, target, version))
    PROVE  [out EXCEPT !.start_line.method = new] = EmptyMessage(LineOf(new, target, version))
  <1>1. [out EXCEPT !.start_line.method = new]
          = [out EXCEPT !.start_line = [out.start_line EXCEPT !.method = new]]
    OBVIOUS
  <1>2. [LineOf(method, target, version) EXCEPT !.method = new] = LineOf(new, target, version)
    BY DEF LineOf
  <1>3. /\ out.start_line = LineOf(method, target, version)
        /\ \A f : [out EXCEPT !.start_line = f] = EmptyMessage(f)
    BY StartLineFilled
  <1> QED BY <1>1, <1>2, <1>3

\* its target
LEMMA TargetFilled ==
    ASSUME NEW method, NEW target, NEW version, NEW new, NEW out,
           out = EmptyMessage(LineOf(method, target, version))
    PROVE  [out EXCEPT !.start_line.target = new] = EmptyMessage(LineOf(method, new, version))
  <1>1. [out EXCEPT !.start_line.target = new]
          = [out EXCEPT !.start_line = [out.start_line EXCEPT !.target = new]]
    OBVIOUS
  <1>2. [LineOf(method, target, version) EXCEPT !.target = new] = LineOf(method, new, version)
    BY DEF LineOf
  <1>3. /\ out.start_line = LineOf(method, target, version)
        /\ \A f : [out EXCEPT !.start_line = f] = EmptyMessage(f)
    BY StartLineFilled
  <1> QED BY <1>1, <1>2, <1>3

\* and its version.
LEMMA VersionFilled ==
    ASSUME NEW method, NEW target, NEW version, NEW new, NEW out,
           out = EmptyMessage(LineOf(method, target, version))
    PROVE  [out EXCEPT !.start_line.version = new] = EmptyMessage(LineOf(method, target, new))
  <1>1. [out EXCEPT !.start_line.version = new]
          = [out EXCEPT !.start_line = [out.start_line EXCEPT !.version = new]]
    OBVIOUS
  <1>2. [LineOf(method, target, version) EXCEPT !.version = new] = LineOf(method, target, new)
    BY DEF LineOf
  <1>3. /\ out.start_line = LineOf(method, target, version)
        /\ \A f : [out EXCEPT !.start_line = f] = EmptyMessage(f)
    BY StartLineFilled
  <1> QED BY <1>1, <1>2, <1>3

\* The method,
LEMMA MethodReads ==
    ASSUME NEW str \in DOMAIN MethodFromStr, Apart(str, SP), NEW d, NEW c,
           c = Place(Simple("request_method"), DefaultMessage, d), IsPlace(c), NEW e,
           e = Place(Simple("request_target"),
                     EmptyMessage(LineOf(MethodFromStr[str], Unset, Unset)), d)
    PROVE  Reads(c, str \o SP, e) /\ IsPlace(e) /\ str \o SP \in Seq(Byte)
  <1> DEFINE st == Simple("request_method")
             next == Simple("request_target")
             out == DefaultMessage
             filled == EmptyMessage(LineOf(MethodFromStr[str], Unset, Unset))
             bytes == str \o SP
  <1>1. str \in Seq(Byte) /\ Ended(str, SP, MethodMaxLength)
    BY PartLengths, PartFound
  <1>2. [out EXCEPT !.start_line.method = MethodFromStr[str]] = filled
    <2> DEFINE new == MethodFromStr[str]
    <2>1. out = EmptyMessage(LineOf(Unset, Unset, Unset))
      BY DEF DefaultMessage, RequestLine, LineOf
    <2>2. filled = EmptyMessage(LineOf(new, Unset, Unset))
      OBVIOUS
    <2> HIDE DEF out, filled, new
    <2>3. [out EXCEPT !.start_line.method = new] = filled
      BY <2>1, <2>2, MethodFilled
    <2> QED BY <2>3 DEF new
  <1>3. Handle(st, out, bytes) = HandleRequestMethod(out, st, bytes)
    BY DEF Handle, Simple
  <1> HIDE DEF filled, st, next, out
  <1>4. HandleRequestMethod(out, st, bytes) = Ok(filled, next, Len(bytes))
    <2> DEFINE found == TryFind(bytes, SP, MethodMaxLength)
    <2>1. found.error = "NONE" /\ found.value = str /\ found.offset = Len(bytes)
      BY <1>1 DEF Ended, Found
    <2> HIDE DEF found, bytes
    <2> QED BY <1>2, <2>1 DEF HandleRequestMethod, found, next
  <1>5. next.at = "request_target"
    BY DEF next, Simple
  <1>6. Reads(Place(st, out, d), bytes, Place(next, filled, d)) /\ IsPlace(Place(next, filled, d))
    <2>1. IsPlace(Place(st, out, d))
      BY DEF st, out
    <2>2. bytes \in Seq(Byte) /\ Len(bytes) # ContinueToken
      BY <1>1 DEF Ended
    <2> HIDE DEF bytes
    <2> QED BY <1>3, <1>4, <1>5, <2>1, <2>2, TokenReads
  <1> QED BY <1>1, <1>6 DEF st, out, next, filled, Ended

\* the target
LEMMA TargetReads ==
    ASSUME NEW str \in DOMAIN TargetFromStr, str \in Seq(Byte), Apart(str, SP),
           Len(str) <= MaxTargetSize, NEW method, NEW d, NEW c,
           c = Place(Simple("request_target"), EmptyMessage(LineOf(method, Unset, Unset)), d),
           IsPlace(c), NEW e,
           e = Place(Simple("request_version"),
                     EmptyMessage(LineOf(method, TargetFromStr[str], Unset)), d)
    PROVE  Reads(c, str \o SP, e) /\ IsPlace(e) /\ str \o SP \in Seq(Byte)
  <1> DEFINE st == Simple("request_target")
             next == Simple("request_version")
             out == EmptyMessage(LineOf(method, Unset, Unset))
             filled == EmptyMessage(LineOf(method, TargetFromStr[str], Unset))
             bytes == str \o SP
  <1>1. Ended(str, SP, MaxTargetSize)
    BY PartLengths, PartFound
  <1>2. [out EXCEPT !.start_line.target = TargetFromStr[str]] = filled
    <2> DEFINE new == TargetFromStr[str]
    <2>1. out = EmptyMessage(LineOf(method, Unset, Unset))
      OBVIOUS
    <2>2. filled = EmptyMessage(LineOf(method, new, Unset))
      OBVIOUS
    <2> HIDE DEF out, filled, new
    <2>3. [out EXCEPT !.start_line.target = new] = filled
      BY <2>1, <2>2, TargetFilled
    <2> QED BY <2>3 DEF new
  <1>3. Handle(st, out, bytes) = HandleRequestTarget(out, st, bytes)
    BY DEF Handle, Simple
  <1> HIDE DEF filled, st, next, out
  <1>4. HandleRequestTarget(out, st, bytes) = Ok(filled, next, Len(bytes))
    <2> DEFINE found == TryFind(bytes, SP, MaxTargetSize)
    <2>1. found.error = "NONE" /\ found.value = str /\ found.offset = Len(bytes)
      BY <1>1 DEF Ended, Found
    <2> HIDE DEF found, bytes
    <2> QED BY <1>2, <2>1 DEF HandleRequestTarget, found, next
  <1>5. next.at = "request_version"
    BY DEF next, Simple
  <1>6. Reads(Place(st, out, d), bytes, Place(next, filled, d)) /\ IsPlace(Place(next, filled, d))
    <2>1. IsPlace(Place(st, out, d))
      BY DEF st, out
    <2>2. bytes \in Seq(Byte) /\ Len(bytes) # ContinueToken
      BY <1>1 DEF Ended
    <2> HIDE DEF bytes
    <2> QED BY <1>3, <1>4, <1>5, <2>1, <2>2, TokenReads
  <1> QED BY <1>1, <1>6 DEF st, out, next, filled, Ended

\* and the version of a request.
LEMMA VersionReads ==
    ASSUME NEW str \in DOMAIN VersionFromStr, Apart(str, CRLF),
           NEW method, NEW target, NEW d, NEW c,
           c = Place(Simple("request_version"), EmptyMessage(LineOf(method, target, Unset)), d),
           IsPlace(c), NEW e,
           e = Place(Fields(0), EmptyMessage(LineOf(method, target, VersionFromStr[str])), d)
    PROVE  Reads(c, str \o CRLF, e) /\ IsPlace(e) /\ str \o CRLF \in Seq(Byte)
  <1> DEFINE st == Simple("request_version")
             next == Fields(0)
             out == EmptyMessage(LineOf(method, target, Unset))
             filled == EmptyMessage(LineOf(method, target, VersionFromStr[str]))
             bytes == str \o CRLF
  <1>1. str \in Seq(Byte) /\ Ended(str, CRLF, VersionMaxLength)
    BY PartLengths, PartFound
  <1>2. [out EXCEPT !.start_line.version = VersionFromStr[str]] = filled
    <2> DEFINE new == VersionFromStr[str]
    <2>1. out = EmptyMessage(LineOf(method, target, Unset))
      OBVIOUS
    <2>2. filled = EmptyMessage(LineOf(method, target, new))
      OBVIOUS
    <2> HIDE DEF out, filled, new
    <2>3. [out EXCEPT !.start_line.version = new] = filled
      BY <2>1, <2>2, VersionFilled
    <2> QED BY <2>3 DEF new
  <1>3. Handle(st, out, bytes) = HandleRequestVersion(out, st, bytes)
    BY DEF Handle, Simple
  <1> HIDE DEF filled, st, next, out
  <1>4. HandleRequestVersion(out, st, bytes) = Ok(filled, next, Len(bytes))
    <2> DEFINE found == TryFind(bytes, CRLF, VersionMaxLength)
    <2>1. found.error = "NONE" /\ found.value = str /\ found.offset = Len(bytes)
      BY <1>1 DEF Ended, Found
    <2> HIDE DEF found, bytes
    <2> QED BY <1>2, <2>1 DEF HandleRequestVersion, found, next
  <1>5. next.at = "fields"
    BY DEF next, Fields
  <1>6. Reads(Place(st, out, d), bytes, Place(next, filled, d)) /\ IsPlace(Place(next, filled, d))
    <2>1. IsPlace(Place(st, out, d))
      BY DEF st, out
    <2>2. bytes \in Seq(Byte) /\ Len(bytes) # ContinueToken
      BY <1>1 DEF Ended
    <2> HIDE DEF bytes
    <2> QED BY <1>3, <1>4, <1>5, <2>1, <2>2, TokenReads
  <1> QED BY <1>1, <1>6 DEF st, out, next, filled, Ended

\* The same for a status line.
StatusLineOf(version, status, reason) ==
    [kind |-> "response", version |-> version, status |-> status, reason |-> reason]

\* The version of a status line,
LEMMA GivenVersionFilled ==
    ASSUME NEW version, NEW status, NEW reason, NEW new, NEW out,
           out = EmptyMessage(StatusLineOf(version, status, reason))
    PROVE  [out EXCEPT !.start_line.version = new] = EmptyMessage(StatusLineOf(new, status, reason))
  <1>1. [out EXCEPT !.start_line.version = new]
          = [out EXCEPT !.start_line = [out.start_line EXCEPT !.version = new]]
    OBVIOUS
  <1>2. [StatusLineOf(version, status, reason) EXCEPT !.version = new] = StatusLineOf(new, status, reason)
    BY DEF StatusLineOf
  <1>3. /\ out.start_line = StatusLineOf(version, status, reason)
        /\ \A f : [out EXCEPT !.start_line = f] = EmptyMessage(f)
    BY StartLineFilled
  <1> QED BY <1>1, <1>2, <1>3

\* its status
LEMMA StatusFilled ==
    ASSUME NEW version, NEW status, NEW reason, NEW new, NEW out,
           out = EmptyMessage(StatusLineOf(version, status, reason))
    PROVE  [out EXCEPT !.start_line.status = new] = EmptyMessage(StatusLineOf(version, new, reason))
  <1>1. [out EXCEPT !.start_line.status = new]
          = [out EXCEPT !.start_line = [out.start_line EXCEPT !.status = new]]
    OBVIOUS
  <1>2. [StatusLineOf(version, status, reason) EXCEPT !.status = new] = StatusLineOf(version, new, reason)
    BY DEF StatusLineOf
  <1>3. /\ out.start_line = StatusLineOf(version, status, reason)
        /\ \A f : [out EXCEPT !.start_line = f] = EmptyMessage(f)
    BY StartLineFilled
  <1> QED BY <1>1, <1>2, <1>3

\* and its reason.
LEMMA ReasonFilled ==
    ASSUME NEW version, NEW status, NEW reason, NEW new, NEW out,
           out = EmptyMessage(StatusLineOf(version, status, reason))
    PROVE  [out EXCEPT !.start_line.reason = new] = EmptyMessage(StatusLineOf(version, status, new))
  <1>1. [out EXCEPT !.start_line.reason = new]
          = [out EXCEPT !.start_line = [out.start_line EXCEPT !.reason = new]]
    OBVIOUS
  <1>2. [StatusLineOf(version, status, reason) EXCEPT !.reason = new] = StatusLineOf(version, status, new)
    BY DEF StatusLineOf
  <1>3. /\ out.start_line = StatusLineOf(version, status, reason)
        /\ \A f : [out EXCEPT !.start_line = f] = EmptyMessage(f)
    BY StartLineFilled
  <1> QED BY <1>1, <1>2, <1>3

\* The version of a response,
LEMMA GivenVersionReads ==
    ASSUME NEW str \in DOMAIN VersionFromStr,
           Apart(str, SP), NEW d, NEW c,
           c = Place(Simple("response_version"), EmptyMessage(StatusLineOf(Unset, 0, << >>)), d), IsPlace(c), NEW e,
           e = Place(Simple("response_status"), EmptyMessage(StatusLineOf(VersionFromStr[str], 0, << >>)), d)
    PROVE  Reads(c, str \o SP, e) /\ IsPlace(e) /\ str \o SP \in Seq(Byte)
  <1> DEFINE st == Simple("response_version")
             next == Simple("response_status")
             out == EmptyMessage(StatusLineOf(Unset, 0, << >>))
             filled == EmptyMessage(StatusLineOf(VersionFromStr[str], 0, << >>))
             bytes == str \o SP
  <1>1. str \in Seq(Byte) /\ Ended(str, SP, VersionMaxLength)
    BY PartLengths, PartFound
  <1>2. [out EXCEPT !.start_line.version = VersionFromStr[str]] = filled
    <2> DEFINE new == VersionFromStr[str]
    <2>1. out = EmptyMessage(StatusLineOf(Unset, 0, << >>)) /\ filled = EmptyMessage(StatusLineOf(new, 0, << >>))
      OBVIOUS
    <2> HIDE DEF out, filled, new
    <2>2. [out EXCEPT !.start_line.version = new] = filled
      BY <2>1, GivenVersionFilled
    <2> QED BY <2>2 DEF new
  <1>3. Handle(st, out, bytes) = HandleResponseVersion(out, st, bytes)
    BY DEF Handle, Simple
  <1> HIDE DEF filled, st, next, out
  <1>4. HandleResponseVersion(out, st, bytes) = Ok(filled, next, Len(bytes))
    <2> DEFINE found == TryFind(bytes, SP, VersionMaxLength)
    <2>1. found.error = "NONE" /\ found.value = str /\ found.offset = Len(bytes)
      BY <1>1 DEF Ended, Found
    <2> HIDE DEF found, bytes
    <2> QED BY <1>2, <2>1 DEF HandleResponseVersion, found, next
  <1>5. next.at = "response_status"
    BY DEF next, Simple
  <1>6. Reads(Place(st, out, d), bytes, Place(next, filled, d)) /\ IsPlace(Place(next, filled, d))
    <2>1. IsPlace(Place(st, out, d))
      BY DEF st, out
    <2>2. bytes \in Seq(Byte) /\ Len(bytes) # ContinueToken
      BY <1>1 DEF Ended
    <2> HIDE DEF bytes
    <2> QED BY <1>3, <1>4, <1>5, <2>1, <2>2, TokenReads
  <1> QED BY <1>1, <1>6 DEF st, out, next, filled, Ended

\* its status
LEMMA StatusReads ==
    ASSUME NEW str \in Seq(Byte), Len(str) = StatusCodeLength, NEW code, code # NoNumber,
           code = FromChars(str, 10, 2 ^ 16), NEW version,
           Apart(str, SP), NEW d, NEW c,
           c = Place(Simple("response_status"), EmptyMessage(StatusLineOf(version, 0, << >>)), d), IsPlace(c), NEW e,
           e = Place(Simple("response_reason"), EmptyMessage(StatusLineOf(version, code, << >>)), d)
    PROVE  Reads(c, str \o SP, e) /\ IsPlace(e) /\ str \o SP \in Seq(Byte)
  <1> DEFINE st == Simple("response_status")
             next == Simple("response_reason")
             out == EmptyMessage(StatusLineOf(version, 0, << >>))
             filled == EmptyMessage(StatusLineOf(version, code, << >>))
             bytes == str \o SP
  <1>1. str \in Seq(Byte) /\ Ended(str, SP, StatusCodeLength)
    BY PartLengths, PartFound
  <1>2. [out EXCEPT !.start_line.status = code] = filled
    <2> DEFINE new == code
    <2>1. out = EmptyMessage(StatusLineOf(version, 0, << >>)) /\ filled = EmptyMessage(StatusLineOf(version, new, << >>))
      OBVIOUS
    <2> HIDE DEF out, filled, new
    <2>2. [out EXCEPT !.start_line.status = new] = filled
      BY <2>1, StatusFilled
    <2> QED BY <2>2 DEF new
  <1>3. Handle(st, out, bytes) = HandleResponseStatus(out, st, bytes)
    BY DEF Handle, Simple
  <1> HIDE DEF filled, st, next, out
  <1>4. HandleResponseStatus(out, st, bytes) = Ok(filled, next, Len(bytes))
    <2> DEFINE found == TryFind(bytes, SP, StatusCodeLength)
    <2>1. found.error = "NONE" /\ found.value = str /\ found.offset = Len(bytes)
      BY <1>1 DEF Ended, Found
    <2> HIDE DEF found, bytes
    <2> QED BY <1>2, <2>1 DEF HandleResponseStatus, found, next
  <1>5. next.at = "response_reason"
    BY DEF next, Simple
  <1>6. Reads(Place(st, out, d), bytes, Place(next, filled, d)) /\ IsPlace(Place(next, filled, d))
    <2>1. IsPlace(Place(st, out, d))
      BY DEF st, out
    <2>2. bytes \in Seq(Byte) /\ Len(bytes) # ContinueToken
      BY <1>1 DEF Ended
    <2> HIDE DEF bytes
    <2> QED BY <1>3, <1>4, <1>5, <2>1, <2>2, TokenReads
  <1> QED BY <1>1, <1>6 DEF st, out, next, filled, Ended

\* and its reason.
LEMMA ReasonReads ==
    ASSUME NEW str \in Seq(Byte), Len(str) <= MaxReasonSize, NEW version, NEW status,
           Apart(str, CRLF), NEW d, NEW c,
           c = Place(Simple("response_reason"), EmptyMessage(StatusLineOf(version, status, << >>)), d), IsPlace(c), NEW e,
           e = Place(Fields(0), EmptyMessage(StatusLineOf(version, status, str)), d)
    PROVE  Reads(c, str \o CRLF, e) /\ IsPlace(e) /\ str \o CRLF \in Seq(Byte)
  <1> DEFINE st == Simple("response_reason")
             next == Fields(0)
             out == EmptyMessage(StatusLineOf(version, status, << >>))
             filled == EmptyMessage(StatusLineOf(version, status, str))
             bytes == str \o CRLF
  <1>1. str \in Seq(Byte) /\ Ended(str, CRLF, MaxReasonSize)
    BY PartLengths, PartFound
  <1>2. [out EXCEPT !.start_line.reason = str] = filled
    <2> DEFINE new == str
    <2>1. out = EmptyMessage(StatusLineOf(version, status, << >>)) /\ filled = EmptyMessage(StatusLineOf(version, status, new))
      OBVIOUS
    <2> HIDE DEF out, filled, new
    <2>2. [out EXCEPT !.start_line.reason = new] = filled
      BY <2>1, ReasonFilled
    <2> QED BY <2>2 DEF new
  <1>3. Handle(st, out, bytes) = HandleResponseReason(out, st, bytes)
    BY DEF Handle, Simple
  <1> HIDE DEF filled, st, next, out
  <1>4. HandleResponseReason(out, st, bytes) = Ok(filled, next, Len(bytes))
    <2> DEFINE found == TryFind(bytes, CRLF, MaxReasonSize)
    <2>1. found.error = "NONE" /\ found.value = str /\ found.offset = Len(bytes)
      BY <1>1 DEF Ended, Found
    <2> HIDE DEF found, bytes
    <2> QED BY <1>2, <2>1 DEF HandleResponseReason, found, next
  <1>5. next.at = "fields"
    BY DEF next, Fields
  <1>6. Reads(Place(st, out, d), bytes, Place(next, filled, d)) /\ IsPlace(Place(next, filled, d))
    <2>1. IsPlace(Place(st, out, d))
      BY DEF st, out
    <2>2. bytes \in Seq(Byte) /\ Len(bytes) # ContinueToken
      BY <1>1 DEF Ended
    <2> HIDE DEF bytes
    <2> QED BY <1>3, <1>4, <1>5, <2>1, <2>2, TokenReads
  <1> QED BY <1>1, <1>6 DEF st, out, next, filled, Ended

\* A line with a name and a value, taken apart.
NamedLine(key, value) == key \o COLON \o value

\* Name and value do not run into one another.
LEMMA LineParts ==
    ASSUME NEW key \in Seq(Byte), NEW value \in Seq(Byte), Apart(key, COLON), NEW line,
           line = NamedLine(key, value), NEW colon, colon = TryFindUnlimited(line, COLON)
    PROVE  /\ line \in Seq(Byte) /\ line # << >>
           /\ colon.error = "NONE" /\ colon.value = key
           /\ SubSeq(line, colon.offset + 1, Len(line)) = value
  <1>1. COLON \in Seq(Byte) /\ COLON # << >> /\ Len(COLON) = 1
    <2>1. COLON \in Seq(Byte) /\ Len(COLON) = 1
      BY Tokens
    <2>2. Len(COLON) # 0
      BY <2>1
    <2> QED BY <2>1, <2>2, EmptySeq
  <1>2. line = key \o (COLON \o value)
    BY <1>1, Associate, SMTT(20) DEF NamedLine, Associates
  <1>3. colon = Found(key, Len(key) + Len(COLON))
    BY <1>1, <1>2, FirstFound, ZenonT(30) DEF Apart
  <1>4. /\ key \o COLON \in Seq(Byte) /\ Len(key \o COLON) = Len(key) + Len(COLON)
        /\ line \in Seq(Byte) /\ Len(line) = Len(key \o COLON) + Len(value)
    <2> DEFINE front == key \o COLON
    <2>1. front \in Seq(Byte) /\ Len(front) = Len(key) + Len(COLON)
      BY <1>1, ConcatProperties
    <2>2. line = front \o value
      BY DEF NamedLine
    <2> HIDE DEF front
    <2>3. line \in Seq(Byte) /\ Len(line) = Len(front) + Len(value)
      BY <2>1, <2>2, ConcatProperties
    <2> QED BY <2>1, <2>3 DEF front
  <1>5. SubSeq(line, Len(key \o COLON) + 1, Len(line)) = value
    BY <1>4, JoinedParts DEF NamedLine
  <1>6. line # << >>
    <2>1. Len(key) \in Nat /\ Len(value) \in Nat
      BY LenProperties
    <2>2. Len(line) # 0
      BY <1>1, <1>4, <2>1
    <2> QED BY <1>4, <2>2, EmptySeq
  <1> QED BY <1>3, <1>4, <1>5, <1>6 DEF Found

\* A message with one field more.
WithField(out, key, value) ==
    [out EXCEPT !.fields = AddField(@, ToLowercase(key), StripWs(value))]

\* A line of a field is read as its name and its value.
LEMMA FieldReads ==
    ASSUME NEW key \in Seq(Byte), NEW value \in Seq(Byte), Apart(key, COLON),
           Apart(NamedLine(key, value), CRLF), NEW n \in Nat, NEW out, NEW d, NEW c,
           c = Place(Fields(n), out, d), IsPlace(c), NEW bytes,
           bytes = NamedLine(key, value) \o CRLF, n + Len(bytes) <= MaxFieldSize, NEW filled,
           filled = WithField(out, key, value), NEW e,
           e = Place(Fields(n + Len(bytes)), filled, d)
    PROVE  Reads(c, bytes, e) /\ IsPlace(e) /\ bytes \in Seq(Byte)
  <1> DEFINE line == NamedLine(key, value)
             colon == TryFindUnlimited(line, COLON)
             st == Fields(n)
             next == Fields(n + Len(bytes))
             left == MaxFieldSize - n
  <1>1. /\ line \in Seq(Byte) /\ line # << >>
        /\ colon.error = "NONE" /\ colon.value = key
        /\ SubSeq(line, colon.offset + 1, Len(line)) = value
    BY LineParts
  <1>2. /\ Len(line) \in Nat /\ Len(CRLF) = 2 /\ bytes \in Seq(Byte)
        /\ Len(bytes) = Len(line) + Len(CRLF)
    BY <1>1, Tokens, ConcatProperties, LenProperties
  <1>3. MaxFieldSize \in Nat /\ MaxFieldSize <= MaxStrSize - 2 /\ MaxStrSize \in Nat
    BY LimitsInRange, SizesInRange
  <1> HIDE DEF line
  <1>4. /\ left \in Nat /\ left <= MaxStrSize - 2 /\ Len(line) <= left
        /\ SizeSub(MaxFieldSize, n) = left
    <2>1. n <= MaxFieldSize /\ Len(line) + 2 <= MaxFieldSize - n
      BY <1>2, <1>3
    <2> QED BY <1>2, <1>3, <2>1 DEF SizeSub
  <1>5. Ended(line, CRLF, left)
    <2>1. left \in 0 .. MaxStrSize - 2 /\ Apart(line, CRLF)
      BY <1>3, <1>4 DEF line
    <2> HIDE DEF left
    <2> QED BY <1>1, <1>4, <2>1, PartFound
  <1>6. st.at = "fields" /\ st.consumed_bytes = n /\ Counted(st, Len(bytes)) = next
    BY DEF Fields, Counted
  <1>7. Handle(st, out, bytes) = HandleFields(out, st, bytes)
    BY <1>6 DEF Handle
  <1> HIDE DEF st, next, left, colon
  <1>8. HandleFields(out, st, bytes) = Ok(filled, next, Len(bytes))
    <2> DEFINE found == TryFind(bytes, CRLF, left)
    <2>1. bytes = line \o CRLF
      BY DEF line
    <2>2. found.error = "NONE" /\ found.value = line /\ found.offset = Len(bytes)
      BY <1>5, <2>1 DEF Ended, Found
    <2> HIDE DEF found
    <2>3. HandleFields(out, st, bytes)
            = Ok([out EXCEPT !.fields = AddField(@, ToLowercase(key), StripWs(value))],
                 Counted(st, Len(bytes)), Len(bytes))
      BY <1>1, <1>4, <1>6, <2>2 DEF HandleFields, found, colon
    <2> QED BY <1>6, <2>3 DEF WithField
  <1>9. Len(bytes) # ContinueToken
    BY <1>5 DEF Ended, line
  <1>10. next.at = "fields"
    BY DEF next, Fields
  <1> QED BY <1>2, <1>7, <1>8, <1>9, <1>10, TokenReads DEF st, next

\* How the length of a body is announced.
Announces(fields, length) == TransferEncoding \notin DOMAIN fields /\ BodyLength(fields) = length

\* When no body comes, the message is complete with its fields.
LEMMA HeadReads ==
    ASSUME NEW n \in 0 .. MaxFieldSize, NEW out, NEW d, NEW c, c = Place(Fields(n), out, d),
           IsPlace(c), NEW length \in 0 .. MaxBodySize, Announces(out.fields, length), NEW e,
           e = IF length = 0
               THEN Place(Simple("complete"), DefaultMessage, d \o << MessageEvent(out) >>)
               ELSE Place(Body(length), out, d)
    PROVE  Reads(c, CRLF, e) /\ IsPlace(e)
  <1> DEFINE st == Fields(n)
             left == MaxFieldSize - n
             next == IF length = 0 THEN Simple("complete") ELSE Body(length)
  <1>1. /\ left \in 0 .. MaxStrSize - 2 /\ SizeSub(MaxFieldSize, n) = left
    <2>1. /\ MaxFieldSize \in Nat /\ MaxFieldSize <= MaxStrSize - 2 /\ MaxStrSize \in Nat
      BY LimitsInRange, SizesInRange
    <2>2. n \in Nat /\ n <= MaxFieldSize
      BY <2>1
    <2> QED BY <2>1, <2>2 DEF SizeSub
  <1>2. CRLF \in Seq(Byte) /\ Len(CRLF) = 2 /\ << >> \o CRLF = CRLF
    BY Tokens, ConcatEmptySeq
  <1>3. Ended(<< >>, CRLF, left)
    <2>1. << >> \in Seq(Byte) /\ Len(<< >>) = 0
      BY EmptySeq
    <2>2. Apart(<< >>, CRLF)
      BY DEF Apart, Contains
    <2>3. Len(<< >>) <= left
      BY <1>1, <2>1
    <2> HIDE DEF left
    <2> QED BY <1>1, <2>1, <2>2, <2>3, PartFound
  <1>4. st.at = "fields" /\ st.consumed_bytes = n
    BY DEF Fields
  <1>5. Handle(st, out, CRLF) = HandleFields(out, st, CRLF)
    BY <1>4 DEF Handle
  <1> HIDE DEF st, left
  <1>6. HandleFields(out, st, CRLF) = FinalizeFields(out, 2)
    <2> DEFINE found == TryFind(CRLF, CRLF, left)
    <2>1. found.error = "NONE" /\ found.value = << >> /\ found.offset = 2
      BY <1>2, <1>3 DEF Ended, Found
    <2> HIDE DEF found
    <2> QED BY <1>1, <1>4, <2>1 DEF HandleFields, found
  <1>7. FinalizeFields(out, 2) = Ok(out, next, 2)
    <2>1. ~ IsChunked(out.fields) /\ BodyLength(out.fields) = length
      BY DEF Announces, IsChunked
    <2>2. MaxBodySize \in Nat
      BY HandlersAssumption, SizesInRange
    <2>3. length \in Nat /\ ~ (length > MaxBodySize)
      BY <2>2
    <2> QED BY <2>1, <2>3 DEF FinalizeFields
  <1>8. Len(CRLF) # ContinueToken /\ Handle(st, out, CRLF) = Ok(out, next, Len(CRLF))
    <2>1. Len(CRLF) # ContinueToken
      BY <1>2, <1>3 DEF Ended
    <2> QED BY <1>2, <1>5, <1>6, <1>7, <2>1
  <1>9. CASE length = 0
    <2>1. next = Simple("complete")
      BY <1>9
    <2>2. /\ Reads(c, CRLF, Place(next, Kept(out, next), d \o Heard(out, next)))
          /\ IsPlace(Place(next, Kept(out, next), d \o Heard(out, next)))
      BY <1>2, <1>8, HandlerReads DEF st
    <2>3. Kept(out, next) = DefaultMessage /\ Heard(out, next) = << MessageEvent(out) >>
      BY <2>1 DEF Kept, Heard, Simple
    <2> HIDE DEF next
    <2> QED BY <1>9, <2>1, <2>2, <2>3
  <1>10. CASE length # 0
    <2>1. next = Body(length) /\ next.at = "body"
      BY <1>10 DEF Body
    <2> HIDE DEF next
    <2>2. Reads(c, CRLF, Place(next, out, d)) /\ IsPlace(Place(next, out, d))
      BY <1>2, <1>8, <2>1, TokenReads DEF st
    <2> QED BY <1>10, <2>1, <2>2
  <1> QED BY <1>9, <1>10

\* The body completes the message.
LEMMA BodyReads ==
    ASSUME NEW body \in Seq(Byte), body # << >>, Len(body) <= MaxBodySize, NEW out, NEW d, NEW c,
           c = Place(Body(Len(body)), out, d), IsPlace(c), out.body = << >>, NEW e,
           e = Place(Simple("complete"), DefaultMessage,
                     d \o << MessageEvent([out EXCEPT !.body = body]) >>)
    PROVE  Reads(c, body, e) /\ IsPlace(e)
  <1> DEFINE l == Len(body)
             st == Body(l)
             next == Simple("complete")
             filled == [out EXCEPT !.body = body]
  <1>1. l \in Nat /\ l # 0 /\ Len(<< >>) = 0
    BY EmptySeq
  <1>2. l # ContinueToken
    <2>1. MaxBodySize \in 0 .. SizeModulus - 2 /\ SizeModulus \in Nat
      BY HandlersAssumption, SizesInRange
    <2> QED BY <1>1, <2>1 DEF ContinueToken
  <1>3. st.at = "body" /\ st.content_length = l
    BY DEF Body
  <1>4. Handle(st, out, body) = HandleBody(out, st, body)
    BY <1>3 DEF Handle
  <1>5. SubSeq(body, 1, l) = body /\ << >> \o body = body
    BY SubSeqFull, ConcatEmptySeq
  <1> HIDE DEF l, st
  <1>6. SizeSub(l, Len(out.body)) = l /\ Lesser(l, l) = l
    <2>1. Len(out.body) = 0
      BY <1>1
    <2> QED BY <1>1, <2>1 DEF SizeSub, Lesser
  <1>7. MessageTyped(out)
    BY PlaceParts, EmptySeq DEF st, l
  <1>8. [out EXCEPT !.body = @ \o SubSeq(body, 1, l)] = filled /\ filled.body = body
    BY <1>5, <1>7 DEF MessageTyped
  <1> HIDE DEF filled
  <1>9. HandleBody(out, st, body) = Ok(filled, next, l)
    <2>1. ~ (Len(filled.body) < l)
      BY <1>1, <1>8 DEF l
    <2> QED BY <1>3, <1>6, <1>8, <2>1 DEF HandleBody, l
  <1>10. Kept(filled, next) = DefaultMessage /\ Heard(filled, next) = << MessageEvent(filled) >>
    BY DEF Kept, Heard, Simple
  <1> HIDE DEF next
  <1>11. /\ Reads(c, body, Place(next, Kept(filled, next), d \o Heard(filled, next)))
         /\ IsPlace(Place(next, Kept(filled, next), d \o Heard(filled, next)))
    <2>1. c = Place(st, out, d) /\ IsPlace(Place(st, out, d))
      BY DEF st, l
    <2>2. Handle(st, out, body) = Ok(filled, next, Len(body)) /\ Len(body) # ContinueToken
      BY <1>2, <1>4, <1>9 DEF l
    <2> QED BY <2>1, <2>2, HandlerReads
  <1> QED BY <1>10, <1>11 DEF next, filled

\* After a message the next one begins at once.
LEMMA NextBegins ==
    ASSUME NEW d, NEW c, c = Place(Simple("complete"), DefaultMessage, d), IsPlace(c), NEW e,
           e = Place(Simple("request_method"), DefaultMessage, d)
    PROVE  Meets(c, e) /\ IsPlace(e)
  <1> DEFINE st == Simple("complete")
             next == Simple("request_method")
             r == Dispatch(c.state, c.output, c.pending)
  <1>1. /\ c.error = NoError /\ c.pending = << >> /\ c.state = st /\ c.output = DefaultMessage
        /\ c.delivered = d
    BY DEF Place
  <1>2. Handle(st, DefaultMessage, << >>) = HandleComplete(DefaultMessage, st, << >>)
    BY DEF Handle, Simple
  <1>3. HandleComplete(DefaultMessage, st, << >>) = Ok(DefaultMessage, next, ContinueToken)
    BY DEF HandleComplete, DefaultMessage, EmptyMessage, RequestLine
  <1>4. next.at = "request_method"
    BY DEF Simple
  <1> HIDE DEF st, next
  <1>5. /\ r.error = NoError /\ r.state = next /\ r.output = DefaultMessage
        /\ r.events = << >> /\ r.offset = ContinueToken
    BY <1>1, <1>2, <1>3, <1>4 DEF Dispatch, Outcome, Ok
  <1>6. Consumed(r) = 0
    BY <1>5 DEF Consumed
  <1> HIDE DEF r
  <1>7. SubSeq(c.pending, 0 + 1, Len(c.pending)) = << >>
    BY <1>1
  <1>8. c.delivered \o << >> = c.delivered
    BY <1>1, ListGrows DEF IsPlace
  <1>9. /\ Pass(c) = [pending |-> IF r.error = NoError
                                  THEN SubSeq(c.pending, Consumed(r) + 1, Len(c.pending))
                                  ELSE << >>,
                      state |-> r.state, output |-> r.output,
                      delivered |-> c.delivered \o r.events, error |-> r.error]
        /\ IsPlace(Pass(c))
    BY <1>1, PassOf, ZenonT(30) DEF r
  <1>10. Pass(c) = e
    BY <1>1, <1>5, <1>6, <1>7, <1>8, <1>9 DEF Place, next
  <1>11. Meets(c, Pass(c))
    <2>1. After(0, c) = c /\ After(0 + 1, c) = Pass(After(0, c)) /\ After(0, Pass(c)) = Pass(c)
      BY AfterSteps
    <2>2. 0 \in Nat /\ 0 + 1 \in Nat
      OBVIOUS
    <2> QED BY <2>1, <2>2 DEF Meets
  <1> QED BY <1>9, <1>10, <1>11

\* The end of a message and its body.
LEMMA EndReads ==
    ASSUME NEW body \in Seq(Byte), Len(body) <= MaxBodySize, NEW n \in 0 .. MaxFieldSize,
           NEW out, Announces(out.fields, Len(body)), NEW d, NEW c, c = Place(Fields(n), out, d),
           IsPlace(c), NEW e,
           e = Place(Simple("request_method"), DefaultMessage,
                     d \o << MessageEvent([out EXCEPT !.body = body]) >>)
    PROVE  Reads(c, CRLF \o body, e) /\ IsPlace(e)
  <1> DEFINE length == Len(body)
             filled == [out EXCEPT !.body = body]
             done == Place(Simple("complete"), DefaultMessage, d \o << MessageEvent(filled) >>)
             middle == IF length = 0
                       THEN Place(Simple("complete"), DefaultMessage, d \o << MessageEvent(out) >>)
                       ELSE Place(Body(length), out, d)
  <1>1. length \in 0 .. MaxBodySize /\ CRLF \in Seq(Byte)
    <2>1. MaxBodySize \in Nat /\ length \in Nat
      BY HandlersAssumption, SizesInRange, LenProperties
    <2> QED BY <2>1, Tokens
  <1>2. MessageTyped(out) /\ out.body = << >>
    <2>1. StateInv(Fields(n), out) /\ MessageTyped(out)
      BY <1>1, PlaceParts
    <2> QED BY <2>1 DEF StateInv, Fields
  <1>3. Reads(c, CRLF, middle) /\ IsPlace(middle)
    <2> HIDE DEF length
    <2>1. Announces(out.fields, length)
      BY DEF length
    <2> QED BY <1>1, <2>1, HeadReads
  <1>4. Reads(middle, body, done) /\ IsPlace(done)
    <2>1. CASE length = 0
      <3>1. body = << >>
        BY <2>1, EmptySeq
      <3>2. filled = out
        BY <1>2, <3>1 DEF MessageTyped
      <3>3. middle = done
        BY <2>1, <3>2
      <3>4. With(done, body) = done
        <4>1. << >> \o body = << >>
          BY <3>1, ConcatEmptySeq
        <4> QED BY <4>1 DEF Place, With
      <3> HIDE DEF middle, done
      <3> QED BY <1>3, <3>3, <3>4, MeetsItself DEF Reads
    <2>2. CASE length # 0
      <3>1. body # << >>
        BY <2>2, EmptySeq
      <3>2. middle = Place(Body(Len(body)), out, d)
        BY <2>2
      <3> HIDE DEF middle
      <3> QED BY <1>2, <1>3, <3>1, <3>2, BodyReads
    <2> QED BY <2>1, <2>2
  <1> HIDE DEF middle, filled, length
  <1>5. Reads(c, CRLF \o body, done)
    BY <1>1, <1>3, <1>4, ReadsBoth
  <1>6. Meets(done, e) /\ IsPlace(e)
    <2> DEFINE heard == d \o << MessageEvent(filled) >>
    <2>1. e = Place(Simple("request_method"), DefaultMessage, heard)
      BY DEF filled
    <2>2. done = Place(Simple("complete"), DefaultMessage, heard)
      OBVIOUS
    <2> HIDE DEF heard, done
    <2> QED BY <1>4, <2>1, <2>2, NextBegins
  <1> QED BY <1>5, <1>6, MeetsAgain DEF Reads

\* The lines of fields.
NamedLines(fields) == [i \in DOMAIN fields |-> NamedLine(fields[i].key, fields[i].value) \o CRLF]

\* Nothing in a field looks like the end of its name or of its line.
ApartFields(fields) ==
    \A i \in DOMAIN fields : /\ Apart(fields[i].key, COLON)
                             /\ Apart(NamedLine(fields[i].key, fields[i].value), CRLF)

\* kept[i] is what is kept of the first i fields.
Keeps(kept, fields) ==
    /\ kept[0] = << >>
    /\ \A i \in 1 .. Len(fields) :
          kept[i] = AddField(kept[i - 1], ToLowercase(fields[i].key), StripWs(fields[i].value))

\* A head whose fields are being read.
Gathered(line, fields) == [start_line |-> line, fields |-> fields, body |-> << >>]

\* Another field leaves the rest as it is.
LEMMA GatheredFields ==
    ASSUME NEW line, NEW old, NEW f
    PROVE  [Gathered(line, old) EXCEPT !.fields = f] = Gathered(line, f)
  <1> DEFINE out == Gathered(line, old)
  <1>1. out = [start_line |-> line, fields |-> old, body |-> << >>]
    BY DEF Gathered
  <1> HIDE DEF out
  <1>2. [out EXCEPT !.fields = f] = [start_line |-> line, fields |-> f, body |-> << >>]
    BY <1>1
  <1> QED BY <1>2 DEF Gathered, out

\* The lines of the fields are read, one after the other.
LEMMA FieldsRead ==
    ASSUME NEW fields \in Seq([key : Seq(Byte), value : Seq(Byte)]), ApartFields(fields),
           NEW kept, Keeps(kept, fields), NEW lines, lines = NamedLines(fields),
           Len(FlattenSeq(lines)) <= MaxFieldSize, NEW line, NEW d, NEW c,
           c = Place(Fields(0), EmptyMessage(line), d), IsPlace(c), NEW e,
           e = Place(Fields(Len(FlattenSeq(lines))), Gathered(line, kept[Len(fields)]), d)
    PROVE  /\ Reads(c, FlattenSeq(lines), e) /\ IsPlace(e)
           /\ lines \in Seq(Seq(Byte)) /\ FlattenSeq(lines) \in Seq(Byte)
  <1> DEFINE m == Len(fields)
             flat(k) == FlattenSeq(SubSeq(lines, 1, k))
             there(k) == Place(Fields(Len(flat(k))), Gathered(line, kept[k]), d)
             Arrives(k) == Reads(c, flat(k), there(k)) /\ IsPlace(there(k))
             P == {k \in Nat : k <= m => Arrives(k)}
  <1>1. /\ m \in Nat /\ DOMAIN fields = 1 .. m
        /\ \A i \in 1 .. m : fields[i].key \in Seq(Byte) /\ fields[i].value \in Seq(Byte)
    <2>1. \A i \in 1 .. m : fields[i] \in [key : Seq(Byte), value : Seq(Byte)]
      BY ElementOfSeq
    <2>2. m \in Nat /\ DOMAIN fields = 1 .. m
      BY LenProperties
    <2> QED BY <2>1, <2>2
  <1>2. \A i \in 1 .. m : NamedLine(fields[i].key, fields[i].value) \o CRLF \in Seq(Byte)
    BY <1>1, Tokens, ConcatProperties DEF NamedLine
  <1>3. /\ lines \in Seq(Seq(Byte)) /\ Len(lines) = m
        /\ \A i \in 1 .. m : lines[i] = NamedLine(fields[i].key, fields[i].value) \o CRLF
    <2>1. lines = [i \in 1 .. m |-> NamedLine(fields[i].key, fields[i].value) \o CRLF]
      BY <1>1 DEF NamedLines
    <2>2. lines \in [1 .. m -> Seq(Byte)] /\ m \in Nat
      BY <1>1, <1>2, <2>1
    <2> HIDE DEF m
    <2>3. lines \in Seq(Seq(Byte))
      BY <2>2, SeqDef
    <2>4. Len(lines) = m
      BY <1>1, <2>2, <2>3, LenProperties
    <2> QED BY <2>1, <2>3, <2>4
  <1>4. /\ FlattenSeq(lines) \in Seq(Byte) /\ flat(m) = FlattenSeq(lines)
        /\ \A k \in 0 .. m : /\ flat(k) \in Seq(Byte)
                             /\ \E rest \in Seq(Byte) : FlattenSeq(lines) = flat(k) \o rest
    <2>1. SubSeq(lines, 1, m) = lines
      BY <1>3, SubSeqFull
    <2> HIDE DEF m
    <2>2. FlattenSeq(lines) \in Seq(Byte)
      BY <1>3, FlattenPrefix
    <2>3. \A k \in 0 .. Len(lines) :
             /\ FlattenSeq(SubSeq(lines, 1, k)) \in Seq(Byte)
             /\ \E rest \in Seq(Byte) : FlattenSeq(lines) = FlattenSeq(SubSeq(lines, 1, k)) \o rest
      BY <1>3, FlattenPrefix, Zenon
    <2> QED BY <1>3, <2>1, <2>2, <2>3
  <1>5. \A k \in 0 .. m - 1 : lines[k + 1] \in Seq(Byte) /\ flat(k + 1) = flat(k) \o lines[k + 1]
    BY <1>3, FlattenStep
  <1>6. \A k \in 0 .. m : Len(flat(k)) \in Nat /\ Len(flat(k)) <= MaxFieldSize
    <2> SUFFICES ASSUME NEW k \in 0 .. m PROVE Len(flat(k)) \in Nat /\ Len(flat(k)) <= MaxFieldSize
      OBVIOUS
    <2> DEFINE f == flat(k)
    <2>1. PICK rest \in Seq(Byte) : FlattenSeq(lines) = f \o rest
      BY <1>4
    <2>2. f \in Seq(Byte)
      BY <1>4
    <2> HIDE DEF f
    <2>3. Len(f) \in Nat /\ Len(rest) \in Nat /\ Len(FlattenSeq(lines)) = Len(f) + Len(rest)
      BY <2>1, <2>2, ConcatProperties, LenProperties
    <2>4. MaxFieldSize \in Nat
      BY LimitsInRange
    <2>5. Len(f) <= MaxFieldSize
      BY <2>3, <2>4
    <2> QED BY <2>3, <2>5 DEF f
  <1>7. 0 \in P
    <2>1. flat(0) = << >>
      <3>1. SubSeq(lines, 1, 0) = << >>
        BY SubSeqEmpty
      <3> QED BY <3>1, FlattenEmpty
    <2>2. there(0) = c
      <3>1. Gathered(line, kept[0]) = EmptyMessage(line)
        BY DEF Keeps, Gathered, EmptyMessage
      <3>2. Len(<< >>) = 0
        BY EmptySeq
      <3> HIDE DEF flat
      <3> QED BY <2>1, <3>1, <3>2
    <2>3. With(c, << >>) = c
      <3>1. << >> \o << >> = << >>
        BY ConcatEmptySeq
      <3> QED BY <3>1 DEF Place, With
    <2> HIDE DEF flat, there
    <2>4. Arrives(0)
      BY <2>1, <2>2, <2>3, MeetsItself DEF Reads
    <2> HIDE DEF Arrives
    <2> QED BY <2>4
  <1>8. \A k \in Nat : k \in P => k + 1 \in P
    <2> SUFFICES ASSUME NEW k \in Nat, k \in P, k + 1 <= m PROVE Arrives(k + 1)
      OBVIOUS
    <2>1. k \in 0 .. m - 1 /\ k \in 0 .. m /\ k + 1 \in 0 .. m /\ k + 1 \in 1 .. m /\ (k + 1) - 1 = k
      BY <1>1
    <2>2. Arrives(k)
      BY <1>1, <2>1
    <2> DEFINE key == fields[k + 1].key
               value == fields[k + 1].value
               bytes == lines[k + 1]
               n == Len(flat(k))
               out == Gathered(line, kept[k])
               filled == Gathered(line, kept[k + 1])
    <2>3. key \in Seq(Byte) /\ value \in Seq(Byte) /\ bytes = NamedLine(key, value) \o CRLF
      BY <1>1, <1>3, <2>1
    <2>4. Apart(key, COLON) /\ Apart(NamedLine(key, value), CRLF)
      BY <1>1, <2>1 DEF ApartFields
    <2>5. filled = WithField(out, key, value)
      <3> DEFINE old == kept[k]
                 new == kept[k + 1]
      <3>1. new = AddField(old, ToLowercase(key), StripWs(value))
        BY <2>1 DEF Keeps
      <3>2. out.fields = old
        BY DEF Gathered
      <3>3. \A f : [Gathered(line, old) EXCEPT !.fields = f] = Gathered(line, f)
        BY GatheredFields
      <3> HIDE DEF key, value, old, new
      <3>4. filled = Gathered(line, new) /\ out = Gathered(line, old)
        BY DEF old, new
      <3>5. WithField(out, key, value)
              = [out EXCEPT !.fields = AddField(old, ToLowercase(key), StripWs(value))]
        BY <3>2 DEF WithField
      <3> HIDE DEF out, filled
      <3> QED BY <3>1, <3>3, <3>4, <3>5
    <2>6. flat(k) \in Seq(Byte) /\ bytes \in Seq(Byte) /\ flat(k + 1) = flat(k) \o bytes
      BY <1>4, <1>5, <2>1
    <2>7. n \in Nat /\ n + Len(bytes) <= MaxFieldSize /\ Len(flat(k + 1)) = n + Len(bytes)
      <3>2. Len(flat(k)) \in Nat /\ Len(flat(k + 1)) <= MaxFieldSize
        BY <1>6, <2>1
      <3> HIDE DEF flat, bytes
      <3>1. Len(flat(k + 1)) = Len(flat(k)) + Len(bytes)
        BY <2>6, ConcatProperties
      <3> QED BY <3>1, <3>2
    <2>8. there(k) = Place(Fields(n), out, d) /\ there(k + 1) = Place(Fields(n + Len(bytes)), filled, d)
      <3> HIDE DEF flat, bytes, n
      <3>1. Len(flat(k)) = n /\ Len(flat(k + 1)) = n + Len(bytes)
        BY <2>7 DEF n
      <3> HIDE DEF out, filled
      <3> QED BY <3>1 DEF out, filled
    <2>9. IsPlace(there(k)) /\ Reads(c, flat(k), there(k))
      BY <2>2
    <2> HIDE DEF there, flat, key, value, bytes, n, out, filled
    <2>10. Reads(there(k), bytes, there(k + 1)) /\ IsPlace(there(k + 1))
      BY <2>3, <2>4, <2>5, <2>7, <2>8, <2>9, FieldReads, ZenonT(30)
    <2>11. Reads(c, flat(k) \o bytes, there(k + 1))
      BY <2>6, <2>9, <2>10, ReadsBoth
    <2> QED BY <2>6, <2>10, <2>11
  <1>9. m \in P
    <2> HIDE DEF P
    <2> QED BY <1>1, <1>7, <1>8, NatByInduction
  <1>10. Reads(c, flat(m), there(m)) /\ IsPlace(there(m))
    BY <1>1, <1>9
  <1>11. there(m) = e
    <2> HIDE DEF flat
    <2> QED BY <1>4
  <1> HIDE DEF there, flat
  <1> QED BY <1>3, <1>4, <1>10, <1>11

\* Six pieces, taken two at a time.
Joined(a, b, c, sp, end) == a \o sp \o b \o sp \o c \o end

\* A start line is three parts, each with its delimiter.
LEMMA JoinedInPairs ==
    ASSUME NEW a \in Seq(Byte), NEW b \in Seq(Byte), NEW c \in Seq(Byte),
           a \o SP \in Seq(Byte), b \o SP \in Seq(Byte), c \o CRLF \in Seq(Byte)
    PROVE  Joined(a, b, c, SP, CRLF) = ((a \o SP) \o (b \o SP)) \o (c \o CRLF)
  <1> DEFINE x == a \o SP
             y == (x \o b) \o SP
  <1>1. SP \in Seq(Byte) /\ CRLF \in Seq(Byte)
    BY Tokens
  <1>2. Joined(a, b, c, SP, CRLF) = (y \o c) \o CRLF
    BY DEF Joined
  <1>3. x \in Seq(Byte)
    OBVIOUS
  <1> HIDE DEF x
  <1>4. y = x \o (b \o SP)
    BY <1>1, <1>3, Associate, SMTT(20) DEF Associates
  <1>5. y \in Seq(Byte)
    BY <1>3, <1>4, ConcatProperties
  <1> HIDE DEF y
  <1>6. (y \o c) \o CRLF = y \o (c \o CRLF)
    BY <1>1, <1>5, Associate, SMTT(20) DEF Associates
  <1> QED BY <1>2, <1>4, <1>6 DEF x

\* The bytes of a request line are read.
LEMMA RequestLineReads ==
    ASSUME NEW method \in DOMAIN MethodFromStr, Apart(method, SP),
           NEW target \in DOMAIN TargetFromStr, target \in Seq(Byte), Apart(target, SP),
           Len(target) <= MaxTargetSize,
           NEW version \in DOMAIN VersionFromStr, Apart(version, CRLF), NEW d, NEW c,
           c = Place(Simple("request_method"), DefaultMessage, d), IsPlace(c), NEW e,
           e = Place(Fields(0), EmptyMessage(LineOf(MethodFromStr[method], TargetFromStr[target],
                                                    VersionFromStr[version])), d)
    PROVE  /\ Reads(c, Joined(method, target, version, SP, CRLF), e) /\ IsPlace(e)
           /\ Joined(method, target, version, SP, CRLF) \in Seq(Byte)
  <1> DEFINE m == MethodFromStr[method]
             t == TargetFromStr[target]
             v == VersionFromStr[version]
             p == Place(Simple("request_target"), EmptyMessage(LineOf(m, Unset, Unset)), d)
             q == Place(Simple("request_version"), EmptyMessage(LineOf(m, t, Unset)), d)
  <1>1. Reads(c, method \o SP, p) /\ IsPlace(p) /\ method \o SP \in Seq(Byte)
    BY MethodReads
  <1> HIDE DEF m
  <1>2. Reads(p, target \o SP, q) /\ IsPlace(q) /\ target \o SP \in Seq(Byte)
    BY <1>1, TargetReads
  <1> HIDE DEF t
  <1>3. Reads(q, version \o CRLF, e) /\ IsPlace(e) /\ version \o CRLF \in Seq(Byte)
    <2>1. e = Place(Fields(0), EmptyMessage(LineOf(m, t, VersionFromStr[version])), d)
      BY DEF m, t
    <2> QED BY <1>2, <2>1, VersionReads
  <1> HIDE DEF p, q
  <1>4. Reads(c, (method \o SP) \o (target \o SP), q)
    BY <1>1, <1>2, ReadsBoth
  <1>5. (method \o SP) \o (target \o SP) \in Seq(Byte)
    BY <1>1, <1>2, ConcatProperties
  <1>6. Reads(c, ((method \o SP) \o (target \o SP)) \o (version \o CRLF), e)
    BY <1>2, <1>3, <1>4, <1>5, ReadsBoth
  <1>7. method \in Seq(Byte) /\ version \in Seq(Byte)
    BY PartLengths
  <1>8. Joined(method, target, version, SP, CRLF)
          = ((method \o SP) \o (target \o SP)) \o (version \o CRLF)
    BY <1>1, <1>2, <1>3, <1>7, JoinedInPairs, ZenonT(30)
  <1>9. ((method \o SP) \o (target \o SP)) \o (version \o CRLF) \in Seq(Byte)
    BY <1>3, <1>5, ConcatProperties
  <1> QED BY <1>3, <1>6, <1>8, <1>9

\* The bytes of a status line are read.
LEMMA StatusLineReads ==
    ASSUME NEW version \in DOMAIN VersionFromStr, Apart(version, SP),
           NEW status \in Seq(Byte), Len(status) = StatusCodeLength, Apart(status, SP),
           NEW code, code # NoNumber, code = FromChars(status, 10, 2 ^ 16),
           NEW reason \in Seq(Byte), Apart(reason, CRLF), Len(reason) <= MaxReasonSize,
           NEW d, NEW c,
           c = Place(Simple("response_version"), EmptyMessage(ResponseLine), d), IsPlace(c), NEW e,
           e = Place(Fields(0), EmptyMessage(StatusLineOf(VersionFromStr[version], code, reason)), d)
    PROVE  /\ Reads(c, Joined(version, status, reason, SP, CRLF), e) /\ IsPlace(e)
           /\ Joined(version, status, reason, SP, CRLF) \in Seq(Byte)
  <1> DEFINE v == VersionFromStr[version]
             p == Place(Simple("response_status"), EmptyMessage(StatusLineOf(v, 0, << >>)), d)
             q == Place(Simple("response_reason"), EmptyMessage(StatusLineOf(v, code, << >>)), d)
  <1>1. Reads(c, version \o SP, p) /\ IsPlace(p) /\ version \o SP \in Seq(Byte)
    <2>1. ResponseLine = StatusLineOf(Unset, 0, << >>)
      BY DEF ResponseLine, StatusLineOf
    <2> QED BY <2>1, GivenVersionReads
  <1> HIDE DEF v
  <1>2. Reads(p, status \o SP, q) /\ IsPlace(q) /\ status \o SP \in Seq(Byte)
    BY <1>1, StatusReads
  <1>3. Reads(q, reason \o CRLF, e) /\ IsPlace(e) /\ reason \o CRLF \in Seq(Byte)
    <2>1. e = Place(Fields(0), EmptyMessage(StatusLineOf(v, code, reason)), d)
      BY DEF v
    <2> QED BY <1>2, <2>1, ReasonReads
  <1> HIDE DEF p, q
  <1>4. Reads(c, (version \o SP) \o (status \o SP), q)
    BY <1>1, <1>2, ReadsBoth
  <1>5. (version \o SP) \o (status \o SP) \in Seq(Byte)
    BY <1>1, <1>2, ConcatProperties
  <1>6. Reads(c, ((version \o SP) \o (status \o SP)) \o (reason \o CRLF), e)
    BY <1>2, <1>3, <1>4, <1>5, ReadsBoth
  <1>7. version \in Seq(Byte)
    BY PartLengths
  <1>8. Joined(version, status, reason, SP, CRLF)
          = ((version \o SP) \o (status \o SP)) \o (reason \o CRLF)
    BY <1>1, <1>2, <1>3, <1>7, JoinedInPairs
  <1>9. ((version \o SP) \o (status \o SP)) \o (reason \o CRLF) \in Seq(Byte)
    BY <1>3, <1>5, ConcatProperties
  <1> QED BY <1>3, <1>6, <1>8, <1>9

\* A message with its fields and its body.
Completed(line, fields, body) == [start_line |-> line, fields |-> fields, body |-> body]

\* A head that announces its body, within the limits.
HeadAnnounces(fields, kept, body) ==
    /\ fields \in Seq([key : Seq(Byte), value : Seq(Byte)])
    /\ ApartFields(fields)
    /\ Keeps(kept, fields)
    /\ Len(FlattenSeq(NamedLines(fields))) <= MaxFieldSize
    /\ body \in Seq(Byte)
    /\ Len(body) <= MaxBodySize
    /\ Announces(kept[Len(fields)], Len(body))

\* The bytes of a message.
Bytes(head, fields, body) == head \o FlattenSeq(NamedLines(fields)) \o CRLF \o body

\* The callbacks with that of a message.
Delivering(d, m) == d \o << MessageEvent(m) >>

\* The bytes of a whole message, from where its start line was read, are
\* delivered as that message.
LEMMA MessageReads ==
    ASSUME NEW fields, NEW kept, NEW body, HeadAnnounces(fields, kept, body),
           NEW head \in Seq(Byte), NEW line, NEW d, NEW b, NEW c, IsPlace(b), Reads(b, head, c),
           c = Place(Fields(0), EmptyMessage(line), d), IsPlace(c),
           NEW m, m = Completed(line, kept[Len(fields)], body),
           NEW e, e = Place(Simple("request_method"), DefaultMessage, Delivering(d, m))
    PROVE  /\ Reads(b, Bytes(head, fields, body), e) /\ IsPlace(e)
           /\ Bytes(head, fields, body) \in Seq(Byte)
  <1>0. /\ fields \in Seq([key : Seq(Byte), value : Seq(Byte)])
        /\ ApartFields(fields) /\ Keeps(kept, fields)
        /\ Len(FlattenSeq(NamedLines(fields))) <= MaxFieldSize
        /\ body \in Seq(Byte) /\ Len(body) <= MaxBodySize
        /\ Announces(kept[Len(fields)], Len(body))
    BY DEF HeadAnnounces
  <1> DEFINE lines == NamedLines(fields)
             flat == FlattenSeq(lines)
             n == Len(flat)
             all == kept[Len(fields)]
             out == Gathered(line, all)
             p == Place(Fields(n), out, d)
  <1>1. Reads(c, flat, p) /\ IsPlace(p) /\ flat \in Seq(Byte)
    <2> HIDE DEF lines
    <2>1. lines = NamedLines(fields) /\ Len(FlattenSeq(lines)) <= MaxFieldSize
      BY <1>0 DEF lines
    <2> QED BY <1>0, <2>1, FieldsRead
  <1>2. n \in 0 .. MaxFieldSize
    <2>1. n \in Nat /\ MaxFieldSize \in Nat
      BY <1>1, LimitsInRange, LenProperties
    <2>2. n <= MaxFieldSize
      BY <1>0
    <2> HIDE DEF n
    <2> QED BY <2>1, <2>2
  <1>3. [out EXCEPT !.body = body] = Completed(line, all, body) /\ out.fields = all
    <2> HIDE DEF all
    <2>1. out = [start_line |-> line, fields |-> all, body |-> << >>]
      BY DEF Gathered
    <2> HIDE DEF out
    <2>2. [out EXCEPT !.body = body] = [start_line |-> line, fields |-> all, body |-> body]
      BY <2>1
    <2> QED BY <2>1, <2>2 DEF Completed
  <1> HIDE DEF lines, flat, n, all, out
  <1>4. Reads(p, CRLF \o body, e) /\ IsPlace(e)
    <2>1. /\ e = Place(Simple("request_method"), DefaultMessage,
                       d \o << MessageEvent([out EXCEPT !.body = body]) >>)
          /\ Announces(out.fields, Len(body))
      BY <1>0, <1>3 DEF all, Delivering
    <2> QED BY <1>0, <1>1, <1>2, <2>1, EndReads
  <1>5. CRLF \in Seq(Byte) /\ CRLF \o body \in Seq(Byte) /\ head \o flat \in Seq(Byte)
    BY <1>0, <1>1, Tokens, ConcatProperties
  <1> HIDE DEF p
  <1>6. Reads(b, head \o flat, p)
    BY <1>1, ReadsBoth
  <1>7. Reads(b, (head \o flat) \o (CRLF \o body), e) /\ (head \o flat) \o (CRLF \o body) \in Seq(Byte)
    BY <1>1, <1>4, <1>5, <1>6, ReadsBoth, ConcatProperties
  <1>8. ((head \o flat) \o CRLF) \o body = (head \o flat) \o (CRLF \o body)
    <2> DEFINE x == head \o flat
    <2>1. x \in Seq(Byte)
      BY <1>5
    <2> HIDE DEF x
    <2>2. (x \o CRLF) \o body = x \o (CRLF \o body)
      <3>1. CRLF \in Seq(Byte)
        BY <1>5
      <3>2. Associates(x, CRLF, body)
        BY <1>0, <2>1, <3>1, Associate
      <3> QED BY <3>2 DEF Associates
    <2> QED BY <2>2 DEF x
  <1> QED BY <1>4, <1>7, <1>8 DEF Bytes, flat, lines

-----------------------------------------------------------------------------
(* For the modules that compose machines, what is still to come. *)

\* Fields as they are kept.
IsKept(f, fields, n) ==
    f = [i \in 0 .. n |-> IF i = 0 THEN << >>
                          ELSE AddField(f[i - 1], ToLowercase(fields[i].key),
                                        StripWs(fields[i].value))]

\* They can be kept.
LEMMA KeptExists == ASSUME NEW fields PROVE \A n \in Nat : \E f : IsKept(f, fields, n)
  <1> DEFINE More(old, i) == AddField(old, ToLowercase(fields[i].key), StripWs(fields[i].value))
             P == {n \in Nat : \E f : IsKept(f, fields, n)}
  <1>0. \A f, n : IsKept(f, fields, n)
                    <=> f = [i \in 0 .. n |-> IF i = 0 THEN << >> ELSE More(f[i - 1], i)]
    BY DEF IsKept
  <1> HIDE DEF More
  <1>1. 0 \in P
    <2> DEFINE f == [i \in 0 .. 0 |-> << >>]
    <2>1. \A i \in 0 .. 0 : i = 0
      OBVIOUS
    <2>2. [i \in 0 .. 0 |-> IF i = 0 THEN << >> ELSE More(f[i - 1], i)] = [i \in 0 .. 0 |-> << >>]
      BY <2>1
    <2>3. IsKept(f, fields, 0)
      BY <1>0, <2>2
    <2> QED BY <2>3
  <1>2. ASSUME NEW n \in Nat, n \in P PROVE n + 1 \in P
    <2>1. PICK f : IsKept(f, fields, n)
      BY <1>2
    <2> DEFINE g == [i \in 0 .. n + 1 |-> IF i <= n THEN f[i] ELSE More(f[n], n + 1)]
               h == [i \in 0 .. n + 1 |-> IF i = 0 THEN << >> ELSE More(g[i - 1], i)]
    <2>10. \A i \in 0 .. n : f[i] = IF i = 0 THEN << >> ELSE More(f[i - 1], i)
      BY <1>0, <2>1
    <2>2. ASSUME NEW i \in 0 .. n + 1 PROVE g[i] = h[i]
      <3>1. CASE i = 0
        <4>1. 0 \in 0 .. n /\ 0 <= n /\ 0 \in 0 .. n + 1
          BY <1>2
        <4>2. f[0] = << >>
          BY <2>10, <4>1
        <4> QED BY <3>1, <4>1, <4>2
      <3>2. CASE i \in 1 .. n
        <4>1. i \in 0 .. n /\ i # 0 /\ i <= n /\ i - 1 <= n /\ i - 1 \in 0 .. n + 1
          BY <1>2, <3>2
        <4>2. f[i] = More(f[i - 1], i)
          BY <2>10, <4>1
        <4>3. g[i] = f[i] /\ g[i - 1] = f[i - 1]
          BY <2>2, <4>1
        <4> QED BY <2>2, <4>1, <4>2, <4>3
      <3>3. CASE i = n + 1
        <4>1. i # 0 /\ ~ (i <= n) /\ i - 1 = n /\ n <= n /\ n \in 0 .. n + 1
          BY <1>2, <3>3
        <4>2. g[i] = More(f[n], i) /\ g[n] = f[n]
          BY <2>2, <3>3, <4>1
        <4> QED BY <2>2, <4>1, <4>2
      <3>4. i = 0 \/ i \in 1 .. n \/ i = n + 1
        BY <1>2, <2>2
      <3> QED BY <3>1, <3>2, <3>3, <3>4
    <2>3. g = h
      <3>1. /\ g = [i \in 0 .. n + 1 |-> g[i]] /\ h = [i \in 0 .. n + 1 |-> h[i]]
        OBVIOUS
      <3> HIDE DEF g, h
      <3> QED BY <2>2, <3>1
    <2>4. IsKept(g, fields, n + 1)
      BY <1>0, <2>3
    <2> QED BY <1>2, <2>4
  <1> HIDE DEF P
  <1>3. Nat \subseteq P
    BY <1>1, <1>2, NatByInduction
  <1> QED BY <1>3 DEF P

\* What that means.
LEMMA KeptMeans ==
    ASSUME NEW fields, Len(fields) \in Nat, NEW f, IsKept(f, fields, Len(fields))
    PROVE  Keeps(f, fields)
  <1> DEFINE n == Len(fields)
             More(old, i) == AddField(old, ToLowercase(fields[i].key), StripWs(fields[i].value))
  <1>1. f = [i \in 0 .. n |-> IF i = 0 THEN << >> ELSE More(f[i - 1], i)]
    BY DEF IsKept
  <1> HIDE DEF More
  <1>2. f[0] = << >> /\ \A i \in 1 .. n : f[i] = More(f[i - 1], i)
    <2>1. 0 \in 0 .. n /\ \A i \in 1 .. n : i \in 0 .. n /\ i # 0
      OBVIOUS
    <2> HIDE DEF n
    <2> QED BY <1>1, <2>1
  <1> QED BY <1>2 DEF Keeps, More

\* The peer sends more.
Adds(more) ==
    /\ more \in Seq(Byte)
    /\ stream' = stream \o more
    /\ stream' \in Streams
    /\ UNCHANGED << fed, phase, input, remainder, state, output, delivered, error >>

\* A machine that does not run is as good with a longer stream.
LEMMA StreamGoesOn ==
    ASSUME NEW isRequest \in BOOLEAN, IInv, EventsInv, SegmentsInvFor(isRequest),
           NEW more, Adds(more)
    PROVE  IInv' /\ EventsInv' /\ SegmentsInvFor(isRequest)'
  <1>0. /\ more \in Seq(Byte) /\ stream' = stream \o more /\ stream' \in Streams
        /\ UNCHANGED << fed, phase, input, remainder, state, output, delivered, error >>
    BY DEF Adds
  <1>1. stream \in Seq(Byte) /\ fed \in 0 .. Len(stream)
    BY MachineAssumption DEF IInv, TypeOK
  <1>2. Len(stream \o more) = Len(stream) + Len(more) /\ Len(stream) \in Nat /\ Len(more) \in Nat
    BY <1>0, <1>1, ConcatProperties, LenProperties
  <1>3. fed' \in 0 .. Len(stream')
    <2> DEFINE total == Len(stream \o more)
    <2>1. fed \in 0 .. total
      <3> HIDE DEF total
      <3> QED BY <1>1, <1>2 DEF total
    <2> QED BY <1>0, <2>1
  <1>4. SoFar' = SoFar
    <2>1. fed \in 0 .. Len(stream) /\ 0 \in 0 .. fed /\ 0 + 1 = 1
      BY <1>1, <1>2
    <2>2. SubSeq(stream \o more, 0 + 1, fed) = SubSeq(stream, 0 + 1, fed)
      BY <1>0, <1>1, <2>1, PieceOfFirst
    <2> QED BY <1>0, <2>1, <2>2 DEF SoFar
  <1>5. TypeOK'
    BY <1>0, <1>3 DEF IInv, TypeOK, OffsetInBuffer
  <1>6. IInv'
    BY <1>0, <1>5 DEF IInv, RemainderBounded, View
  <1>7. EventsInv'
    BY <1>0 DEF EventsInv, DeliveredIsList, CallbackOrder, BodiesFramed
  <1>8. Now' = Now
    BY <1>0 DEF Now, Pending, View
  <1>9. SegmentsInvFor(isRequest)'
    BY <1>0, <1>4, <1>8 DEF SegmentsInvFor
  <1> QED BY <1>6, <1>7, <1>9

\* The one list of callbacks begins with the other.
GoesOn(list, all) ==
    \E S : /\ list \in Seq(S) /\ all \in Seq(S)
           /\ Len(list) <= Len(all)
           /\ \A i \in 1 .. Len(list) : all[i] = list[i]

\* A pass makes one callback or none.
LEMMA PassDelivers ==
    ASSUME NEW at, IsPlace(at), at.error = NoError
    PROVE  \E events : /\ events = << >> \/ \E e : events = << e >>
                       /\ Pass(at).delivered = at.delivered \o events
  <1>1. PICK r : r = Dispatch(at.state, at.output, at.pending)
    OBVIOUS
  <1>2. r.events = << >> \/ \E e : r.events = << e >>
    BY <1>1, FewEvents
  <1> DEFINE left == IF r.error = NoError
                     THEN SubSeq(at.pending, Consumed(r) + 1, Len(at.pending))
                     ELSE << >>
             more == at.delivered \o r.events
  <1>3. Pass(at) = [pending |-> left, state |-> r.state, output |-> r.output,
                    delivered |-> more, error |-> r.error]
    BY <1>1, PassOf
  <1> HIDE DEF left, more
  <1>4. Pass(at).delivered = more
    BY <1>3
  <1> QED BY <1>2, <1>4 DEF more

\* Passes only add callbacks.
LEMMA PassesAdd ==
    ASSUME NEW at, IsPlace(at)
    PROVE  \A n \in Nat : GoesOn(at.delivered, After(n, at).delivered)
  <1> DEFINE P == {n \in Nat : GoesOn(at.delivered, After(n, at).delivered)}
  <1>1. 0 \in P
    <2>1. PICK S : at.delivered \in Seq(S)
      BY DEF IsPlace
    <2>2. Len(at.delivered) \in Nat
      BY <2>1, LenProperties
    <2>3. GoesOn(at.delivered, at.delivered)
      BY <2>1, <2>2 DEF GoesOn
    <2> QED BY <2>3, AfterSteps
  <1>2. ASSUME NEW n \in Nat, n \in P PROVE n + 1 \in P
    <2> DEFINE here == After(n, at)
    <2>1. IsPlace(here) /\ After(n + 1, at) = Pass(here)
      BY <1>2, AfterIsPlace, AfterSteps
    <2>2. GoesOn(at.delivered, here.delivered)
      BY <1>2
    <2> HIDE DEF here
    <2>3. CASE here.error # NoError
      <3>1. Pass(here) = here
        BY <2>3 DEF Pass
      <3> QED BY <1>2, <2>1, <2>2, <3>1
    <2>4. CASE here.error = NoError
      <3>1. PICK new : (new = << >> \/ \E e : new = << e >>)
                       /\ Pass(here).delivered = here.delivered \o new
        BY <2>1, <2>4, PassDelivers
      <3> DEFINE old == here.delivered
                 first == at.delivered
      <3>3. PICK S : first \in Seq(S) /\ old \in Seq(S) /\ Len(first) <= Len(old)
                     /\ \A i \in 1 .. Len(first) : old[i] = first[i]
        BY <2>2 DEF GoesOn
      <3> HIDE DEF old, first
      <3>4. \E T : old \o new \in Seq(T) /\ first \in Seq(T) /\ old \in Seq(T) /\ new \in Seq(T)
        <4>1. CASE new = << >>
          <5>1. old \o new = old
            BY <3>3, <4>1, ConcatEmptySeq
          <5>2. << >> \in Seq(S)
            OBVIOUS
          <5> QED BY <3>3, <4>1, <5>1, <5>2
        <4>2. CASE \E e : new = << e >>
          <5>1. PICK e : new = << e >>
            BY <4>2
          <5> DEFINE T == S \cup {e}
          <5>2. old \in Seq(T) /\ new \in Seq(T) /\ first \in Seq(T)
            BY <3>3, <5>1
          <5> HIDE DEF T
          <5>3. old \o new \in Seq(T)
            BY <5>2, ConcatProperties
          <5> QED BY <5>2, <5>3
        <4>3. new = << >> \/ \E e : new = << e >>
          BY <3>1
        <4> QED BY <4>1, <4>2, <4>3
      <3>5. PICK T : old \o new \in Seq(T) /\ first \in Seq(T) /\ old \in Seq(T) /\ new \in Seq(T)
        BY <3>4
      <3> DEFINE both == old \o new
      <3>6. /\ Len(both) = Len(old) + Len(new) /\ Len(old) \in Nat /\ Len(new) \in Nat
            /\ Len(first) \in Nat /\ \A i \in 1 .. Len(old) : both[i] = old[i]
        BY <3>5, ConcatProperties, LenProperties
      <3>7. both \in Seq(T)
        BY <3>5
      <3> HIDE DEF both
      <3>8. Len(first) <= Len(both) /\ \A i \in 1 .. Len(first) : both[i] = first[i]
        BY <3>3, <3>6
      <3>9. GoesOn(first, both)
        BY <3>5, <3>7, <3>8 DEF GoesOn
      <3>10. GoesOn(at.delivered, After(n + 1, at).delivered)
        BY <2>1, <3>1, <3>9 DEF both, old, first
      <3> QED BY <1>2, <3>10
    <2> QED BY <2>3, <2>4
  <1> HIDE DEF P
  <1>3. Nat \subseteq P
    BY <1>1, <1>2, NatByInduction
  <1> QED BY <1>3 DEF P

\* When all bytes, those to come among them, lead to a place without an error
\* where nothing is left to do, there is no error on the way, and the callbacks
\* made are the first of those made there.
LEMMA OnTheWay ==
    ASSUME NEW isRequest \in BOOLEAN, IInv, EventsInv, SegmentsInvFor(isRequest),
           NEW rest \in Seq(Byte), NEW final, Pass(final) = final, final.error = NoError,
           Meets(BegunFor(isRequest, SoFar \o rest), final)
    PROVE  error = NoError /\ GoesOn(delivered, final.delivered)
  <1> DEFINE here == With(Now, rest)
  <1>1. IsPlace(Now) /\ SoFar \in Seq(Byte) /\ Now.error = error /\ Now.delivered = delivered
    BY NowIsPlace DEF Now
  <1>2. /\ IsPlace(BegunFor(isRequest, SoFar))
        /\ With(BegunFor(isRequest, SoFar), rest) = BegunFor(isRequest, SoFar \o rest)
    BY <1>1, BegunForIsPlace
  <1>3. Meets(here, BegunFor(isRequest, SoFar \o rest))
    <2>1. Meets(Now, BegunFor(isRequest, SoFar))
      BY DEF SegmentsInvFor
    <2>2. Meets(here, With(BegunFor(isRequest, SoFar), rest))
      BY <1>1, <1>2, <2>1, WithMeets
    <2> QED BY <1>2, <2>2
  <1>4. IsPlace(here) /\ here.error = error
    BY <1>1, WithIsPlace
  <1>5. here.delivered = delivered
    BY <1>1 DEF With
  <1> HIDE DEF here
  <1>6. Meets(here, final)
    BY <1>3, MeetsAgain
  <1>7. PICK m \in Nat, n \in Nat : After(m, here) = After(n, final)
    BY <1>6 DEF Meets
  <1>8. After(m, here) = final
    BY <1>7, AfterStays
  <1>9. error = NoError
    <2> SUFFICES ASSUME error # NoError PROVE FALSE
      OBVIOUS
    <2>1. Pass(here) = here
      BY <1>4 DEF Pass
    <2>2. After(m, here) = here
      BY <1>7, <2>1, AfterStays
    <2> QED BY <1>4, <1>8, <2>2
  <1>10. GoesOn(here.delivered, After(m, here).delivered)
    BY <1>4, <1>7, PassesAdd
  <1> QED BY <1>5, <1>8, <1>9, <1>10

\* A step makes one callback or none.
LEMMA OneOrNone ==
    ASSUME DeliveredIsList, Next
    PROVE  delivered' = delivered \/ \E e : delivered' = delivered \o << e >>
  <1>1. ASSUME NEW bytes, Apply(Dispatch(state, output, bytes))
        PROVE  delivered' = delivered \/ \E e : delivered' = delivered \o << e >>
    <2> DEFINE r == Dispatch(state, output, bytes)
    <2>1. r.events = << >> \/ \E e : r.events = << e >>
      BY FewEvents
    <2>2. delivered' = delivered \o r.events
      BY <1>1 DEF Apply
    <2> HIDE DEF r
    <2>3. delivered \o << >> = delivered
      BY ConcatEmptySeq DEF DeliveredIsList
    <2> QED BY <2>1, <2>2, <2>3
  <1>2. CASE UNCHANGED delivered
    BY <1>2
  <1> QED BY <1>1, <1>2 DEF Next, Running, DirectStep, DirectDone, Merge, BufferedStep, Call

-----------------------------------------------------------------------------
(* Messages that arrive one after the other. *)

\* The place at which a message begins.
Begin(isRequest, d) == Place(StartStateFor(isRequest), StartMessageFor(isRequest), d)

\* Wherever it begins with these bytes, it is delivered and the next one begins.
Arrives(isRequest, bytes, message) ==
    /\ bytes \in Seq(Byte)
    /\ \A d : IsPlace(Begin(isRequest, d)) =>
                 /\ Reads(Begin(isRequest, d), bytes, Begin(TRUE, Delivering(d, message)))
                 /\ IsPlace(Begin(TRUE, Delivering(d, message)))

\* The messages begin as their first lines do.
LEMMA BeginsAs ==
    ASSUME NEW d
    PROVE  /\ Begin(TRUE, d) = Place(Simple("request_method"), DefaultMessage, d)
           /\ Begin(FALSE, d) = Place(Simple("response_version"), EmptyMessage(ResponseLine), d)
  BY DEF Begin, StartStateFor, StartMessageFor, DefaultMessage

\* A head whose start line is read makes a message arrive.
LEMMA FramedArrives ==
    ASSUME NEW isRequest \in BOOLEAN, NEW fields, NEW kept, NEW body, HeadAnnounces(fields, kept, body),
           NEW line, NEW head \in Seq(Byte),
           \A d, c : /\ IsPlace(Begin(isRequest, d))
                     /\ c = Place(Fields(0), EmptyMessage(line), d)
                     => Reads(Begin(isRequest, d), head, c) /\ IsPlace(c)
    PROVE  Arrives(isRequest, Bytes(head, fields, body), Completed(line, kept[Len(fields)], body))
  <1> DEFINE m == Completed(line, kept[Len(fields)], body)
             bytes == Bytes(head, fields, body)
  <1>1. /\ fields \in Seq([key : Seq(Byte), value : Seq(Byte)])
        /\ ApartFields(fields) /\ Keeps(kept, fields)
        /\ Len(FlattenSeq(NamedLines(fields))) <= MaxFieldSize
        /\ body \in Seq(Byte) /\ Len(body) <= MaxBodySize
        /\ Announces(kept[Len(fields)], Len(body))
    BY DEF HeadAnnounces
  <1>2. ASSUME NEW d, IsPlace(Begin(isRequest, d))
        PROVE  /\ Reads(Begin(isRequest, d), bytes, Begin(TRUE, Delivering(d, m)))
               /\ IsPlace(Begin(TRUE, Delivering(d, m)))
               /\ bytes \in Seq(Byte)
    <2>1. PICK c : c = Place(Fields(0), EmptyMessage(line), d)
      OBVIOUS
    <2>2. PICK b : b = Begin(isRequest, d)
      OBVIOUS
    <2>3. Reads(b, head, c) /\ IsPlace(c) /\ IsPlace(b)
      BY <1>2, <2>1, <2>2
    <2> HIDE DEF m, bytes
    <2>4. PICK g : g = Place(Simple("request_method"), DefaultMessage, Delivering(d, m))
      OBVIOUS
    <2>5. g = Begin(TRUE, Delivering(d, m))
      BY <2>4, BeginsAs
    <2>6. m = Completed(line, kept[Len(fields)], body) /\ bytes = Bytes(head, fields, body)
      BY DEF m, bytes
    <2>7. /\ Reads(b, Bytes(head, fields, body), g) /\ IsPlace(g)
          /\ Bytes(head, fields, body) \in Seq(Byte)
      BY <1>2, <2>1, <2>3, <2>4, <2>6, MessageReads
    <2> QED BY <2>2, <2>5, <2>6, <2>7
  <1>3. bytes \in Seq(Byte)
    <2> DEFINE lines == FlattenSeq(NamedLines(fields))
    <2>1. /\ NamedLines(fields) \in Seq(Seq(Byte)) /\ CRLF \in Seq(Byte)
      <3>1. ASSUME NEW i \in DOMAIN fields
            PROVE  NamedLine(fields[i].key, fields[i].value) \o CRLF \in Seq(Byte)
        <4> DEFINE key == fields[i].key
                   value == fields[i].value
        <4>1. fields[i] \in [key : Seq(Byte), value : Seq(Byte)]
          BY <1>1, <3>1, LenProperties, ElementOfSeq
        <4>2. key \in Seq(Byte) /\ value \in Seq(Byte)
          BY <4>1
        <4> HIDE DEF key, value
        <4>3. COLON \in Seq(Byte) /\ CRLF \in Seq(Byte)
          BY Tokens
        <4>4. NamedLine(key, value) \in Seq(Byte)
          BY <4>2, <4>3, ConcatProperties DEF NamedLine
        <4> QED BY <4>3, <4>4, ConcatProperties DEF key, value
      <3>2. DOMAIN fields = 1 .. Len(fields) /\ Len(fields) \in Nat
        BY <1>1, LenProperties
      <3>3. CRLF \in Seq(Byte)
        BY Tokens
      <3> QED BY <3>1, <3>2, <3>3 DEF NamedLines
    <2>2. lines \in Seq(Byte)
      BY <2>1, FlattenPrefix
    <2> HIDE DEF lines
    <2>3. head \o lines \in Seq(Byte)
      BY <2>2, ConcatProperties
    <2>4. head \o lines \o CRLF \in Seq(Byte)
      BY <2>1, <2>3, ConcatProperties
    <2>5. head \o lines \o CRLF \o body \in Seq(Byte)
      BY <1>1, <2>4, ConcatProperties
    <2> QED BY <2>5 DEF Bytes, lines
  <1> HIDE DEF m, bytes
  <1>4. \A d : IsPlace(Begin(isRequest, d)) =>
                  /\ Reads(Begin(isRequest, d), bytes, Begin(TRUE, Delivering(d, m)))
                  /\ IsPlace(Begin(TRUE, Delivering(d, m)))
    BY <1>2
  <1>5. Arrives(isRequest, bytes, m)
    BY <1>3, <1>4 DEF Arrives
  <1> QED BY <1>5 DEF m, bytes

\* A request arrives.
LEMMA RequestArrives ==
    ASSUME NEW method \in DOMAIN MethodFromStr, Apart(method, SP),
           NEW target \in DOMAIN TargetFromStr, target \in Seq(Byte), Apart(target, SP),
           Len(target) <= MaxTargetSize,
           NEW version \in DOMAIN VersionFromStr, Apart(version, CRLF),
           NEW fields, NEW kept, NEW body, HeadAnnounces(fields, kept, body),
           NEW head, head = Joined(method, target, version, SP, CRLF),
           NEW line, line = LineOf(MethodFromStr[method], TargetFromStr[target],
                                   VersionFromStr[version])
    PROVE  Arrives(TRUE, Bytes(head, fields, body), Completed(line, kept[Len(fields)], body))
  <1>1. ASSUME NEW d, IsPlace(Begin(TRUE, d)),
               NEW c, c = Place(Fields(0), EmptyMessage(line), d)
        PROVE  Reads(Begin(TRUE, d), head, c) /\ IsPlace(c)
    <2>1. PICK b : b = Place(Simple("request_method"), DefaultMessage, d)
      OBVIOUS
    <2>2. b = Begin(TRUE, d) /\ IsPlace(b)
      BY <1>1, <2>1, BeginsAs
    <2>3. Reads(b, Joined(method, target, version, SP, CRLF), c) /\ IsPlace(c)
      BY <1>1, <2>1, <2>2, RequestLineReads
    <2> QED BY <2>2, <2>3
  <1>2. \A d, c : /\ IsPlace(Begin(TRUE, d))
                  /\ c = Place(Fields(0), EmptyMessage(line), d)
                  => Reads(Begin(TRUE, d), head, c) /\ IsPlace(c)
    BY <1>1
  <1>3. head \in Seq(Byte)
    <2>1. method \in Seq(Byte) /\ version \in Seq(Byte)
      BY PartLengths
    <2>2. SP \in Seq(Byte) /\ CRLF \in Seq(Byte)
      BY Tokens
    <2>3. method \o SP \o target \o SP \o version \o CRLF \in Seq(Byte)
      BY <2>1, <2>2, ConcatProperties
    <2> QED BY <2>3 DEF Joined
  <1> QED BY <1>2, <1>3, FramedArrives

\* The number that the text of a status stands for.
StatusRead(str) == FromChars(str, 10, 2 ^ 16)

\* A response arrives.
LEMMA ResponseArrives ==
    ASSUME NEW version \in DOMAIN VersionFromStr, Apart(version, SP),
           NEW status \in Seq(Byte), Len(status) = StatusCodeLength, Apart(status, SP),
           NEW code, code # NoNumber, code = StatusRead(status),
           NEW reason \in Seq(Byte), Apart(reason, CRLF), Len(reason) <= MaxReasonSize,
           NEW fields, NEW kept, NEW body, HeadAnnounces(fields, kept, body),
           NEW head, head = Joined(version, status, reason, SP, CRLF),
           NEW line, line = StatusLineOf(VersionFromStr[version], code, reason)
    PROVE  Arrives(FALSE, Bytes(head, fields, body), Completed(line, kept[Len(fields)], body))
  <1>1. ASSUME NEW d, IsPlace(Begin(FALSE, d)),
               NEW c, c = Place(Fields(0), EmptyMessage(line), d)
        PROVE  Reads(Begin(FALSE, d), head, c) /\ IsPlace(c)
    <2>1. PICK b : b = Place(Simple("response_version"), EmptyMessage(ResponseLine), d)
      OBVIOUS
    <2>2. b = Begin(FALSE, d) /\ IsPlace(b)
      BY <1>1, <2>1, BeginsAs
    <2>3. Reads(b, Joined(version, status, reason, SP, CRLF), c) /\ IsPlace(c)
      BY <1>1, <2>1, <2>2, StatusLineReads DEF StatusRead
    <2> QED BY <2>2, <2>3
  <1>2. \A d, c : /\ IsPlace(Begin(FALSE, d))
                  /\ c = Place(Fields(0), EmptyMessage(line), d)
                  => Reads(Begin(FALSE, d), head, c) /\ IsPlace(c)
    BY <1>1
  <1>3. head \in Seq(Byte)
    <2>1. version \in Seq(Byte)
      BY PartLengths
    <2>2. SP \in Seq(Byte) /\ CRLF \in Seq(Byte)
      BY Tokens
    <2>3. version \o SP \o status \o SP \o reason \o CRLF \in Seq(Byte)
      BY <2>1, <2>2, ConcatProperties
    <2> QED BY <2>3 DEF Joined
  <1> QED BY <1>2, <1>3, FramedArrives

\* When nothing has come the parser waits where a message begins.
LEMMA BeginWaits ==
    ASSUME NEW isRequest \in BOOLEAN, NEW d, IsPlace(Begin(isRequest, d))
    PROVE  Pass(Begin(isRequest, d)) = Begin(isRequest, d) /\ Begin(isRequest, d).error = NoError
  <1>1. PICK c : c = Begin(isRequest, d)
    OBVIOUS
  <1>2. /\ c.pending = << >> /\ c.error = NoError /\ IsPlace(c)
        /\ c.state = StartStateFor(isRequest) /\ c.output = StartMessageFor(isRequest)
    BY <1>1 DEF Begin, Place
  <1>3. Waits(Handle(c.state, c.output, c.pending), c.state, c.output)
    BY <1>2, NothingTaken
  <1> QED BY <1>1, <1>2, <1>3, WaitingPass

\* Bytes that come in whole lead to the place at which another message begins.
LEMMA BegunReads ==
    ASSUME NEW isRequest \in BOOLEAN, NEW bytes \in Seq(Byte)
    PROVE  /\ IsPlace(Begin(isRequest, << >>))
           /\ With(Begin(isRequest, << >>), bytes) = BegunFor(isRequest, bytes)
  <1>1. << >> \in Seq(Byte)
    OBVIOUS
  <1>2. Begin(isRequest, << >>) = BegunFor(isRequest, << >>)
    BY DEF Begin, Place, BegunFor
  <1>3. << >> \o bytes = bytes
    BY ConcatEmptySeq
  <1> QED BY <1>1, <1>2, <1>3, BegunForIsPlace

\* The pieces of a stream and the messages they arrive as.
AllArrive(isRequest, pieces, messages) ==
    /\ pieces \in Seq(Seq(Byte))
    /\ Len(pieces) >= 1
    /\ Len(messages) = Len(pieces)
    /\ \E S : messages \in Seq(S)
    /\ Arrives(isRequest, pieces[1], messages[1])
    /\ \A i \in 2 .. Len(pieces) : Arrives(TRUE, pieces[i], messages[i])

\* The callbacks with the messages.
Events(messages) == [i \in DOMAIN messages |-> MessageEvent(messages[i])]

\* They arrive one after the other.
LEMMA OneAfterTheOther ==
    ASSUME NEW isRequest \in BOOLEAN, NEW pieces, NEW messages, AllArrive(isRequest, pieces, messages)
    PROVE  /\ Meets(BegunFor(isRequest, FlattenSeq(pieces)), Begin(TRUE, Events(messages)))
           /\ IsPlace(Begin(TRUE, Events(messages)))
  <1> DEFINE n == Len(pieces)
             all == Events(messages)
             some(k) == SubSeq(all, 1, k)
             bytes(k) == FlattenSeq(SubSeq(pieces, 1, k))
             Good(k) == /\ Meets(BegunFor(isRequest, bytes(k)), Begin(TRUE, some(k)))
                        /\ IsPlace(Begin(TRUE, some(k)))
             P == {k \in Nat : k + 1 <= n => Good(k + 1)}
  <1>1. /\ pieces \in Seq(Seq(Byte)) /\ n \in Nat /\ n >= 1 /\ Len(messages) = n
        /\ Arrives(isRequest, pieces[1], messages[1])
        /\ \A i \in 2 .. n : Arrives(TRUE, pieces[i], messages[i])
    BY LenProperties DEF AllArrive
  <1>2. PICK T : all \in Seq(T)
    <2>1. PICK S : messages \in Seq(S)
      BY DEF AllArrive
    <2>2. DOMAIN messages = 1 .. n
      BY <1>1, <2>1, LenProperties
    <2> DEFINE V == {MessageEvent(messages[i]) : i \in 1 .. n}
    <2>3. \A i \in 1 .. n : MessageEvent(messages[i]) \in V
      OBVIOUS
    <2> HIDE DEF V
    <2>4. Events(messages) \in Seq(V)
      BY <1>1, <2>2, <2>3 DEF Events
    <2> QED BY <2>4
  <1>3. Len(all) = n /\ \A i \in 1 .. n : all[i] = MessageEvent(messages[i])
    <2>1. DOMAIN messages = 1 .. n
      BY <1>1, LenProperties DEF AllArrive
    <2> QED BY <1>1, <2>1 DEF Events
  <1> HIDE DEF all, n
  <1>4. Good(1)
    <2>1. bytes(1) = pieces[1]
      BY <1>1, FlattenFirst DEF n
    <2>2. some(1) = Delivering(<< >>, messages[1])
      <3>1. SubSeq(all, 1, 1) = << all[1] >>
        <4> DEFINE one == SubSeq(all, 1, 1)
        <4>1. one \in Seq(T) /\ Len(one) = 1 /\ one[1] = all[1]
          <5>1. 1 \in 0 .. Len(all) /\ 1 \in 1 .. 1
            BY <1>1, <1>3
          <5> QED BY <1>2, <5>1, FrontProperties
        <4> HIDE DEF one
        <4>2. one = << one[1] >>
          BY <4>1
        <4> QED BY <4>1, <4>2 DEF one
      <3>2. all[1] = MessageEvent(messages[1])
        BY <1>1, <1>3
      <3>3. << >> \o << MessageEvent(messages[1]) >> = << MessageEvent(messages[1]) >>
        BY ConcatEmptySeq
      <3> QED BY <3>1, <3>2, <3>3 DEF Delivering
    <2>3. pieces[1] \in Seq(Byte) /\ IsPlace(Begin(isRequest, << >>))
      BY <1>1, BegunReads DEF Arrives
    <2> DEFINE e == some(1)
    <2> HIDE DEF some
    <2>4. Reads(Begin(isRequest, << >>), pieces[1], Begin(TRUE, e)) /\ IsPlace(Begin(TRUE, e))
      BY <1>1, <2>2, <2>3 DEF Arrives
    <2> QED BY <2>1, <2>3, <2>4, BegunReads DEF Reads
  <1>5. ASSUME NEW k \in Nat, k + 1 <= n => Good(k + 1), k + 2 <= n PROVE Good(k + 2)
    <2>1. k + 1 \in 0 .. n - 1 /\ k + 2 \in 2 .. n /\ (k + 1) + 1 = k + 2 /\ k + 1 <= n /\ k + 2 \in 1 .. n
      BY <1>1, <1>5
    <2>2. /\ bytes(k + 1) \in Seq(Byte)
          /\ bytes(k + 2) = bytes(k + 1) \o pieces[k + 2]
      BY <1>1, <2>1, FlattenStep DEF n
    <2>3. some(k + 2) = Delivering(some(k + 1), messages[k + 2])
      <3> DEFINE j == k + 1
      <3>1. j \in 0 .. n - 1 /\ j + 1 \in 1 .. n /\ j + 1 = k + 2
        BY <2>1
      <3> HIDE DEF j
      <3>2. SubSeq(all, 1, j + 1) = SubSeq(all, 1, j) \o << all[j + 1] >>
        BY <1>1, <1>2, <1>3, <3>1
      <3> QED BY <1>3, <3>1, <3>2 DEF Delivering, j
    <2> DEFINE d == some(k + 1)
               e == some(k + 2)
               piece == pieces[k + 2]
               before == bytes(k + 1)
    <2>4. piece \in Seq(Byte) /\ IsPlace(Begin(TRUE, d))
      BY <1>1, <1>5, <2>1 DEF Arrives
    <2>5. Reads(Begin(TRUE, d), piece, Begin(TRUE, e)) /\ IsPlace(Begin(TRUE, e))
      <3>1. Arrives(TRUE, piece, messages[k + 2])
        BY <1>1, <2>1
      <3>2. e = Delivering(d, messages[k + 2])
        BY <2>3
      <3> HIDE DEF d, e, piece
      <3> QED BY <2>4, <3>1, <3>2 DEF Arrives
    <2>6. IsPlace(Begin(isRequest, << >>)) /\ before \in Seq(Byte)
      BY <2>2, BegunReads
    <2>7. Reads(Begin(isRequest, << >>), before, Begin(TRUE, d))
      BY <1>5, <2>1, <2>6, BegunReads DEF Reads
    <2>8. bytes(k + 2) = before \o piece
      BY <2>2
    <2> HIDE DEF d, e, piece, before, bytes
    <2>9. Reads(Begin(isRequest, << >>), before \o piece, Begin(TRUE, e))
      BY <2>4, <2>5, <2>6, <2>7, ReadsBoth
    <2>10. before \o piece \in Seq(Byte)
      BY <2>4, <2>6, ConcatProperties
    <2>11. Meets(BegunFor(isRequest, before \o piece), Begin(TRUE, e))
      BY <2>9, <2>10, BegunReads DEF Reads
    <2> QED BY <2>5, <2>8, <2>11 DEF e
  <1>6. 0 \in P
    <2>1. 0 + 1 = 1
      OBVIOUS
    <2> HIDE DEF Good
    <2> QED BY <1>4, <2>1
  <1>7. ASSUME NEW k \in Nat, k \in P PROVE k + 1 \in P
    <2>1. (k + 1) + 1 = k + 2 /\ k + 1 \in Nat
      OBVIOUS
    <2> HIDE DEF Good
    <2>2. k + 2 <= n => Good(k + 2)
      BY <1>5, <1>7
    <2> QED BY <2>1, <2>2
  <1>8. Good(n)
    <2>1. Nat \subseteq P
      <3> HIDE DEF P
      <3> QED BY <1>6, <1>7, NatByInduction
    <2>2. n - 1 \in Nat /\ (n - 1) + 1 = n /\ n <= n
      BY <1>1
    <2> HIDE DEF Good
    <2> QED BY <2>1, <2>2
  <1>9. SubSeq(pieces, 1, n) = pieces /\ SubSeq(all, 1, n) = all
    <2>1. SubSeq(pieces, 1, n) = pieces
      BY <1>1, SubSeqFull DEF n
    <2>2. SubSeq(all, 1, n) = all
      BY <1>2, <1>3, SubSeqFull
    <2> QED BY <2>1, <2>2
  <1>10. bytes(n) = FlattenSeq(pieces) /\ some(n) = all
    BY <1>9
  <1> HIDE DEF bytes, some
  <1>11. Meets(BegunFor(isRequest, FlattenSeq(pieces)), Begin(TRUE, all)) /\ IsPlace(Begin(TRUE, all))
    BY <1>8, <1>10
  <1> QED BY <1>11 DEF all

\* What the stream does not have of the pieces yet.
ToCome(pieces, more) ==
    more \in Seq(Byte) /\ stream \in Seq(Byte) /\ stream \o more = FlattenSeq(pieces)

\* Whatever part of them has come, only these are delivered, in their order, and
\* nothing is refused.
LEMMA OnlyTheseArrive ==
    ASSUME NEW isRequest \in BOOLEAN, IInv, EventsInv, SegmentsInvFor(isRequest),
           NEW pieces, NEW messages, AllArrive(isRequest, pieces, messages),
           NEW more, ToCome(pieces, more)
    PROVE  error = NoError /\ GoesOn(delivered, Events(messages))
  <1> DEFINE rest == SubSeq(stream, fed + 1, Len(stream))
             final == Begin(TRUE, Events(messages))
  <1>0. more \in Seq(Byte) /\ stream \in Seq(Byte) /\ stream \o more = FlattenSeq(pieces)
    BY DEF ToCome
  <1>1. fed \in 0 .. Len(stream)
    BY DEF IInv, TypeOK
  <1>2. rest \in Seq(Byte) /\ stream = SoFar \o rest
    BY <1>0, <1>1, FrontAndRest DEF SoFar
  <1>3. SoFar \in Seq(Byte)
    BY NowIsPlace
  <1> HIDE DEF rest
  <1>4. rest \o more \in Seq(Byte)
    BY <1>0, <1>2, ConcatProperties
  <1>5. SoFar \o (rest \o more) = FlattenSeq(pieces)
    <2>1. Associates(SoFar, rest, more)
      BY <1>0, <1>2, <1>3, Associate
    <2> QED BY <1>0, <1>2, <2>1 DEF Associates
  <1>6. Meets(BegunFor(isRequest, SoFar \o (rest \o more)), final) /\ IsPlace(final)
    BY <1>5, OneAfterTheOther
  <1>7. Pass(final) = final /\ final.error = NoError /\ final.delivered = Events(messages)
    <2>1. Pass(final) = final /\ final.error = NoError
      BY <1>6, BeginWaits
    <2> QED BY <2>1 DEF Begin, Place
  <1> HIDE DEF final
  <1>8. error = NoError /\ GoesOn(delivered, final.delivered)
    BY <1>4, <1>6, <1>7, OnTheWay
  <1> QED BY <1>7, <1>8
=============================================================================
