---------------------------- MODULE MCDeserialize ----------------------------
(***************************************************************************)
(* Instances of DeserializeMachine for TLC: an alphabet, the limits, the   *)
(* streams a peer sends, and for each stream the callbacks and the status  *)
(* that a reader of RFC 9112 and of the tests expects, written by hand.    *)
(***************************************************************************)
EXTENDS DeserializeMachine

MCByte == {" ", "HTAB", ":", ",", ";", "CR", "LF",
           "GET", "PO", "ST", "BREW", "/", "a", "%", "HTTP/", "1.1", "9.9",
           "x", "y", "z", "0", "1", "2", "3",
           "Content-Length", "content-length", "Transfer-Encoding", "transfer-encoding",
           "chunked", "gzip", "Name", "name", "OK"}

MCToLower == [c \in MCByte |->
                CASE c = "Content-Length" -> "content-length"
                  [] c = "Transfer-Encoding" -> "transfer-encoding"
                  [] c = "Name" -> "name"
                  [] OTHER -> c]

MCDigit == ("0" :> 0) @@ ("1" :> 1) @@ ("2" :> 2) @@ ("3" :> 3) @@ ("a" :> 10)

MCMethodFromStr  == (<< "GET" >> :> "GET") @@ (<< "PO", "ST" >> :> "POST")
MCVersionFromStr == << "HTTP/", "1.1" >> :> "HTTPv1_1"
MCTargetFromStr  == (<< "/" >> :> "root") @@ (<< "/", "a" >> :> "path a")

-----------------------------------------------------------------------------
(* Pieces of streams. *)
Version == << "HTTP/", "1.1" >>
GetRoot == << "GET", " ", "/", " " >> \o Version \o CRLF
PostA   == << "PO", "ST", " ", "/", "a", " " >> \o Version \o CRLF

Line(name, value) == << name, ":", " " >> \o value \o CRLF

GetLine  == [RequestLine EXCEPT !.method = "GET", !.target = "root", !.version = "HTTPv1_1"]
PostLine == [RequestLine EXCEPT !.method = "POST", !.target = "path a", !.version = "HTTPv1_1"]

Message(line, fields, body) == [start_line |-> line, fields |-> fields, body |-> body]
MessageCb(line, fields, body) == MessageEvent(Message(line, fields, body))
ChunkCb(line, fields, ext, data) ==
    [kind |-> "chunk", message |-> Message(line, fields, << >>), ext |-> ext, data |-> data]

Case(bytes, events, status) == [bytes |-> bytes, events |-> events, status |-> status]

-----------------------------------------------------------------------------
(* Requests that are well formed, pipelined. *)

ChunkedField == TransferEncoding :> << "gzip", ",", " ", "chunked" >>
ChunkedAndTrailer == ChunkedField @@ (<< "name" >> :> << "x", ",", " ", "y" >>)

WellFormedRequests ==
    { \* a body of known length between two requests without one
      Case(GetRoot \o CRLF
             \o PostA \o Line("Content-Length", << "2" >>) \o CRLF \o << "CR", "LF" >>
             \o GetRoot \o CRLF,
           << MessageCb(GetLine, << >>, << >>),
              MessageCb(PostLine, ContentLength :> << "2" >>, << "CR", "LF" >>),
              MessageCb(GetLine, << >>, << >>) >>,
           NoError),
      \* chunks with an extension and a CR among their bytes, trailing fields
      Case(PostA \o Line("Transfer-Encoding", << "gzip", ",", " ", "chunked" >>) \o CRLF
             \o << "2", " ", ";", " ", "z" >> \o CRLF \o << "x", "CR" >> \o CRLF
             \o << "1" >> \o CRLF \o << "0" >> \o CRLF
             \o << "0" >> \o CRLF \o Line("Name", << "x", " " >>) \o Line("name", << "y" >>) \o CRLF
             \o GetRoot \o CRLF,
           << ChunkCb(PostLine, ChunkedField, << "z" >>, << "x", "CR" >>),
              ChunkCb(PostLine, ChunkedField, << >>, << "0" >>),
              ChunkCb(PostLine, ChunkedField, << >>, << >>),
              MessageCb(PostLine, ChunkedAndTrailer, << >>),
              MessageCb(GetLine, << >>, << >>) >>,
           NoError),
      \* a body of length zero, and one that looks like the line end after it
      Case(PostA \o Line("Content-Length", << "0" >>) \o CRLF
             \o GetRoot \o Line("Content-Length", << "1" >>) \o CRLF \o << "CR" >>
             \o GetRoot \o CRLF,
           << MessageCb(PostLine, ContentLength :> << "0" >>, << >>),
              MessageCb(GetLine, ContentLength :> << "1" >>, << "CR" >>),
              MessageCb(GetLine, << >>, << >>) >>,
           NoError) }

\* A length that is given twice; what RFC 9112 expects of it.
TwoLengths ==
    { Case(GetRoot \o Line("Content-Length", << "1" >>) \o Line("Content-Length", << "1" >>) \o CRLF
             \o << "x" >> \o GetRoot \o CRLF,
           << MessageCb(GetLine, ContentLength :> << "1", ",", " ", "1" >>, << "x" >>),
              MessageCb(GetLine, << >>, << >>) >>,
           NoError) }

-----------------------------------------------------------------------------
(* Requests that end in an error, most after a request that does not. *)

First(events) == << MessageCb(GetLine, << >>, << >>) >> \o events
AfterFirst(bytes, status) == Case(GetRoot \o CRLF \o bytes, First(<< >>), status)

LongestField == Line("Name", << "x", "x", "x" >>)

FailingRequests ==
    { AfterFirst(<< "BREW", " ", "/" >>, "BAD_REQUEST"),
      AfterFirst(<< "PO", "ST", "x", " " >>, "NOT_IMPLEMENTED"),
      AfterFirst(<< "GET", " ", "/", "a", "a", "a", " " >>, "URI_TOO_LONG"),
      AfterFirst(<< "GET", " ", "%", " ", "HTTP/" >>, "BAD_REQUEST"),
      AfterFirst(<< "GET", " ", "/", " ", "HTTP/", "9.9" >> \o CRLF, "BAD_REQUEST"),
      AfterFirst(<< "GET", " ", "/", " ", "HTTP/", "1.1", "x", "CR", "LF" >>, "BAD_REQUEST"),
      AfterFirst(GetRoot \o << "Name" >> \o CRLF \o CRLF, "BAD_REQUEST"),
      \* the first section of fields is within its budget, the second is not
      AfterFirst(GetRoot \o LongestField \o LongestField \o Line("Name", << >>) \o CRLF,
                 "CONTENT_TOO_LARGE"),
      Case(GetRoot \o LongestField \o Line("Name", << "x", "y" >>) \o CRLF \o << "BREW", " " >>,
           << MessageCb(GetLine, << "name" >> :> << "x", "x", "x", ",", " ", "x", "y" >>, << >>) >>,
           "BAD_REQUEST"),
      AfterFirst(PostA \o Line("Content-Length", << "3" >>) \o CRLF \o << "x", "y", "z" >>,
                 "CONTENT_TOO_LARGE"),
      AfterFirst(PostA \o Line("Content-Length", << "1" >>)
                       \o Line("Transfer-Encoding", << "chunked" >>) \o CRLF, "BAD_REQUEST") }

ChunkedPost == PostA \o Line("Transfer-Encoding", << "chunked" >>) \o CRLF
ChunkedOnly == TransferEncoding :> << "chunked" >>

FailingChunks ==
    { Case(ChunkedPost \o << "z" >> \o CRLF, << >>, "BAD_REQUEST"),
      Case(ChunkedPost \o CRLF, << >>, "BAD_REQUEST"),
      Case(ChunkedPost \o << "0", "0", "1" >> \o CRLF, << >>, "BAD_REQUEST"),
      Case(ChunkedPost \o << "1", ";", "x", "x", "x", "x", "x", "x" >>, << >>, "BAD_REQUEST"),
      Case(ChunkedPost \o << "a", "1" >> \o CRLF, << >>, "BAD_REQUEST"),
      Case(ChunkedPost \o << "1" >> \o CRLF \o << "x", "y", "CR", "LF" >>, << >>, "BAD_REQUEST"),
      Case(ChunkedPost \o << "0" >> \o CRLF \o << "Name" >> \o CRLF,
           << ChunkCb(PostLine, ChunkedOnly, << >>, << >>) >>, "BAD_REQUEST") }

-----------------------------------------------------------------------------
(* Responses; one per stream, see PipelinedResponses. *)

StatusLine(code, reason) == Version \o << " " >> \o code \o << " " >> \o reason \o CRLF
ResponseAs(code, reason) ==
    [ResponseLine EXCEPT !.version = "HTTPv1_1", !.status = code, !.reason = reason]

Responses ==
    { Case(StatusLine(<< "2", "0", "0" >>, << "OK", " ", "OK" >>)
             \o Line("Content-Length", << "2" >>) \o CRLF \o << "x", "y" >>,
           << MessageCb(ResponseAs(200, << "OK", " ", "OK" >>), ContentLength :> << "2" >>, << "x", "y" >>) >>,
           NoError),
      Case(StatusLine(<< "3", "0", "2" >>, << >>)
             \o Line("Transfer-Encoding", << "chunked" >>) \o CRLF
             \o << "1" >> \o CRLF \o << "x" >> \o CRLF \o << "0" >> \o CRLF \o CRLF,
           << ChunkCb(ResponseAs(302, << >>), ChunkedOnly, << >>, << "x" >>),
              ChunkCb(ResponseAs(302, << >>), ChunkedOnly, << >>, << >>),
              MessageCb(ResponseAs(302, << >>), ChunkedOnly, << >>) >>,
           NoError),
      Case(Version \o << "x", " " >>, << >>, "BAD_REQUEST"),
      Case(<< "HTTP/", "9.9", " " >>, << >>, "BAD_REQUEST"),
      Case(Version \o << " ", "2", "0", " " >>, << >>, "BAD_REQUEST"),
      Case(Version \o << " ", "2", "0", "0", "0" >>, << >>, "BAD_REQUEST"),
      Case(Version \o << " ", "2", "a", "0", " " >>, << >>, "BAD_REQUEST"),
      Case(Version \o << " ", "2", "0", "0", " ", "x", "x", "x", "x", "x", "CR", "LF" >>, << >>, "BAD_REQUEST") }

\* A deserializer of responses reads each of them as expected in one call.  A
\* stream that is cut gives the same (SegmentsDoNotMatter, DeserializeProofs).
\* Evaluated where the machine is one of responses.
ASSUME ResponsesAsExpected ==
    ~ IsRequest => \A c \in Responses : /\ InOneCall(c.bytes).delivered = c.events
                                         /\ InOneCall(c.bytes).error = c.status

\* Two responses on one connection, as a client that pipelines receives them.
NoBody == Line("Content-Length", << "0" >>) \o CRLF

PipelinedResponses ==
    { Case(StatusLine(<< "2", "0", "0" >>, << "OK" >>) \o NoBody
             \o StatusLine(<< "3", "0", "0" >>, << >>) \o NoBody,
           << MessageCb(ResponseAs(200, << "OK" >>), ContentLength :> << "0" >>, << >>),
              MessageCb(ResponseAs(300, << >>), ContentLength :> << "0" >>, << >>) >>,
           NoError) }

-----------------------------------------------------------------------------
CONSTANT MCCases    \* the streams of the run, with what is expected of them

MCStreams == {c.bytes : c \in MCCases}

RequestCases == WellFormedRequests \cup FailingRequests \cup FailingChunks

ExpectedOf == CHOOSE c \in MCCases : c.bytes = stream

\* The callbacks are those of the expected messages and chunks, in order and
\* as soon as the bytes that complete them are fed; an error is reported for
\* the streams that have one, with the expected status, and for no other.
MeetsExpectation ==
    /\ IsPrefix(delivered, ExpectedOf.events)
    /\ error \in {NoError, ExpectedOf.status}
    /\ phase = "idle" /\ fed = Len(stream) =>
           /\ delivered = ExpectedOf.events
           /\ error = ExpectedOf.status
=============================================================================
