----------------------------- MODULE MCConnection -----------------------------
(***************************************************************************)
(* Peers of Connection: what they send, and after how many bytes of it the *)
(* first request is complete or refused.                                   *)
(***************************************************************************)
EXTENDS Connection, MCAlphabet

MCTargetFromStr == (<< "/" >> :> "root") @@ (<< "/", "a" >> :> "path a")

Line(method, target) == << method, " " >> \o target \o << " ", "HTTP/", "1.1", "CR", "LF" >>
Get  == Line("GET", << "/" >>) \o << "CR", "LF" >>
Post == Line("POST", << "/", "a" >>)
Field(name, value) == << name, ":" >> \o value \o << "CR", "LF" >>

Never == 1000

Case(bytes, settledAt) == [bytes |-> bytes, settledAt |-> settledAt]

Cases ==
    LET length  == Post \o Field("Content-Length", << "2" >>) \o << "CR", "LF", "a", "a" >>
        chunked == Post \o Field("Transfer-Encoding", << "chunked" >>)
                     \o << "CR", "LF", "1", "CR", "LF", "a", "CR", "LF", "0", "CR", "LF", "CR", "LF" >>
    IN  { Case(Get, Len(Get)),
          Case(length, Len(length)),
          Case(chunked, Len(chunked)),
          \* pipelined: two requests, a request and one in error
          Case(Get \o Line("HEAD", << "/", "a" >>) \o << "CR", "LF" >>, Len(Get)),
          Case(Get \o << "a", " ", "/" >>, Len(Get)),
          Case(<< "GET", " ", "a", " ", "HTTP/" >>, 4),
          \* the peer stops in the middle
          Case(SubSeq(Get, 1, Len(Get) - 1), Never),
          Case(SubSeq(length, 1, Len(length) - 1), Never),
          Case(<< >>, Never) }

MCStreams == {c.bytes : c \in Cases}

SettledAt == (CHOOSE c \in Cases : c.bytes = stream).settledAt

\* No answer begins before the last byte of a request was read, and none is
\* prevented by bytes that come in a later read.
AnswersWholeRequest == response # Nothing => fed >= SettledAt

\* A connection whose peer sends a whole request, or anything malformed, ends.
\* Only a request that is never completed keeps the coroutine: waiting while
\* the peer is silent, reading 0 bytes again and again when it has closed its
\* side (line 87).
EndsUnlessUnfinished == SettledAt # Never => <>Ended
=============================================================================
