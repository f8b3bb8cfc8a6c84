----------------------------- MODULE MCSerialize -----------------------------
(***************************************************************************)
(* Messages for SerializeMachine: with and without fields and body, sizes  *)
(* below, at and above BufferSize.                                         *)
(***************************************************************************)
EXTENDS SerializeMachine

MCByte == {" ", ":", "CR", "LF", "GET", "PO", "ST", "/", "a", "HTTP/", "1.1",
           "OK", "200", "k", "l", "v", "1", "2", "3", "4", "5", "6", "7", "8"}

MCMethodToStr  == ("GET" :> << "GET" >>) @@ ("POST" :> << "PO", "ST" >>)
MCVersionToStr == "HTTPv1_1" :> << "HTTP/", "1.1" >>
MCStatusToStr  == 200 :> << "200" >>
MCTargetToStr  == ("root" :> << "/" >>) @@ ("path a" :> << "/", "a" >>)

GetLine  == [kind |-> "request", method |-> "GET", target |-> "root", version |-> "HTTPv1_1"]
PostLine == [kind |-> "request", method |-> "POST", target |-> "path a", version |-> "HTTPv1_1"]
OkLine   == [kind |-> "response", version |-> "HTTPv1_1", status |-> 200, reason |-> << "OK" >>]
BareLine == [OkLine EXCEPT !.reason = << >>]

Field(key, value) == [key |-> << key >>, value |-> value]

Digits == << "1", "2", "3", "4", "5", "6", "7", "8" >>

\* Every first part of the digits as body, so that one of them ends exactly
\* where the buffer does, whichever part of it the head takes.
MCMessages ==
    {[start_line |-> line, fields |-> fields, body |-> SubSeq(Digits, 1, n)] :
        line \in {GetLine, PostLine, OkLine, BareLine},
        fields \in {<< >>, << Field("k", << "v" >>) >>,
                    << Field("k", << "v", " ", "v" >>), Field("l", << >>) >>},
        n \in 0 .. Len(Digits)}
=============================================================================
