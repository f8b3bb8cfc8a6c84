------------------------------ MODULE MCEndToEnd ------------------------------
(***************************************************************************)
(* Messages for EndToEnd.  Those that cannot be told apart on the wire are *)
(* among them; Sendable takes them out.                                    *)
(***************************************************************************)
EXTENDS EndToEnd, MCAlphabet

Field(key, value) == [key |-> << key >>, value |-> value]
Length(n) == << Field("Content-Length", Decimal[n]) >>

Request(method, target, version) ==
    [kind |-> "request", method |-> method, target |-> target, version |-> version]
Response(status, reason) ==
    [kind |-> "response", version |-> "HTTPv1_1", status |-> status, reason |-> reason]

Message(line, fields, body) == [start_line |-> line, fields |-> fields, body |-> body]

\* The body looks like the end of a head and the start of another request.
Body == << "CR", "LF", "GET", " " >>

\* The targets are made up here, before they are given to the two ends.
Made == INSTANCE Targets

MCTargetOf ==
    [root    |-> Made!Origin(<< "/" >>, << >>),
     search  |-> Made!Origin(<< "/", " ", "%" >>, << [key |-> << "&" >>, value |-> << " ", "+" >>] >>),
     proxy   |-> Made!Absolute("http", << "a", ":", "8" >>, << "/" >>, << >>),
     tunnel  |-> Made!Authority(<< "a" >>, 65535),
     asterisk |-> Made!Asterisk]

Requests ==
    { Message(Request("GET", "search", "HTTPv1_1"), << Field("Name", << "a" >>), Field("name", << "a" >>) >>, << >>),
      Message(Request("POST", "root", "HTTPv1_0"), Length(4), Body),
      Message(Request("POST", "root", "HTTPv1_0"), Length(3), Body),
      Message(Request("POST", "root", "HTTPv1_0"), << >>, Body),
      Message(Request("CONNECT", "tunnel", "HTTPv1_1"), Length(0), << >>),
      Message(Request("OPTIONS", "asterisk", "HTTPv1_1"), << Field("Name", << " ", "a", " " >>) >>, << >>),
      Message(Request("HEAD", "proxy", "HTTPv1_1"), << >>, << >>),
      Message(Request("HEAD", "proxy", "HTTPv1_1"),
              << Field("Name", << "CR", "LF", "CR", "LF" >>) >>, << >>) }

\* Every request after one with a body, and that one after one without.
Pairs == {pair \in Requests \X Requests :
             pair[1].body # << >> \/ (pair[1].start_line.target = "asterisk" /\ pair[2].body # << >>)}

\* Every status that has a name and some that have none, a reason that ends the
\* status line early, and bodies up to the limit.
Singles ==
    LET empty(status) == Message(Response(status, << >>), << >>, << >>)
        ok(reason, n) == Message(Response(200, reason), Length(n), SubSeq(Body, 1, n))
    IN  {<< m >> : m \in {empty(status) : status \in 99 .. 600}
                           \cup {ok(reason, n) : n \in 0 .. 4,
                                   reason \in {<< >>, << "Hello", " ", "World" >>,
                                               << "a", "CR", "LF", "CR" >>,
                                               << "CR", "LF", "Name", ":", "a" >>}}}

\* A script is a pair of requests or one response.
MCScripts == Pairs \cup Singles
=============================================================================
