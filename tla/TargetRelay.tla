----------------------------- MODULE TargetRelay -----------------------------
(***************************************************************************)
(* A target on its way through programs that use the library: the text of  *)
(* a request line is read by deserialize_target, the target is written     *)
(* again by serialize(target) for the next hop (or printed, as by          *)
(* debug_print of the example), which reads it in turn.  It starts as the  *)
(* text some client sent or as a target an application made up.            *)
(***************************************************************************)
EXTENDS Targets

CONSTANTS Texts,     \* the texts clients send
          AppTargets \* the targets applications make up

VARIABLES at,       \* "text", "target", or "refused" when a text has no target
          text,
          target,   \* maybe the target held
          written   \* maybe the target of which text is the serialization

vars == << at, text, target, written >>

\* What the grammar of RFC 3986 asks of a target that an application makes up
\* (comments of types/target.hpp): an absolute path, a scheme that is known, an
\* authority or a host, of which the latter ends at the port.
WellFormed(t) ==
    /\ t.form \in {"origin", "absolute"} => t.path # << >> /\ t.path[1] = "/"
    /\ t.form = "absolute" =>
           /\ t.scheme \in {"http", "https"}
           /\ t.authority # << >>
           /\ ~ Contains(t.authority, "/")
    /\ t.form = "authority" =>
           /\ t.host # << >>
           /\ ~ Contains(t.host, "/")
           /\ t.port \in 0 .. 2 ^ 16 - 1

\* The types in types/target.hpp, scheme and port as WellFormed has them.
Param == [key : Seq(TargetByte), value : Seq(TargetByte)]
Query == Seq(Param)
TargetType ==
    [form : {"origin"}, path : Seq(TargetByte), query : Query]
      \cup [form : {"absolute"}, scheme : {"http", "https"}, authority : Seq(TargetByte),
            path : Seq(TargetByte), query : Query]
      \cup [form : {"authority"}, host : Seq(TargetByte), port : 0 .. 2 ^ 16 - 1]
      \cup {Asterisk}

ASSUME RelayAssumption ==
    /\ Texts \subseteq Seq(TargetByte)
    /\ AppTargets \subseteq TargetType
    /\ \A t \in AppTargets : WellFormed(t)

Init == \/ /\ at = "text"
           /\ text \in Texts
           /\ target = Null
           /\ written = Null
        \/ /\ at = "target"
           /\ text = << >>
           /\ target \in {{t} : t \in AppTargets}
           /\ written = Null

Deserialize ==
    /\ at = "text"
    /\ target' = DeserializeTarget(text)
    /\ at' = IF target' = Null THEN "refused" ELSE "target"
    /\ UNCHANGED << text, written >>

Serialize ==
    /\ at = "target"
    /\ \E t \in target : text' = SerializeTarget(t)
    /\ written' = target
    /\ at' = "text"
    /\ UNCHANGED target

Next == Deserialize \/ Serialize

Spec == Init /\ [][Next]_vars

-----------------------------------------------------------------------------
\* Whatever a client sent, the target that is read from it is one that could
\* have been made up: its path is absolute although it was decoded, its port is
\* in range, and its authority ends before the path.
TypeOK ==
    /\ at \in {"text", "target", "refused"}
    /\ \A t \in target : WellFormed(t)
    /\ Cardinality(target) <= 1

\* A target survives every hop: the text written for it is accepted and read
\* as the same form with the same path, query, authority and port.  Escapes,
\* plus signs, empty keys and values and delimiters inside of decoded strings
\* do not change their meaning on the way.
TargetSurvives == at # "text" /\ written # Null => target = written

\* What escapes mean, said without a loop: every percent sign stands, with the
\* two digits after it, for one byte, each of the given characters for a
\* space, and everything else for itself.
Escapes(str) == {i \in DOMAIN str : str[i] = "%"}

Broken(str) ==
    {i \in Escapes(str) : i + 2 > Len(str) \/ ~ {str[i + 1], str[i + 2]} \subseteq DOMAIN Digit}

\* What the symbol at position i adds to the meaning.
Meant(str, spaces, i) ==
    IF {i - 1, i - 2} \cap Escapes(str) # {} THEN << >>
    ELSE IF i \in Escapes(str) THEN << CharOf[16 * Digit[str[i + 1]] + Digit[str[i + 2]]] >>
    ELSE << IF str[i] \in spaces THEN " " ELSE str[i] >>

MeaningOf(str, spaces) ==
    IF Broken(str) # {} THEN Null
    ELSE {FlattenSeq([i \in DOMAIN str |-> Meant(str, spaces, i)])}

\* Both decoders read each escape as one byte, refuse exactly the strings with
\* an escape that is cut off or has no digits, and only the one for queries
\* reads a plus sign as a space (deserialize/target.cpp lines 206
\* to 270).
DecodersAgreeWithMeaning ==
    at = "text" => /\ DecodeStr(text) = MeaningOf(text, {})
                   /\ DecodeQueryPart(text) = MeaningOf(text, {"+"})

\* The text fits exactly into what is reserved for it; for the port five digits
\* are reserved (serialize/target.cpp lines 19 to 54).
ReservedExactly ==
    \A t \in target :
        LET length == Len(SerializeTarget(t))
        IN  IF t.form \in {"origin", "absolute"} THEN length = ReservedSize(t)
            ELSE t.form = "authority" => length <= ReservedSize(t)

\* The serialized target is one token of the request line: a space or line end
\* in a decoded path or query does not end it early (message.cpp line 66 writes
\* it between two spaces and deserialize/message.cpp line 168 reads up to the
\* first one).  Authority and host are written as they are.
OneToken ==
    \A t \in written :
        LET verbatim == CASE t.form = "absolute" -> t.authority
                          [] t.form = "authority" -> t.host
                          [] OTHER -> << >>
            ends == {" ", "CR", "LF"}
        IN  ToSet(verbatim) \cap ends = {} => ToSet(text) \cap ends = {}

\* The authority of an absolute target is a host and perhaps a port, as its
\* declaration says, and no part of the query (types/target.hpp line 41).
AuthorityEndsBeforeQuery ==
    \A t \in target : t.form = "absolute" => ~ Contains(t.authority, "?")
=============================================================================
