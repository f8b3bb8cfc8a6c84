------------------------------- MODULE Targets -------------------------------
(***************************************************************************)
(* deserialize_target and serialize(target) (src/v1/deserialize/target.cpp,*)
(* src/v1/serialize/target.cpp): the four forms of a request target, the   *)
(* query and percent coding.  meta::maybe<T> is a set with at most one     *)
(* element, so that .map is a set comprehension.                           *)
(***************************************************************************)
EXTENDS Strings

CONSTANTS CharOf,     \* the character of each code 0 .. 255
          AlphaNum    \* the symbols made of ASCII letters and digits only

ASSUME TargetsAssumption ==
    /\ CharOf \in [0 .. 255 -> Byte]
    /\ \A m, n \in 0 .. 255 : CharOf[m] = CharOf[n] => m = n
    /\ AlphaNum \subseteq Byte
    /\ \A v \in 0 .. 15 : /\ HexChars[v + 1] \in AlphaNum \cap DOMAIN Digit
                          /\ Digit[HexChars[v + 1]] = v
    /\ {"http", "https"} \subseteq AlphaNum
    /\ {" ", "%", "+", "/", ":", "?", "&", "=", "*"} \subseteq Range(CharOf) \ AlphaNum
    /\ {"CR", "LF"} \cap AlphaNum = {}
    /\ "%" \notin DOMAIN Digit

\* What a target and its text are made of.
TargetByte == Range(CharOf) \cup AlphaNum

Origin(path, query) == [form |-> "origin", path |-> path, query |-> query]
Absolute(scheme, authority, path, query) ==
    [form |-> "absolute", scheme |-> scheme, authority |-> authority,
     path |-> path, query |-> query]
Authority(host, port) == [form |-> "authority", host |-> host, port |-> port]
Asterisk == [form |-> "asterisk"]

Null == {}
-----------------------------------------------------------------------------
(* Percent coding. *)

\* A form that reads the two digits in the wrong order.
DecodeByteSwapped(high, low) ==
    IF {high, low} \subseteq DOMAIN Digit THEN {CharOf[16 * Digit[low] + Digit[high]]} ELSE Null

DecodeByte(high, low) ==
    IF {high, low} \subseteq DOMAIN Digit THEN {CharOf[16 * Digit[high] + Digit[low]]} ELSE Null

\* The loop of percent_decode::str and ::query; they differ in which
\* characters stand for a space.
Decode(encoded, spaces) ==
    LET from[i \in 1 .. Len(encoded) + 1] ==
            IF i > Len(encoded) THEN {<< >>}
            ELSE IF encoded[i] # "%"
            THEN {<< IF encoded[i] \in spaces THEN " " ELSE encoded[i] >> \o rest : rest \in from[i + 1]}
            ELSE IF i + 2 > Len(encoded) THEN Null
            ELSE {<< c >> \o rest : c \in DecodeByte(encoded[i + 1], encoded[i + 2]),
                                    rest \in from[i + 3]}
    IN  from[1]

DecodeStr(encoded) == Decode(encoded, {})

\* A form that leaves the plus signs of a query alone.
DecodeQueryPartRaw(encoded) == DecodeStr(encoded)

DecodeQueryPart(encoded) == Decode(encoded, {"+"})

IsUnreserved(c) == c \in AlphaNum \cup {"-", ".", "_", "~"}

\* A form whose list of safe characters has the space, too.
IsPathSafeSpace(c) ==
    IsUnreserved(c) \/ c \in {"/", " ", ":", "@", "!", "$", "&", "'", "(", ")", "*", "+", ",", ";", "="}

IsPathSafe(c) ==
    IsUnreserved(c) \/ c \in {"/", ":", "@", "!", "$", "&", "'", "(", ")", "*", "+", ",", ";", "="}

Code(c) == CHOOSE n \in 0 .. 255 : CharOf[n] = c

\* percent_encode::append.
Escape(c) == << "%", HexChars[(Code(c) \div 16) + 1], HexChars[(Code(c) % 16) + 1] >>

SerializePath(path) ==
    FlattenSeq([i \in DOMAIN path |-> IF IsPathSafe(path[i]) THEN << path[i] >> ELSE Escape(path[i])])

SerializeQueryPart(str) ==
    FlattenSeq([i \in DOMAIN str |-> IF IsUnreserved(str[i]) THEN << str[i] >>
                                     ELSE IF str[i] = " " THEN << "+" >>
                                     ELSE Escape(str[i])])

SerializeQuery(query) ==
    FlattenSeq([i \in DOMAIN query |-> << IF i = 1 THEN "?" ELSE "&" >>
                                         \o SerializeQueryPart(query[i].key) \o << "=" >>
                                         \o SerializeQueryPart(query[i].value)])

-----------------------------------------------------------------------------
(* deserialize_target *)

QUESTION == << "?" >>
SLASH == << "/" >>
Http == << "http", ":", "/", "/" >>
Https == << "https", ":", "/", "/" >>

DeserializePair(pair) ==
    LET split == TryFindSplitUnlimited(pair, << "=" >>)
    IN  {[key |-> key, value |-> value] :
            key \in DecodeQueryPart(split.head), value \in DecodeQueryPart(split.tail)}

\* Empty pairs are skipped, one that cannot be decoded spoils the query.
DeserializeQuery(str) ==
    LET from[i \in 1 .. Len(str) + 2] ==
            LET pair == TryFindSplitUnlimited(SubSeq(str, i, Len(str)), << "&" >>).head
            IN  IF i > Len(str) THEN {<< >>}
                ELSE IF pair = << >> THEN from[i + 1]
                ELSE {<< param >> \o rest : param \in DeserializePair(pair),
                                            rest \in from[i + Len(pair) + 1]}
    IN  from[1]

DeserializeOriginForm(str) ==
    LET split == TryFindSplitUnlimited(str, QUESTION)
    IN  {Origin(path, query) : path \in DecodeStr(split.head), query \in DeserializeQuery(split.tail)}

DeserializeAbsoluteForm(str) ==
    LET scheme == str[1]
        split  == TryFindSplitUnlimited(SubSeq(str, Len(Http) + 1, Len(str)), SLASH)
        tail   == TryFindSplitUnlimited(split.tail, QUESTION)
    IN  IF split.head = << >> THEN Null
        ELSE {Absolute(scheme, split.head, path, query) :
                 path \in DecodeStr(SLASH \o tail.head), query \in DeserializeQuery(tail.tail)}

DeserializeAuthorityForm(str) ==
    LET colon == Max({i \in DOMAIN str : str[i] = ":"})
        host  == SubSeq(str, 1, colon - 1)
        port  == FromChars(SubSeq(str, colon + 1, Len(str)), 10, 2 ^ 16)
    IN  IF host = << >> \/ port = NoNumber THEN Null ELSE {Authority(host, port)}

\* A form that takes whatever has a colon and is not a path for host and port.
DeserializeTargetByColon(str) ==
    IF IsPrefix(SLASH, str) \/ ~ Contains(str, ":") THEN Null ELSE DeserializeAuthorityForm(str)

\* deserialize_target.
DeserializeTarget(str) ==
    CASE str = << "*" >>         -> {Asterisk}
      [] IsPrefix(SLASH, str)    -> DeserializeOriginForm(str)
      [] IsPrefix(Http, str) \/ IsPrefix(Https, str) -> DeserializeAbsoluteForm(str)
      [] Contains(str, ":") /\ ~ Contains(str, "/")  -> DeserializeAuthorityForm(str)
      [] OTHER                   -> Null

-----------------------------------------------------------------------------
(* serialize(target) *)

SerializeTarget(target) ==
    CASE target.form = "origin"    -> SerializePath(target.path) \o SerializeQuery(target.query)
      [] target.form = "absolute"  -> << target.scheme, ":", "/", "/" >> \o target.authority
                                        \o SerializePath(target.path) \o SerializeQuery(target.query)
      [] target.form = "authority" -> target.host \o << ":" >> \o Decimal[target.port]
      [] target.form = "asterisk"  -> << "*" >>

\* The sizes that are reserved before the text is written.
PathSize(path) == Len(path) + 2 * Quantify(DOMAIN path, LAMBDA i : ~ IsPathSafe(path[i]))

\* A form that takes a space for an escaped character.
QueryPartSizeSpace(str) == Len(str) + 2 * Quantify(DOMAIN str, LAMBDA i : ~ IsUnreserved(str[i]))

QueryPartSize(str) ==
    Len(str) + 2 * Quantify(DOMAIN str, LAMBDA i : ~ IsUnreserved(str[i]) /\ str[i] # " ")

QuerySize(query) ==
    2 * Len(query) + SumFunction([i \in DOMAIN query |-> QueryPartSize(query[i].key)
                                                           + QueryPartSize(query[i].value)])

ReservedSize(target) ==
    CASE target.form = "origin"    -> PathSize(target.path) + QuerySize(target.query)
      [] target.form = "absolute"  -> 4 + Len(target.authority)
                                        + PathSize(target.path) + QuerySize(target.query)
      [] target.form = "authority" -> Len(target.host) + 1 + 5
=============================================================================
