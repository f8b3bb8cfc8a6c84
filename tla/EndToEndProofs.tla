---------------------------- MODULE EndToEndProofs ----------------------------
(***************************************************************************)
(* Theorems about a connection with a serialize_machine per message on one *)
(* end and a deserialize_machine on the other, for all sequences of        *)
(* sendable messages, all limits and all cuts of the stream.               *)
(***************************************************************************)
EXTENDS EndToEnd, BytesLemmas

\* The receiver is made as the theorems about it assume,
LEMMA ReceiverMade ==
    Receiver!StringsAssumption /\ Receiver!HandlersAssumption /\ Receiver!MachineAssumption
  BY StringsAssumption, EndToEndAssumption DEF Receiver!MachineAssumption, Receiver!StringsAssumption

\* so is the sender,
LEMMA SenderMade == Sender!SerializeAssumption /\ Sender!MessagesAssumption
  BY EndToEndAssumption

\* and so are the targets.
LEMMA RelayMade ==
    Relay!StringsAssumption /\ Relay!TargetsAssumption /\ Relay!RelayAssumption
  BY StringsAssumption, EndToEndAssumption DEF Relay!StringsAssumption

-----------------------------------------------------------------------------
(* Each end has its own copy of the operators they share. *)

\* The library puts sequences one behind the other,
LEMMA SameFlatten ==
    \A q : FlattenSeq(q) = Receiver!FlattenSeq(q) /\ Sender!FlattenSeq(q) = Receiver!FlattenSeq(q)
  BY DEF FlattenSeq, Sender!FlattenSeq, Receiver!FlattenSeq

\* A text without a symbol.
LEMMA SameContains ==
    ASSUME NEW str \in Seq(Byte), NEW c
    PROVE  /\ Receiver!Contains(str, c) <=> Contains(str, c)
           /\ Relay!Contains(str, c) <=> Contains(str, c)
           /\ c \in ToSet(str) <=> Contains(str, c)
  <1>1. DOMAIN str = 1 .. Len(str)
    BY LenProperties
  <1> QED BY <1>1 DEF Contains, Receiver!Contains, Relay!Contains, ToSet

\* numbers are written
LEMMA SameDecimal == Relay!Decimal = Decimal
  BY Zenon DEF Decimal, Relay!Decimal, HexChars, Relay!HexChars

\* and read in one way.
LEMMA SameNumeral ==
    \A str, base : /\ Receiver!IsNumeral(str, base) <=> Relay!IsNumeral(str, base)
                   /\ Receiver!NumeralValue(str, base) = Relay!NumeralValue(str, base)
  <1>1. \A str, base : Receiver!IsNumeral(str, base) <=> Relay!IsNumeral(str, base)
    BY DEF Receiver!IsNumeral, Relay!IsNumeral
  <1>2. \A str, base : Receiver!NumeralValue(str, base) = Relay!NumeralValue(str, base)
    BY Zenon DEF Receiver!NumeralValue, Relay!NumeralValue,
       Receiver!FoldLeft, Relay!FoldLeft, Receiver!MapThenFoldSet, Relay!MapThenFoldSet,
       Receiver!Max, Relay!Max
  <1> QED BY <1>1, <1>2

-----------------------------------------------------------------------------
(* The names on both ends. *)

\* A name that is unique is read again.
LEMMA Inverted ==
    ASSUME NEW f, \A a, b \in DOMAIN f : f[a] = f[b] => a = b, NEW a \in DOMAIN f
    PROVE  f[a] \in DOMAIN AntiFunction(f) /\ AntiFunction(f)[f[a]] = a
  <1> DEFINE str == f[a]
             pick(t) == CHOOSE s \in DOMAIN f : t \in Range(f) => f[s] = t
  <1>1. str \in Range(f)
    BY DEF Range
  <1>2. AntiFunction(f) = [t \in Range(f) |-> pick(t)]
    BY DEF AntiFunction, Inverse
  <1>3. \E s \in DOMAIN f : str \in Range(f) => f[s] = str
    OBVIOUS
  <1>4. pick(str) \in DOMAIN f /\ f[pick(str)] = str
    BY <1>1, <1>3
  <1>5. pick(str) = a
    BY <1>4
  <1> HIDE DEF pick
  <1> QED BY <1>1, <1>2, <1>5

\* Methods
LEMMA MethodNamed ==
    ASSUME NEW e \in Methods, NEW str, str = MethodToStr[e]
    PROVE  /\ str \in DOMAIN MethodFromStr /\ MethodFromStr[str] = e
           /\ Receiver!Apart(str, Receiver!SP)
  <1>1. DOMAIN MethodToStr = Methods /\ \A a \in Methods : MethodToStr[a] = << a >>
    BY DEF MethodToStr
  <1>2. \A a, b \in Methods : MethodToStr[a] = MethodToStr[b] => a = b
    BY <1>1
  <1>3. str \in DOMAIN MethodFromStr /\ MethodFromStr[str] = e
    BY <1>1, <1>2, Inverted DEF MethodFromStr
  <1>4. e # " "
    BY DEF Methods
  <1>5. str = << e >>
    BY <1>1
  <1>6. \A i \in 1 .. Len(str) : str[i] = e
    BY <1>5
  <1>7. Receiver!SP[1] = " "
    BY DEF Receiver!SP
  <1> QED BY <1>3, <1>4, <1>6, <1>7 DEF Receiver!Apart, Receiver!Contains

\* and versions have names that end no token.
LEMMA VersionNamed ==
    ASSUME NEW e \in Versions, NEW str, str = VersionToStr[e]
    PROVE  /\ str \in DOMAIN VersionFromStr /\ VersionFromStr[str] = e
           /\ Receiver!Apart(str, Receiver!SP) /\ Receiver!Apart(str, Receiver!CRLF)
  <1> DEFINE number(a) == IF a = "HTTPv1_0" THEN "1.0" ELSE "1.1"
  <1>1. DOMAIN VersionToStr = Versions /\ \A a \in Versions : VersionToStr[a] = << "HTTP/", number(a) >>
    BY DEF VersionToStr
  <1>2. \A a, b \in Versions : VersionToStr[a] = VersionToStr[b] => a = b
    <2> SUFFICES ASSUME NEW a \in Versions, NEW b \in Versions, VersionToStr[a] = VersionToStr[b]
                 PROVE  a = b
      OBVIOUS
    <2>1. << "HTTP/", number(a) >>[2] = << "HTTP/", number(b) >>[2]
      BY <1>1
    <2>2. number(a) = number(b)
      BY <2>1
    <2> QED BY <2>2 DEF Versions
  <1>3. str \in DOMAIN VersionFromStr /\ VersionFromStr[str] = e
    BY <1>1, <1>2, Inverted DEF VersionFromStr
  <1>4. number(e) \in {"1.0", "1.1"} /\ str = << "HTTP/", number(e) >>
    BY <1>1
  <1> HIDE DEF number
  <1>5. \A i \in 1 .. Len(str) : str[i] \in {"HTTP/", "1.0", "1.1"}
    <2>1. Len(str) = 2 /\ str[1] = "HTTP/" /\ str[2] = number(e)
      BY <1>4
    <2>2. \A i \in 1 .. 2 : i = 1 \/ i = 2
      OBVIOUS
    <2> QED BY <1>4, <2>1, <2>2
  <1>6. Receiver!SP[1] = " " /\ Receiver!CRLF[1] = "CR"
    BY DEF Receiver!SP, Receiver!CRLF
  <1> QED BY <1>3, <1>5, <1>6 DEF Receiver!Apart, Receiver!Contains

\* What is clean holds no symbol that ends it.
LEMMA CleanMeans ==
    ASSUME NEW S, NEW str \in Seq(S), NEW ends, NEW c \in ends, Clean(str, ends)
    PROVE  \A i \in 1 .. Len(str) : str[i] # c
  <1>1. DOMAIN str = 1 .. Len(str)
    BY LenProperties
  <1> QED BY <1>1 DEF Clean, ToSet

\* A target is written as one token and read as the one of that name.
LEMMA TargetNamed ==
    ASSUME NEW name \in DOMAIN TargetOf, NEW str, str = TargetToStr[name]
    PROVE  /\ str \in DOMAIN TargetFromStr /\ TargetFromStr[str] = name
           /\ str \in Seq(Byte) /\ Receiver!Apart(str, Receiver!SP)
  <1> DEFINE t == TargetOf[name]
             pick(text) == CHOOSE n \in DOMAIN TargetOf : TargetOf[n] \in Relay!DeserializeTarget(text)
  <1>1. t \in Range(TargetOf) /\ str = Relay!SerializeTarget(t)
    BY DEF Range, TargetToStr
  <1>2. t \in Relay!TargetType /\ Relay!WellFormed(t)
    BY <1>1, RelayMade DEF Relay!RelayAssumption
  <1>3. Relay!WellWritten(t)
    <2>1. t \in Relay!GoodTargets
      BY <1>2 DEF Relay!GoodTargets
    <2> HIDE DEF t
    <2> QED BY <2>1, RelayMade, Relay!TargetWritten
  <1>4. /\ str \in Seq(Relay!TargetByte)
        /\ Relay!DeserializeTarget(str) = {t}
        /\ Relay!HasNo(Relay!Verbatim(t), Relay!Ends) => Relay!HasNo(str, Relay!Ends)
    BY <1>1, <1>3 DEF Relay!WellWritten
  <1>5. str \in Seq(Byte)
    <2>1. CharOf \in [0 .. 255 -> Byte] /\ AlphaNum \subseteq Byte
      BY RelayMade DEF Relay!TargetsAssumption
    <2>2. Relay!Range(CharOf) \subseteq Byte
      BY <2>1 DEF Relay!Range
    <2>3. Relay!TargetByte \subseteq Byte
      BY <2>1, <2>2 DEF Relay!TargetByte
    <2> HIDE DEF t
    <2> QED BY <1>4, <2>3
  <1>6. str \in DOMAIN TargetFromStr /\ TargetFromStr[str] = name
    <2>1. str \in Range(TargetToStr)
      BY DEF Range, TargetToStr
    <2>2. TargetFromStr[str] = pick(str) /\ str \in DOMAIN TargetFromStr
      BY <2>1 DEF TargetFromStr
    <2>3. pick(str) \in DOMAIN TargetOf /\ TargetOf[pick(str)] = t
      BY <1>4
    <2> HIDE DEF pick
    <2> QED BY <2>2, <2>3, EndToEndAssumption
  <1>7. Relay!HasNo(Relay!Verbatim(t), Relay!Ends)
    <2> DEFINE v == Relay!Verbatim(t)
    <2>1. v \in Seq(Relay!TargetByte)
      BY <1>2, RelayMade, Relay!VerbatimBytes
    <2>2. Clean(v, {" ", "CR", "LF"}) /\ Relay!Ends = {" ", "CR", "LF"}
      BY <1>1, EndToEndAssumption DEF Relay!Ends
    <2> HIDE DEF v
    <2>3. Clean(v, Relay!Ends)
      BY <2>2
    <2>4. \A d \in Relay!Ends : \A i \in 1 .. Len(v) : v[i] # d
      BY <2>1, <2>3, CleanMeans
    <2>5. Relay!HasNo(v, Relay!Ends)
      BY <2>4 DEF Relay!HasNo, Relay!Contains
    <2> QED BY <2>5 DEF v
  <1>8. Receiver!Apart(str, Receiver!SP)
    <2>1. " " \in Relay!Ends /\ Receiver!SP[1] = " "
      BY DEF Relay!Ends, Receiver!SP
    <2> QED BY <1>4, <1>7, <2>1 DEF Receiver!Apart, Receiver!Contains, Relay!HasNo, Relay!Contains
  <1> QED BY <1>5, <1>6, <1>8

-----------------------------------------------------------------------------
(* One message. *)

\* Its parts.
LEMMA MessageParts ==
    ASSUME NEW m \in Messages
    PROVE  /\ m = [start_line |-> m.start_line, fields |-> m.fields, body |-> m.body]
           /\ m.start_line \in StartLines
           /\ Sender!StartLine(m.start_line) \in Seq(Byte)
           /\ m.fields \in Seq([key : Seq(Byte), value : Seq(Byte)])
           /\ m.body \in Seq(Byte)
           /\ Len(m.body) \in Nat /\ Len(m.fields) \in Nat
  <1>1. m = [start_line |-> m.start_line, fields |-> m.fields, body |-> m.body]
    BY EndToEndAssumption, Zenon
  <1>2. m.start_line \in StartLines
    BY EndToEndAssumption, Zenon
  <1>3. /\ Sender!StartLine(m.start_line) \in Seq(Byte)
        /\ m.fields \in Seq([key : Seq(Byte), value : Seq(Byte)])
        /\ m.body \in Seq(Byte)
    BY SenderMade, Zenon DEF Sender!MessagesAssumption
  <1> QED BY <1>1, <1>2, <1>3, LenProperties

\* The fields as they arrive are those that are kept.
LEMMA FieldsKept ==
    ASSUME NEW fields, Len(fields) \in Nat
    PROVE  \E kept : Receiver!Keeps(kept, fields) /\ kept[Len(fields)] = ArrivingFields(fields)
  <1> DEFINE first == CHOOSE f : Receiver!IsKept(f, fields, Len(fields))
  <1>1. \E f : Receiver!IsKept(f, fields, Len(fields))
    BY ReceiverMade, Receiver!KeptExists
  <1>2. Receiver!IsKept(first, fields, Len(fields))
    BY <1>1
  <1>3. ArrivingFields(fields) = first[Len(fields)]
    BY Zenon DEF ArrivingFields, Receiver!IsKept
  <1> HIDE DEF first
  <1>4. Receiver!Keeps(first, fields)
    BY <1>2, ReceiverMade, Receiver!KeptMeans
  <1> QED BY <1>3, <1>4

\* Nothing in them looks like the end of a name or a line.
LEMMA FieldsApart ==
    ASSUME NEW m \in Messages, CleanFields(m)
    PROVE  Receiver!ApartFields(m.fields)
  <1> SUFFICES ASSUME NEW i \in DOMAIN m.fields
               PROVE  /\ Receiver!Apart(m.fields[i].key, Receiver!COLON)
                      /\ Receiver!Apart(Receiver!NamedLine(m.fields[i].key, m.fields[i].value),
                                        Receiver!CRLF)
    BY DEF Receiver!ApartFields
  <1> DEFINE F == [key : Seq(Byte), value : Seq(Byte)]
             fields == m.fields
             key == m.fields[i].key
             value == m.fields[i].value
             ends == {":", "CR", "LF"}
  <1>1. key \in Seq(Byte) /\ value \in Seq(Byte)
    <2>1. fields \in Seq(F)
      BY MessageParts
    <2>2. fields[i] \in F
      <3> HIDE DEF F
      <3>1. i \in 1 .. Len(fields)
        BY <2>1, LenProperties
      <3> QED BY <2>1, <3>1, ElementOfSeq
    <2> QED BY <2>2
  <1>2. Clean(key, ends) /\ Clean(value, {"CR", "LF"})
    BY DEF CleanFields
  <1> HIDE DEF key, value
  <1>3. (\A j \in 1 .. Len(key) : key[j] # ":" /\ key[j] # "CR") /\ \A j \in 1 .. Len(value) : value[j] # "CR"
    <2>1. ":" \in ends /\ "CR" \in ends /\ "CR" \in {"CR", "LF"}
      OBVIOUS
    <2> HIDE DEF ends
    <2> QED BY <1>1, <1>2, <2>1, CleanMeans
  <1>4. Receiver!COLON[1] = ":" /\ Receiver!CRLF[1] = "CR" /\ Receiver!COLON \in Seq(Byte)
    BY ReceiverMade, Receiver!Tokens DEF Receiver!COLON, Receiver!CRLF
  <1>5. Receiver!Apart(key, Receiver!COLON)
    BY <1>3, <1>4 DEF Receiver!Apart, Receiver!Contains
  <1>6. Receiver!Apart(Receiver!NamedLine(key, value), Receiver!CRLF)
    <2> DEFINE colon == Receiver!COLON
    <2>1. ~ Contains(key, "CR") /\ ~ Contains(value, "CR") /\ ~ Contains(colon, "CR")
      BY <1>3 DEF Contains, Receiver!COLON
    <2>2. colon \in Seq(Byte) /\ Receiver!NamedLine(key, value) = (key \o colon) \o value
      BY <1>4 DEF Receiver!NamedLine
    <2> HIDE DEF colon
    <2>3. key \o colon \in Seq(Byte)
      BY <1>1, <2>2, ConcatProperties
    <2>4. ~ Contains(key \o colon, "CR")
      BY <1>1, <2>1, <2>2, ContainsConcat
    <2>5. ~ Contains((key \o colon) \o value, "CR")
      <3> DEFINE x == key \o colon
      <3>1. x \in Seq(Byte) /\ ~ Contains(x, "CR")
        BY <2>3, <2>4
      <3> HIDE DEF x
      <3>2. ~ Contains(x \o value, "CR")
        BY <1>1, <2>1, <3>1, ContainsConcat
      <3> QED BY <3>2 DEF x
    <2> QED BY <1>4, <2>2, <2>5 DEF Receiver!Apart, Receiver!Contains, Contains
  <1> QED BY <1>5, <1>6 DEF key, value

\* A length is read as it was written.
LEMMA LengthRead ==
    ASSUME NEW n \in Nat, NEW limit \in Nat, n < limit
    PROVE  Receiver!FromChars(Decimal[n], 10, limit) = n
  <1>1. Relay!IsNumeral(Decimal[n], 10) /\ Relay!NumeralValue(Decimal[n], 10) = n
    BY RelayMade, Relay!DecimalNumeral, SameDecimal
  <1> QED BY <1>1, SameNumeral DEF Receiver!FromChars

\* The body is announced by them.
LEMMA BodyAnnounced ==
    ASSUME NEW m \in Messages, LengthAnnounced(m), Len(m.body) <= MaxBodySize
    PROVE  Receiver!Announces(ArrivingFields(m.fields), Len(m.body))
  <1> DEFINE fields == ArrivingFields(m.fields)
             n == Len(m.body)
  <1>1. n \in Nat /\ n < SizeModulus /\ SizeModulus \in Nat
    <2>1. /\ n \in Nat /\ n <= MaxBodySize /\ MaxBodySize \in 0 .. SizeModulus - 2
          /\ SizeModulus \in Nat
      BY MessageParts, ReceiverMade DEF Receiver!HandlersAssumption, Receiver!StringsAssumption
    <2> QED BY <2>1
  <1>2. /\ Receiver!TransferEncoding \notin DOMAIN fields
        /\ Receiver!ContentLength \in DOMAIN fields => fields[Receiver!ContentLength] = Decimal[n]
        /\ Receiver!ContentLength \notin DOMAIN fields => m.body = << >>
    BY DEF LengthAnnounced
  <1> HIDE DEF fields, n
  <1>3. CASE Receiver!ContentLength \in DOMAIN fields
    <2>1. Receiver!FromChars(fields[Receiver!ContentLength], 10, SizeModulus) = n
      BY <1>1, <1>2, <1>3, LengthRead
    <2>2. n # Receiver!NoNumber
      BY <1>1 DEF Receiver!NoNumber
    <2>3. Receiver!BodyLength(fields) = n
      BY <1>3, <2>1, <2>2 DEF Receiver!BodyLength
    <2> QED BY <1>2, <2>3 DEF Receiver!Announces, fields, n
  <1>4. CASE Receiver!ContentLength \notin DOMAIN fields
    <2>1. n = 0
      BY <1>2, <1>4 DEF n
    <2>2. Receiver!BodyLength(fields) = 0
      BY <1>4 DEF Receiver!BodyLength
    <2> QED BY <1>2, <2>1, <2>2 DEF Receiver!Announces, fields, n
  <1> QED BY <1>3, <1>4

\* The fields are written as they are read.
LEMMA SameLines ==
    ASSUME NEW m
    PROVE  /\ Sender!FieldLines(m) = Receiver!NamedLines(m.fields)
           /\ Sender!Whole(m) = Receiver!Bytes(Sender!StartLine(m.start_line), m.fields, m.body)
  <1>1. Sender!FieldLines(m) = Receiver!NamedLines(m.fields)
    BY DEF Sender!FieldLines, Sender!FieldLine, Sender!CRLF, Receiver!NamedLines,
           Receiver!NamedLine, Receiver!CRLF, Receiver!COLON
  <1>2. Sender!CRLF = Receiver!CRLF
    BY DEF Sender!CRLF, Receiver!CRLF
  <1> QED BY <1>1, <1>2, SameFlatten DEF Sender!Whole, Receiver!Bytes

\* So a sendable message is framed.
LEMMA MessageFramed ==
    ASSUME NEW m \in Messages, Sendable(m)
    PROVE  \E kept : /\ Receiver!HeadAnnounces(m.fields, kept, m.body)
                     /\ kept[Len(m.fields)] = ArrivingFields(m.fields)
  <1>1. /\ CleanFields(m) /\ LengthAnnounced(m)
        /\ Len(FlattenSeq(Sender!FieldLines(m))) <= MaxFieldSize /\ Len(m.body) <= MaxBodySize
    BY DEF Sendable, WithinLimits
  <1>2. PICK kept : Receiver!Keeps(kept, m.fields) /\ kept[Len(m.fields)] = ArrivingFields(m.fields)
    BY MessageParts, FieldsKept
  <1>3. Receiver!ApartFields(m.fields)
    BY <1>1, FieldsApart
  <1>4. Receiver!Announces(kept[Len(m.fields)], Len(m.body))
    BY <1>1, <1>2, BodyAnnounced
  <1>5. Len(Receiver!FlattenSeq(Receiver!NamedLines(m.fields))) <= MaxFieldSize
    BY <1>1, SameFlatten, SameLines
  <1>6. m.fields \in Seq([key : Seq(Byte), value : Seq(Byte)]) /\ m.body \in Seq(Byte)
    BY MessageParts
  <1>7. Receiver!HeadAnnounces(m.fields, kept, m.body)
    BY <1>1, <1>2, <1>3, <1>4, <1>5, <1>6 DEF Receiver!HeadAnnounces
  <1> QED BY <1>2, <1>7

\* The start line of a request
LEMMA RequestLineParts ==
    ASSUME NEW m \in Messages, Sendable(m), IsRequest(m), NEW line, line = m.start_line
    PROVE  /\ line = Receiver!LineOf(line.method, line.target, line.version)
           /\ line.method \in Methods /\ line.target \in DOMAIN TargetOf /\ line.version \in Versions
           /\ Len(TargetToStr[line.target]) <= MaxTargetSize
  <1> DEFINE Responses == [kind : {"response"}, version : Versions, status : StatusType, reason : Seq(Byte)]
  <1>1. line.kind = "request"
    BY DEF IsRequest
  <1>2. line \in [kind : {"request"}, method : Methods, target : DOMAIN TargetOf, version : Versions]
    <2>1. line \in [kind : {"request"}, method : Methods, target : DOMAIN TargetOf, version : Versions]
            \/ line \in Responses
      BY MessageParts DEF StartLines
    <2>2. line \notin Responses
      BY <1>1
    <2> QED BY <2>1, <2>2
  <1>3. Len(TargetToStr[line.target]) <= MaxTargetSize
    BY <1>1 DEF Sendable, WithinLimits
  <1> QED BY <1>2, <1>3 DEF Receiver!LineOf

\* and of a response.
LEMMA StatusLineParts ==
    ASSUME NEW m \in Messages, Sendable(m), ~ IsRequest(m), NEW line, line = m.start_line
    PROVE  /\ line = Receiver!StatusLineOf(line.version, line.status, line.reason)
           /\ line.version \in Versions /\ line.status \in StatusCodes
           /\ line.reason \in Seq(Byte) /\ Len(line.reason) <= MaxReasonSize
           /\ Receiver!Apart(line.reason, Receiver!CRLF)
  <1> DEFINE Requests == [kind : {"request"}, method : Methods, target : DOMAIN TargetOf, version : Versions]
  <1>1. line.kind # "request"
    BY DEF IsRequest
  <1>2. line \in [kind : {"response"}, version : Versions, status : StatusType, reason : Seq(Byte)]
    <2>1. line \in [kind : {"response"}, version : Versions, status : StatusType, reason : Seq(Byte)]
            \/ line \in Requests
      BY MessageParts DEF StartLines
    <2>2. line \notin Requests
      BY <1>1
    <2> QED BY <2>1, <2>2
  <1>3. line.kind = "response" /\ line.version \in Versions /\ line.reason \in Seq(Byte)
    BY <1>2
  <1>4. /\ line.status \in StatusCodes /\ Len(line.reason) <= MaxReasonSize
        /\ {"CR", "LF"} \cap Sender!ToSet(line.reason) = {}
    BY <1>3 DEF Sendable, WithinLimits, Sender!Verify
  <1>5. Receiver!Apart(line.reason, Receiver!CRLF)
    <2> DEFINE r == line.reason
    <2>1. \A k \in 1 .. Len(r) : r[k] # "CR"
      <3>1. Clean(r, {"CR", "LF"}) /\ "CR" \in {"CR", "LF"}
        BY <1>4 DEF Clean, ToSet, Sender!ToSet
      <3>2. r \in Seq(Byte)
        BY <1>3
      <3> HIDE DEF r
      <3> QED BY <3>1, <3>2, CleanMeans
    <2>2. Receiver!CRLF[1] = "CR"
      BY DEF Receiver!CRLF
    <2> QED BY <2>1, <2>2 DEF Receiver!Apart, Receiver!Contains
  <1> QED BY <1>2, <1>3, <1>4, <1>5 DEF Receiver!StatusLineOf

\* The status of a response is read as the number it is.
LEMMA StatusNamed ==
    ASSUME NEW code \in StatusCodes, NEW str, str = StatusToStr[code]
    PROVE  /\ str \in Seq(Byte) /\ Len(str) = Receiver!StatusCodeLength
           /\ Receiver!Apart(str, Receiver!SP)
           /\ code # Receiver!NoNumber /\ code = Receiver!FromChars(str, 10, 2 ^ 16)
  <1>1. code \in 100 .. 999
    BY DEF StatusCodes
  <1>2. code \in StatusType /\ code \in Nat /\ code < 2 ^ 16 /\ 2 ^ 16 \in Nat
    <2>1. 2 ^ 16 = 65536
      BY SMT
    <2> QED BY <1>1, <2>1 DEF StatusType
  <1>3. str = Decimal[code]
    BY <1>2 DEF StatusToStr
  <1>4. str \in Seq(AlphaNum) /\ Len(str) = 3
    <2>1. Relay!Decimal[code] \in Seq(AlphaNum)
      BY <1>2, RelayMade, Relay!DecimalIs
    <2>2. Len(Relay!Decimal[code]) = 3
      BY <1>1, RelayMade, Relay!ThreeDigits, ZenonT(30)
    <2> QED BY <1>3, <2>1, <2>2, SameDecimal
  <1>5. AlphaNum \subseteq Byte /\ " " \notin AlphaNum
    BY RelayMade DEF Relay!TargetsAssumption
  <1>6. str \in Seq(Byte)
    <2>1. str = [i \in 1 .. 3 |-> str[i]]
      BY <1>4
    <2>2. \A i \in 1 .. 3 : str[i] \in Byte
      BY <1>4, <1>5, ElementOfSeq
    <2> QED BY <2>1, <2>2
  <1>7. Receiver!Apart(str, Receiver!SP)
    <2>1. \A i \in 1 .. Len(str) : str[i] \in AlphaNum
      BY <1>4, ElementOfSeq
    <2>2. Receiver!SP[1] = " "
      BY DEF Receiver!SP
    <2> QED BY <1>5, <2>1, <2>2 DEF Receiver!Apart, Receiver!Contains
  <1>8. code = Receiver!FromChars(str, 10, 2 ^ 16)
    <2> DEFINE limit == 2 ^ 16
    <2>1. limit \in Nat /\ code < limit
      BY <1>2
    <2> HIDE DEF limit
    <2>2. Receiver!FromChars(Decimal[code], 10, limit) = code
      BY <1>2, <2>1, LengthRead
    <2> QED BY <1>3, <2>2 DEF limit
  <1>9. code # Receiver!NoNumber /\ Len(str) = Receiver!StatusCodeLength
    BY <1>2, <1>4 DEF Receiver!NoNumber, Receiver!StatusCodeLength
  <1> QED BY <1>6, <1>7, <1>8, <1>9

\* A request that is sendable arrives as the message it is,
LEMMA RequestComes ==
    ASSUME NEW m \in Messages, Sendable(m), IsRequest(m)
    PROVE  Receiver!Arrives(TRUE, Sender!Whole(m), Arriving(m))
  <1> DEFINE line == m.start_line
             method == MethodToStr[line.method]
             target == TargetToStr[line.target]
             version == VersionToStr[line.version]
             head == Sender!StartLine(line)
  <1>1. /\ line = Receiver!LineOf(line.method, line.target, line.version)
        /\ line.method \in Methods /\ line.target \in DOMAIN TargetOf /\ line.version \in Versions
        /\ Len(target) <= MaxTargetSize
    BY RequestLineParts
  <1>2. /\ method \in DOMAIN MethodFromStr /\ MethodFromStr[method] = line.method
        /\ Receiver!Apart(method, Receiver!SP)
    BY <1>1, MethodNamed
  <1>3. /\ target \in DOMAIN TargetFromStr /\ TargetFromStr[target] = line.target
        /\ target \in Seq(Byte) /\ Receiver!Apart(target, Receiver!SP)
    BY <1>1, TargetNamed
  <1>4. /\ version \in DOMAIN VersionFromStr /\ VersionFromStr[version] = line.version
        /\ Receiver!Apart(version, Receiver!CRLF)
    BY <1>1, VersionNamed
  <1>5. head = Receiver!Joined(method, target, version, Receiver!SP, Receiver!CRLF)
    <2>1. line.kind = "request"
      BY DEF IsRequest
    <2> QED BY <2>1 DEF Sender!StartLine, Receiver!Joined, Receiver!SP, Receiver!CRLF, Sender!CRLF
  <1>6. PICK kept : /\ Receiver!HeadAnnounces(m.fields, kept, m.body)
                    /\ kept[Len(m.fields)] = ArrivingFields(m.fields)
    BY MessageFramed
  <1>7. line = Receiver!LineOf(MethodFromStr[method], TargetFromStr[target], VersionFromStr[version])
    BY <1>1, <1>2, <1>3, <1>4
  <1> HIDE DEF line, method, target, version, head
  <1>8. Receiver!Arrives(TRUE, Receiver!Bytes(head, m.fields, m.body),
                         Receiver!Completed(line, kept[Len(m.fields)], m.body))
    BY <1>1, <1>2, <1>3, <1>4, <1>5, <1>6, <1>7, ReceiverMade, Receiver!RequestArrives
  <1>9. Arriving(m) = Receiver!Completed(line, kept[Len(m.fields)], m.body)
    BY <1>6 DEF Arriving, Receiver!Completed, line
  <1>10. Sender!Whole(m) = Receiver!Bytes(head, m.fields, m.body)
    BY SameLines DEF head, line
  <1> QED BY <1>8, <1>9, <1>10

\* and so does a response.
LEMMA ResponseComes ==
    ASSUME NEW m \in Messages, Sendable(m), ~ IsRequest(m)
    PROVE  Receiver!Arrives(FALSE, Sender!Whole(m), Arriving(m))
  <1> DEFINE line == m.start_line
             version == VersionToStr[line.version]
             status == StatusToStr[line.status]
             head == Sender!StartLine(line)
  <1>1. /\ line = Receiver!StatusLineOf(line.version, line.status, line.reason)
        /\ line.version \in Versions /\ line.status \in StatusCodes
        /\ line.reason \in Seq(Byte) /\ Len(line.reason) <= MaxReasonSize
        /\ Receiver!Apart(line.reason, Receiver!CRLF)
    BY StatusLineParts
  <1>2. /\ version \in DOMAIN VersionFromStr /\ VersionFromStr[version] = line.version
        /\ Receiver!Apart(version, Receiver!SP)
    BY <1>1, VersionNamed
  <1>3. /\ status \in Seq(Byte) /\ Len(status) = Receiver!StatusCodeLength
        /\ Receiver!Apart(status, Receiver!SP)
        /\ line.status # Receiver!NoNumber /\ line.status = Receiver!StatusRead(status)
    BY <1>1, StatusNamed DEF Receiver!StatusRead
  <1>4. head = Receiver!Joined(version, status, line.reason, Receiver!SP, Receiver!CRLF)
    <2>1. line.kind # "request"
      BY DEF IsRequest
    <2> QED BY <2>1 DEF Sender!StartLine, Receiver!Joined, Receiver!SP, Receiver!CRLF, Sender!CRLF
  <1>5. PICK kept : /\ Receiver!HeadAnnounces(m.fields, kept, m.body)
                    /\ kept[Len(m.fields)] = ArrivingFields(m.fields)
    BY MessageFramed
  <1>6. line = Receiver!StatusLineOf(VersionFromStr[version], line.status, line.reason)
    BY <1>1, <1>2
  <1> HIDE DEF line, version, status, head
  <1>7. Receiver!Arrives(FALSE, Receiver!Bytes(head, m.fields, m.body),
                         Receiver!Completed(line, kept[Len(m.fields)], m.body))
    <2> DEFINE code == line.status
               reason == line.reason
    <2>1. /\ version \in DOMAIN VersionFromStr /\ Receiver!Apart(version, Receiver!SP)
          /\ status \in Seq(Byte) /\ Len(status) = Receiver!StatusCodeLength
          /\ Receiver!Apart(status, Receiver!SP)
          /\ code # Receiver!NoNumber /\ code = Receiver!StatusRead(status)
          /\ reason \in Seq(Byte) /\ Receiver!Apart(reason, Receiver!CRLF)
          /\ Len(reason) <= MaxReasonSize
          /\ Receiver!HeadAnnounces(m.fields, kept, m.body)
          /\ head = Receiver!Joined(version, status, reason, Receiver!SP, Receiver!CRLF)
          /\ line = Receiver!StatusLineOf(VersionFromStr[version], code, reason)
      BY <1>1, <1>2, <1>3, <1>4, <1>5, <1>6
    <2> HIDE DEF code, reason
    <2> QED BY <2>1, ReceiverMade, Receiver!ResponseArrives
  <1>8. Arriving(m) = Receiver!Completed(line, kept[Len(m.fields)], m.body)
    BY <1>5 DEF Arriving, Receiver!Completed, line
  <1>9. Sender!Whole(m) = Receiver!Bytes(head, m.fields, m.body)
    BY SameLines DEF head, line
  <1> QED BY <1>7, <1>8, <1>9
-----------------------------------------------------------------------------
(* The script. *)

ScriptFits == script \in Scripts /\ \A i \in DOMAIN script : Sendable(script[i])

\* Its messages as bytes, and as they arrive.
Pieces == [i \in 1 .. Len(script) |-> Sender!Whole(script[i])]
Arrivals == [i \in 1 .. Len(script) |-> Arriving(script[i])]

\* Whether the receiver is made for requests.
OfRequests == IsRequest(script[1])

\* All messages but the first are requests.
LEMMA ScriptParts ==
    ASSUME ScriptFits
    PROVE  /\ Len(script) \in Nat /\ Len(script) >= 1 /\ DOMAIN script = 1 .. Len(script)
           /\ \A i \in 1 .. Len(script) : script[i] \in Messages /\ Sendable(script[i])
           /\ \A i \in 2 .. Len(script) : IsRequest(script[i])
           /\ OfRequests \in BOOLEAN
  <1>1. /\ script \in Seq(Messages) /\ script # << >>
        /\ Len(script) = 1 \/ \A i \in DOMAIN script : IsRequest(script[i])
    BY EndToEndAssumption DEF ScriptFits
  <1>2. Len(script) \in Nat /\ DOMAIN script = 1 .. Len(script)
    BY <1>1, LenProperties
  <1>3. Len(script) # 0
    BY <1>1, EmptySeq
  <1>4. \A i \in 1 .. Len(script) : script[i] \in Messages
    BY <1>1, ElementOfSeq
  <1>5. \A i \in 2 .. Len(script) : i \in DOMAIN script /\ Len(script) # 1
    BY <1>2
  <1> QED BY <1>1, <1>2, <1>3, <1>4, <1>5 DEF ScriptFits, OfRequests, IsRequest

\* They arrive one after the other.
LEMMA ScriptArrives ==
    ASSUME ScriptFits
    PROVE  /\ Receiver!AllArrive(OfRequests, Pieces, Arrivals)
           /\ Pieces \in Seq(Seq(Byte)) /\ Len(Pieces) = Len(script)
           /\ \A i \in 1 .. Len(script) : Pieces[i] = Sender!Whole(script[i])
  <1> DEFINE n == Len(script)
  <1>1. /\ n \in Nat /\ n >= 1
        /\ \A i \in 1 .. n : script[i] \in Messages /\ Sendable(script[i])
        /\ \A i \in 2 .. n : IsRequest(script[i])
    BY ScriptParts
  <1>2. \A i \in 1 .. n : Pieces[i] = Sender!Whole(script[i]) /\ Arrivals[i] = Arriving(script[i])
    BY DEF Pieces, Arrivals
  <1>3. \A i \in 1 .. n : Receiver!Arrives(IsRequest(script[i]), Pieces[i], Arrivals[i])
    <2> SUFFICES ASSUME NEW i \in 1 .. n
                 PROVE  Receiver!Arrives(IsRequest(script[i]), Pieces[i], Arrivals[i])
      OBVIOUS
    <2>1. script[i] \in Messages /\ Sendable(script[i])
      BY <1>1
    <2>2. CASE IsRequest(script[i])
      <3>1. IsRequest(script[i]) = TRUE
        BY <2>2 DEF IsRequest
      <3> QED BY <1>2, <2>1, <2>2, <3>1, RequestComes
    <2>3. CASE ~ IsRequest(script[i])
      <3>1. IsRequest(script[i]) = FALSE
        BY <2>3 DEF IsRequest
      <3> QED BY <1>2, <2>1, <2>3, <3>1, ResponseComes
    <2> QED BY <2>2, <2>3
  <1>4. \A i \in 1 .. n : Pieces[i] \in Seq(Byte)
    BY <1>3 DEF Receiver!Arrives
  <1>5. Pieces \in Seq(Seq(Byte)) /\ Len(Pieces) = n
    BY <1>1, <1>4, SeqByAppending DEF Pieces
  <1>6. Arrivals \in Seq(Range(Arrivals)) /\ Len(Arrivals) = n
    BY <1>1 DEF Arrivals, Range
  <1>7. 1 \in 1 .. n /\ \A i \in 2 .. n : i \in 1 .. n
    BY <1>1
  <1>8. Receiver!Arrives(OfRequests, Pieces[1], Arrivals[1])
    BY <1>3, <1>7 DEF OfRequests
  <1>9. \A i \in 2 .. n : Receiver!Arrives(TRUE, Pieces[i], Arrivals[i])
    <2> SUFFICES ASSUME NEW i \in 2 .. n PROVE Receiver!Arrives(TRUE, Pieces[i], Arrivals[i])
      OBVIOUS
    <2>1. IsRequest(script[i]) = TRUE
      BY <1>1 DEF IsRequest
    <2> QED BY <1>3, <1>7, <2>1
  <1>10. \E S : Arrivals \in Seq(S)
    BY <1>6
  <1> QED BY <1>1, <1>2, <1>5, <1>6, <1>8, <1>9, <1>10 DEF Receiver!AllArrive

-----------------------------------------------------------------------------
(* The inductive invariant: what was sent is a prefix of the script, and   *)
(* the receiver is where that prefix in one piece would have taken it.     *)

SenderInv ==
    /\ ScriptFits
    /\ current \in 1 .. Len(script)
    /\ Sender!IInv
    /\ sPhase = "done" => empties = 2
    /\ earlier = FlattenSeq(SubSeq(Pieces, 1, current - 1))

ReceiverInv ==
    /\ Receiver!IInv
    /\ Receiver!EventsInv
    /\ Receiver!SegmentsInvFor(OfRequests)

EInv == SenderInv /\ ReceiverInv

\* The message that is being sent follows the earlier ones.
LEMMA CurrentPiece ==
    ASSUME SenderInv
    PROVE  /\ earlier \in Seq(Byte) /\ Pieces[current] \in Seq(Byte)
           /\ Pieces[current] = Sender!Whole(script[current])
           /\ FlattenSeq(SubSeq(Pieces, 1, current)) = earlier \o Pieces[current]
  <1>1. /\ Pieces \in Seq(Seq(Byte)) /\ Len(Pieces) = Len(script)
        /\ \A i \in 1 .. Len(script) : Pieces[i] = Sender!Whole(script[i])
    BY ScriptArrives DEF SenderInv
  <1>2. Len(script) \in Nat /\ current \in 1 .. Len(script)
    BY ScriptParts DEF SenderInv
  <1> DEFINE k == current - 1
  <1>3. k \in 0 .. Len(Pieces) - 1 /\ k + 1 = current
    BY <1>1, <1>2
  <1> HIDE DEF k
  <1>4. /\ FlattenSeq(SubSeq(Pieces, 1, k)) \in Seq(Byte)
        /\ Pieces[k + 1] \in Seq(Byte)
        /\ FlattenSeq(SubSeq(Pieces, 1, k + 1)) = FlattenSeq(SubSeq(Pieces, 1, k)) \o Pieces[k + 1]
    BY <1>1, <1>3, FlattenStep
  <1>5. earlier = FlattenSeq(SubSeq(Pieces, 1, k))
    BY DEF SenderInv, k
  <1> QED BY <1>1, <1>2, <1>3, <1>4, <1>5

\* What was sent is a prefix of the script.
LEMMA WireBegins ==
    ASSUME SenderInv
    PROVE  /\ emitted \in Seq(Byte) /\ wire \in Seq(Byte)
           /\ \E more \in Seq(Byte) : wire \o more = FlattenSeq(Pieces)
  <1> DEFINE w == Pieces[current]
             sent == FlattenSeq(SubSeq(Pieces, 1, current))
  <1>1. earlier \in Seq(Byte) /\ w = Sender!Whole(script[current]) /\ sent = earlier \o w
    BY CurrentPiece
  <1>2. emitted \in Seq(Byte) /\ \E rest \in Seq(Byte) : w = emitted \o rest
    BY <1>1, SenderMade, Sender!EmittedIsPrefix DEF SenderInv
  <1>3. PICK rest \in Seq(Byte) : w = emitted \o rest
    BY <1>2
  <1>4. \E last \in Seq(Byte) : FlattenSeq(Pieces) = sent \o last
    <2>1. Pieces \in Seq(Seq(Byte)) /\ Len(Pieces) = Len(script)
      BY ScriptArrives DEF SenderInv
    <2>2. current \in 0 .. Len(Pieces)
      BY <2>1, ScriptParts DEF SenderInv
    <2> QED BY <2>1, <2>2, FlattenPrefix
  <1>5. PICK last \in Seq(Byte) : FlattenSeq(Pieces) = sent \o last
    BY <1>4
  <1> HIDE DEF w, sent
  <1>6. wire = earlier \o emitted /\ wire \in Seq(Byte)
    BY <1>1, <1>2, ConcatProperties DEF wire
  <1>7. rest \o last \in Seq(Byte)
    BY ConcatProperties
  <1>8. Associates(earlier, emitted, rest) /\ Associates(wire, rest, last)
    BY <1>1, <1>2, <1>6, Associate
  <1>9. sent = wire \o rest
    BY <1>1, <1>3, <1>6, <1>8 DEF Associates
  <1>10. FlattenSeq(Pieces) = wire \o (rest \o last)
    BY <1>5, <1>8, <1>9 DEF Associates
  <1> QED BY <1>2, <1>6, <1>7, <1>10

\* Nothing is refused, and the messages delivered are those of the script, as many
\* as have come.
OnWay == error = Receiver!NoError /\ Receiver!GoesOn(delivered, Receiver!Events(Arrivals))

\* That is so whatever part of the stream has come, and however it was cut.
LEMMA AllOnWay == EInv => OnWay
  <1> SUFFICES ASSUME EInv PROVE OnWay
    OBVIOUS
  <1>1. SenderInv /\ ReceiverInv /\ ScriptFits
    BY DEF EInv, SenderInv
  <1>2. PICK more \in Seq(Byte) : wire \o more = FlattenSeq(Pieces)
    BY <1>1, WireBegins
  <1>3. Receiver!ToCome(Pieces, more)
    BY <1>1, <1>2, WireBegins, SameFlatten DEF Receiver!ToCome
  <1>4. Receiver!AllArrive(OfRequests, Pieces, Arrivals) /\ OfRequests \in BOOLEAN
    BY <1>1, ScriptArrives, ScriptParts
  <1>5. Receiver!IInv /\ Receiver!EventsInv /\ Receiver!SegmentsInvFor(OfRequests)
    BY <1>1 DEF ReceiverInv
  <1>6. PICK r \in BOOLEAN : r = OfRequests
    BY <1>4
  <1>7. Receiver!AllArrive(r, Pieces, Arrivals) /\ Receiver!SegmentsInvFor(r)
    BY <1>4, <1>5, <1>6
  <1>8. error = Receiver!NoError /\ Receiver!GoesOn(delivered, Receiver!Events(Arrivals))
    BY <1>3, <1>5, <1>7, ReceiverMade, Receiver!OnlyTheseArrive
  <1> QED BY <1>8 DEF OnWay

-----------------------------------------------------------------------------
(* Each step keeps it. *)

\* At first nothing was sent.
LEMMA InitEInv == Init => EInv
  <1> SUFFICES ASSUME Init PROVE EInv
    OBVIOUS
  <1>1. ScriptFits
    BY DEF Init, ScriptFits
  <1>2. /\ Len(script) \in Nat /\ Len(script) >= 1 /\ OfRequests \in BOOLEAN
        /\ \A i \in 1 .. Len(script) : script[i] \in Messages
    BY <1>1, ScriptParts
  <1>3. current = 1 /\ 1 \in 1 .. Len(script) /\ script[current] \in Messages
    BY <1>2 DEF Init
  <1>4. Sender!IInv /\ sPhase # "done"
    <2>1. Sender!Init
      BY <1>3 DEF Init, Sender!Init
    <2>2. sPhase = "calling"
      BY DEF Init, Sender!Fresh
    <2> QED BY <2>1, <2>2, SenderMade, Sender!InitIInv
  <1>5. earlier = FlattenSeq(SubSeq(Pieces, 1, current - 1))
    <2>1. SubSeq(Pieces, 1, 0) = << >> /\ current - 1 = 0
      BY <1>3, SubSeqEmpty
    <2> QED BY <2>1, FlattenEmpty DEF Init
  <1>6. ReceiverInv
    <2>1. wire = << >> /\ << >> \in Seq(Byte)
      BY ConcatEmptySeq DEF Init, wire
    <2>2. Receiver!MadeFor(OfRequests)
      BY <2>1 DEF Init, Receiver!MadeFor, OfRequests, Receiver!NoError
    <2>3. PICK r \in BOOLEAN : r = OfRequests
      BY <1>2
    <2>4. Receiver!MadeFor(r)
      BY <2>2, <2>3
    <2>5. Receiver!IInv
      BY <2>4, ReceiverMade, Receiver!MadeIInv
    <2>6. Receiver!EventsInv
      BY <2>4, ReceiverMade, Receiver!MadeEvents
    <2>7. Receiver!SegmentsInvFor(r)
      BY <2>4, ReceiverMade, Receiver!MadeSegments
    <2> QED BY <2>3, <2>5, <2>6, <2>7 DEF ReceiverInv
  <1> QED BY <1>1, <1>3, <1>4, <1>5, <1>6 DEF EInv, SenderInv

\* What is added to the stream does not move the receiver.
LEMMA AddsKeeps ==
    ASSUME ReceiverInv, OfRequests \in BOOLEAN, OfRequests' = OfRequests,
           NEW more, Receiver!Adds(more)
    PROVE  ReceiverInv'
  <1>1. PICK r \in BOOLEAN : r = OfRequests
    OBVIOUS
  <1>2. Receiver!IInv /\ Receiver!EventsInv /\ Receiver!SegmentsInvFor(r)
    BY <1>1 DEF ReceiverInv
  <1>3. Receiver!IInv' /\ Receiver!EventsInv' /\ Receiver!SegmentsInvFor(r)'
    BY <1>2, ReceiverMade, Receiver!StreamGoesOn
  <1> QED BY <1>1, <1>3 DEF ReceiverInv

\* What is sent is added to the stream.
LEMMA SendEInv ==
    ASSUME EInv, Send \/ Lose
    PROVE  EInv'
  <1>1. UNCHANGED << script, current, earlier, rVars >>
    BY DEF Send, Lose
  <1>2. Sender!Next /\ (sPhase' = "done" => empties' = 2)
    <2>1. ASSUME NEW n, Sender!SocketTakes(n)
          PROVE  Sender!Next /\ (sPhase' = "done" => empties' = 2)
      BY <2>1 DEF Sender!SocketTakes, Sender!Next, Sender!Client
    <2>2. ASSUME Sender!Resume PROVE Sender!Next /\ (sPhase' = "done" => empties' = 2)
      BY <2>2 DEF Sender!Next, Sender!Resume, Sender!ResumeRemainder, Sender!ResumeComplete,
         Sender!ResumeBody, Sender!ResumeFill, Sender!Fill, Sender!Filled, Sender!Return
    <2>3. ASSUME Sender!Stop PROVE Sender!Next /\ (sPhase' = "done" => empties' = 2)
      BY <2>3, EndToEndAssumption DEF Sender!Stop, Sender!Next, Sender!Client
    <2>4. ASSUME Sender!CallAgain \/ Sender!WriteFails
          PROVE  Sender!Next /\ (sPhase' = "done" => empties' = 2)
      BY <2>4 DEF Sender!CallAgain, Sender!WriteFails, Sender!Next, Sender!Client
    <2> QED BY <2>1, <2>2, <2>3, <2>4 DEF Send, Lose
  <1>3. Sender!IInv'
    BY <1>2, SenderMade, Sender!InductiveStep DEF EInv, SenderInv
  <1>4. SenderInv'
    BY <1>1, <1>2, <1>3 DEF EInv, SenderInv, ScriptFits, Pieces
  <1>5. \E more \in Seq(Byte) : wire' = wire \o more
    <2>1. emitted' = emitted \/ \E n \in 1 .. Len(span) : emitted' = emitted \o SubSeq(span, 1, n)
      BY <1>2 DEF Sender!Next, Sender!Client, Sender!SocketTakes, Sender!Stop, Sender!CallAgain,
         Sender!WriteFails, Sender!Resume, Sender!ResumeRemainder, Sender!ResumeComplete,
         Sender!ResumeBody, Sender!ResumeFill, Sender!Fill, Sender!Filled
    <2>2. earlier \in Seq(Byte) /\ emitted \in Seq(Byte) /\ wire \in Seq(Byte)
      BY CurrentPiece, WireBegins DEF EInv
    <2>3. CASE emitted' = emitted
      <3>1. wire' = wire
        BY <1>1, <2>3 DEF wire
      <3>2. wire \o << >> = wire /\ << >> \in Seq(Byte)
        BY <2>2, ConcatEmptySeq
      <3> QED BY <3>1, <3>2
    <2>4. ASSUME NEW n \in 1 .. Len(span), emitted' = emitted \o SubSeq(span, 1, n)
          PROVE  \E more \in Seq(Byte) : wire' = wire \o more
      <3> DEFINE more == SubSeq(span, 1, n)
      <3>1. span \in Seq(Byte) /\ n \in 0 .. Len(span)
        BY <2>4 DEF EInv, SenderInv, Sender!IInv, Sender!Typed
      <3>2. more \in Seq(Byte)
        BY <3>1, FrontProperties
      <3>3. wire' = earlier \o (emitted \o more)
        BY <1>1, <2>4 DEF wire
      <3> HIDE DEF more
      <3>4. Associates(earlier, emitted, more)
        BY <2>2, <3>2, Associate
      <3> QED BY <3>2, <3>3, <3>4 DEF Associates, wire
    <2> QED BY <2>1, <2>3, <2>4
  <1>6. PICK more \in Seq(Byte) : wire' = wire \o more
    BY <1>5
  <1>7. wire' \in Seq(Byte)
    <2>1. wire \in Seq(Byte)
      BY WireBegins DEF EInv
    <2> QED BY <1>6, <2>1, ConcatProperties
  <1>8. OfRequests \in BOOLEAN /\ OfRequests' = OfRequests
    BY <1>1, ScriptParts DEF EInv, SenderInv, OfRequests
  <1>9. UNCHANGED << fed, rPhase, input, rRemainder, rState, output, delivered, error >>
    BY <1>1 DEF rVars
  <1>10. Receiver!Adds(more)
    BY <1>6, <1>7, <1>9 DEF Receiver!Adds
  <1>11. ReceiverInv'
    BY <1>8, <1>10, AddsKeeps DEF EInv
  <1> QED BY <1>4, <1>11 DEF EInv
\* A machine made for the next message starts where the one before ended.
LEMMA SendNextEInv ==
    ASSUME EInv, SendNext
    PROVE  EInv'
  <1>1. /\ UNCHANGED << script, rVars >> /\ sPhase = "done" /\ current < Len(script)
        /\ current' = current + 1 /\ earlier' = wire /\ emitted' = << >> /\ Sender!Make
    BY DEF SendNext
  <1>2. /\ ScriptFits /\ Len(script) \in Nat /\ current \in 1 .. Len(script)
        /\ \A i \in 1 .. Len(script) : script[i] \in Messages
    BY ScriptParts DEF EInv, SenderInv
  <1>3. current' \in 1 .. Len(script)
    BY <1>1, <1>2
  <1>4. script'[current'] \in Messages
    BY <1>1, <1>2, <1>3
  <1>5. Sender!IInv'
    BY <1>1, <1>4, SenderMade, Sender!MadeAnew
  <1>6. sPhase' # "done"
    BY <1>1 DEF Sender!Make
  <1>7. earlier' = FlattenSeq(SubSeq(Pieces, 1, current))
    <2>1. emitted = Sender!Whole(script[current])
      BY <1>1 DEF EInv, SenderInv, Sender!IInv, Sender!WhenEnded
    <2>2. FlattenSeq(SubSeq(Pieces, 1, current)) = earlier \o Sender!Whole(script[current])
      BY CurrentPiece DEF EInv
    <2> QED BY <1>1, <2>1, <2>2 DEF wire
  <1>8. Pieces' = Pieces
    BY <1>1 DEF Pieces
  <1>9. current' - 1 = current
    BY <1>1, <1>2
  <1>10. SenderInv'
    <2>1. ScriptFits' /\ current' \in 1 .. Len(script')
      BY <1>1, <1>2, <1>3 DEF ScriptFits
    <2>2. earlier' = FlattenSeq(SubSeq(Pieces', 1, current' - 1))
      BY <1>7, <1>8, <1>9
    <2> QED BY <1>5, <1>6, <2>1, <2>2 DEF SenderInv
  <1>11. wire \in Seq(Byte)
    BY WireBegins DEF EInv
  <1>12. wire' = wire \o << >> /\ << >> \in Seq(Byte) /\ wire' \in Seq(Byte)
    <2>1. wire \o << >> = wire
      BY <1>11, ConcatEmptySeq
    <2> QED BY <1>1, <1>11, <2>1 DEF wire
  <1>13. OfRequests \in BOOLEAN /\ OfRequests' = OfRequests
    BY <1>1, <1>2, ScriptParts DEF OfRequests
  <1>14. UNCHANGED << fed, rPhase, input, rRemainder, rState, output, delivered, error >>
    BY <1>1 DEF rVars
  <1>15. Receiver!Adds(<< >>)
    BY <1>12, <1>14 DEF Receiver!Adds
  <1>16. ReceiverInv'
    BY <1>13, <1>15, AddsKeeps DEF EInv
  <1> QED BY <1>10, <1>16 DEF EInv

\* A step of the receiver is one of its machine.
LEMMA ReceiverMoves ==
    ASSUME Receive \/ Parse
    PROVE  Receiver!Next /\ wire' = wire
  <1>1. wire' = wire
    BY DEF Receive, Parse, sVars, wire
  <1>2. CASE Receive
    <2>1. PICK n : Receiver!Call(n)
      BY <1>2 DEF Receive
    <2>2. n \in 0 .. Len(wire) - fed
      BY <2>1 DEF Receiver!Call
    <2> QED BY <1>1, <2>1, <2>2 DEF Receiver!Next
  <1>3. CASE Parse
    BY <1>1, <1>3 DEF Parse, Receiver!Next
  <1> QED BY <1>2, <1>3

\* What the receiver reads is no news for the stream.
LEMMA ReceiveEInv ==
    ASSUME EInv, Receive \/ Parse
    PROVE  EInv'
  <1>1. UNCHANGED << script, current, sRemainder, sState, sPhase, written, span, empties, emitted, earlier >>
    BY DEF Receive, Parse, sVars
  <1>2. SenderInv'
    <2>1. Sender!IInv'
      BY <1>1, SenderMade, Sender!InductiveStep DEF EInv, SenderInv, Sender!vars
    <2> QED BY <1>1, <2>1 DEF EInv, SenderInv, ScriptFits, Pieces
  <1>3. Receiver!Next
    BY ReceiverMoves
  <1>4. OfRequests \in BOOLEAN /\ OfRequests' = OfRequests
    BY <1>1, ScriptParts DEF EInv, SenderInv, OfRequests
  <1>5. Receiver!IInv'
    BY <1>3, ReceiverMade, Receiver!InductiveStep DEF EInv, ReceiverInv
  <1>6. Receiver!EventsInv'
    BY <1>3, ReceiverMade, Receiver!EventsStep DEF EInv, ReceiverInv
  <1>7. PICK r \in BOOLEAN : r = OfRequests
    BY <1>4
  <1>8. Receiver!SegmentsInvFor(r)'
    BY <1>3, <1>7, ReceiverMade, Receiver!SegmentsStep DEF EInv, ReceiverInv
  <1> QED BY <1>2, <1>4, <1>5, <1>6, <1>7, <1>8 DEF EInv, ReceiverInv

\* A step that changes nothing.
LEMMA StutterEInv ==
    ASSUME EInv, UNCHANGED vars
    PROVE  EInv'
  <1>1. UNCHANGED << script, current, sRemainder, sState, sPhase, written, span, empties, emitted,
                     earlier, fed, rPhase, input, rRemainder, rState, output, delivered, error >>
    BY DEF vars, sVars, rVars
  <1>2. SenderInv'
    <2>1. Sender!IInv'
      BY <1>1, SenderMade, Sender!InductiveStep DEF EInv, SenderInv, Sender!vars
    <2> QED BY <1>1, <2>1 DEF EInv, SenderInv, ScriptFits, Pieces
  <1>3. OfRequests \in BOOLEAN /\ OfRequests' = OfRequests /\ wire' = wire
    BY <1>1, ScriptParts DEF EInv, SenderInv, OfRequests, wire
  <1>4. UNCHANGED Receiver!vars
    BY <1>1, <1>3 DEF Receiver!vars
  <1>5. Receiver!IInv' /\ Receiver!EventsInv'
    BY <1>4, ReceiverMade, Receiver!InductiveStep, Receiver!EventsStep DEF EInv, ReceiverInv
  <1>6. PICK r \in BOOLEAN : r = OfRequests
    BY <1>3
  <1>7. Receiver!SegmentsInvFor(r)'
    BY <1>4, <1>6, ReceiverMade, Receiver!SegmentsStep DEF EInv, ReceiverInv
  <1> QED BY <1>2, <1>3, <1>5, <1>6, <1>7 DEF EInv, ReceiverInv

\* So it holds throughout,
LEMMA EInvariant == Spec => []EInv
  <1>1. EInv /\ [Next]_vars => EInv'
    BY SendEInv, SendNextEInv, ReceiveEInv, StutterEInv DEF Next
  <1> QED BY <1>1, InitEInv, PTL DEF Spec

\* and with it what follows for the receiver.
LEMMA AlwaysOnWay == Spec => []OnWay
  BY EInvariant, AllOnWay, PTL

-----------------------------------------------------------------------------
\* No message that is sendable is refused on arrival, whatever the limits and
\* wherever the stream is cut: both sides agree on the names of methods,
\* versions, statuses and targets and on the end of every part (message.cpp of
\* serialize and of deserialize).
THEOREM NothingIsRefused == Spec => []NeverRefused
  <1>1. OnWay => NeverRefused
    BY DEF OnWay, NeverRefused, Receiver!NoError
  <1> QED BY <1>1, AlwaysOnWay, PTL

\* A message that is delivered is the next one of the script.
LEMMA NextOfScript ==
    ASSUME ScriptFits, OnWay
    PROVE  /\ Len(delivered) \in Nat /\ Len(delivered) <= Len(script)
           /\ DOMAIN delivered = 1 .. Len(delivered)
           /\ \A i \in 1 .. Len(delivered) : delivered[i].message = Arriving(script[i])
  <1> DEFINE all == Receiver!Events(Arrivals)
  <1>1. PICK S : /\ delivered \in Seq(S) /\ all \in Seq(S)
                 /\ Len(delivered) <= Len(all)
                 /\ \A i \in 1 .. Len(delivered) : all[i] = delivered[i]
    BY DEF OnWay, Receiver!GoesOn
  <1>2. Len(script) \in Nat
    BY ScriptParts
  <1>3. /\ Len(all) = Len(script)
        /\ \A i \in 1 .. Len(script) : all[i] = Receiver!MessageEvent(Arriving(script[i]))
    BY <1>2 DEF Arrivals, Receiver!Events
  <1>4. \A x : Receiver!MessageEvent(x).message = x
    BY DEF Receiver!MessageEvent
  <1> HIDE DEF all
  <1>5. Len(delivered) \in Nat /\ DOMAIN delivered = 1 .. Len(delivered)
    BY <1>1, LenProperties
  <1>6. \A i \in 1 .. Len(delivered) : i \in 1 .. Len(script)
    BY <1>1, <1>2, <1>3, <1>5
  <1>7. \A i \in 1 .. Len(delivered) : delivered[i].message = Arriving(script[i])
    BY <1>1, <1>3, <1>4, <1>6
  <1> QED BY <1>1, <1>3, <1>5, <1>7
-----------------------------------------------------------------------------
(* Refinement. *)

\* The first k messages of the script as they arrive.
FirstArrivals(k) == [i \in 1 .. k |-> Arriving(script[i])]

\* One more is one more.
LEMMA OneMoreArrival ==
    ASSUME NEW k \in Nat
    PROVE  /\ Len(FirstArrivals(k)) = k
           /\ Append(FirstArrivals(k), Arriving(script[k + 1])) = FirstArrivals(k + 1)
  <1> DEFINE f(i) == Arriving(script[i])
             S == {f(i) : i \in 1 .. k + 1}
  <1> HIDE DEF f
  <1>1. [i \in 1 .. k |-> f(i)] \in Seq(S) /\ Len([i \in 1 .. k |-> f(i)]) = k /\ f(k + 1) \in S
    OBVIOUS
  <1>2. Append([i \in 1 .. k |-> f(i)], f(k + 1)) = [i \in 1 .. k + 1 |-> f(i)]
    BY <1>1
  <1> QED BY <1>1, <1>2 DEF FirstArrivals, f

\* What the user of the receiver was given.
Received == [i \in DOMAIN delivered |-> delivered[i].message]

ReceivedInOrder ==
    /\ Len(delivered) \in Nat /\ Len(delivered) <= Len(script)
    /\ Received = FirstArrivals(Len(delivered))

\* They are the messages of the script that arrived first.
LEMMA ReceivedFirst == ScriptFits /\ OnWay => ReceivedInOrder
  <1> SUFFICES ASSUME ScriptFits, OnWay PROVE ReceivedInOrder
    OBVIOUS
  <1> DEFINE n == Len(delivered)
  <1>1. /\ n \in Nat /\ n <= Len(script) /\ DOMAIN delivered = 1 .. n
        /\ \A i \in 1 .. n : delivered[i].message = Arriving(script[i])
    BY NextOfScript
  <1> HIDE DEF n
  <1>2. Received = FirstArrivals(n)
    BY <1>1 DEF Received, FirstArrivals
  <1> QED BY <1>1, <1>2 DEF ReceivedInOrder, n

\* The callback that a pass through a loop makes is the receipt of the next
\* message; a pass without one is not seen.
LEMMA ParseReceives ==
    ASSUME ScriptFits, OnWay, OnWay', Parse, Receiver!DeliveredIsList
    PROVE  \/ delivered' = delivered
           \/ /\ Len(Received) < Len(script)
              /\ Received' = Append(Received, Arriving(script[Len(Received) + 1]))
  <1>1. script' = script
    BY DEF Parse, sVars
  <1>2. Receiver!Next
    BY ReceiverMoves
  <1>3. delivered' = delivered \/ \E e : delivered' = delivered \o << e >>
    BY <1>2, ReceiverMade, Receiver!OneOrNone
  <1>4. ASSUME NEW e, delivered' = delivered \o << e >>
        PROVE  /\ Len(Received) < Len(script)
               /\ Received' = Append(Received, Arriving(script[Len(Received) + 1]))
    <2> DEFINE n == Len(delivered)
    <2>1. n \in Nat /\ n <= Len(script) /\ Received = FirstArrivals(n)
      BY ReceivedFirst DEF ReceivedInOrder
    <2>2. Len(delivered') = n + 1
      <3>1. PICK S : delivered \in Seq(S)
        BY DEF Receiver!DeliveredIsList
      <3>2. delivered \in Seq(S \cup {e}) /\ << e >> \in Seq(S \cup {e}) /\ Len(<< e >>) = 1
        BY <3>1
      <3>3. Len(delivered \o << e >>) = Len(delivered) + Len(<< e >>)
        BY <3>2, ConcatProperties
      <3> QED BY <1>4, <3>2, <3>3
    <2>3. ScriptFits'
      BY <1>1 DEF ScriptFits
    <2>4. Len(delivered') <= Len(script') /\ Received' = FirstArrivals(Len(delivered))'
      <3>1. ReceivedInOrder'
        BY <2>3, ReceivedFirst, PTL
      <3> QED BY <3>1 DEF ReceivedInOrder
    <2>5. FirstArrivals(Len(delivered))' = FirstArrivals(n + 1)
      BY <1>1, <2>2 DEF FirstArrivals
    <2> HIDE DEF n
    <2>6. n < Len(script)
      <3>1. n + 1 <= Len(script) /\ Len(script) \in Nat
        BY <1>1, <2>2, <2>4, ScriptParts
      <3> QED BY <2>1, <3>1
    <2>7. Len(FirstArrivals(n)) = n
          /\ Append(FirstArrivals(n), Arriving(script[n + 1])) = FirstArrivals(n + 1)
      BY <2>1, OneMoreArrival
    <2> QED BY <2>1, <2>4, <2>5, <2>6, <2>7
  <1> QED BY <1>3, <1>4

\* A step of either end is one of the channel or is not seen.
LEMMA ChannelStep ==
    ASSUME EInv, OnWay, OnWay', [Next]_vars
    PROVE  [Channel!Next]_(Channel!vars)
  <1> DEFINE arrivals == [i \in DOMAIN script |-> Arriving(script[i])]
             lost == sPhase = "lost"
  <1>0. UNCHANGED script
    BY DEF Next, Send, Lose, SendNext, Receive, Parse, sVars, vars
  <1>1. arrivals' = arrivals
    BY <1>0
  <1>2. CASE UNCHANGED delivered /\ lost' = lost
    <2>1. Received' = Received
      BY <1>2 DEF Received
    <2> QED BY <1>1, <1>2, <2>1 DEF Channel!vars, Received
  <1>3. CASE Send
    <2>1. sPhase # "lost" /\ sPhase' # "lost"
      BY <1>3 DEF Send, Sender!Resume, Sender!ResumeRemainder, Sender!ResumeComplete,
         Sender!ResumeBody, Sender!ResumeFill, Sender!Fill, Sender!Filled, Sender!Return,
         Sender!SocketTakes, Sender!CallAgain, Sender!Stop
    <2>2. UNCHANGED delivered
      BY <1>3 DEF Send, rVars
    <2> QED BY <1>2, <2>1, <2>2
  <1>4. CASE Lose
    <2>1. ~ lost /\ lost' = TRUE
      BY <1>4 DEF Lose, Sender!WriteFails
    <2>2. Received' = Received
      BY <1>4 DEF Lose, rVars, Received
    <2> QED BY <1>1, <2>1, <2>2 DEF Channel!Next, Channel!Lose, Received
  <1>5. CASE SendNext
    <2>1. sPhase # "lost" /\ sPhase' # "lost"
      BY <1>5 DEF SendNext, Sender!Make
    <2>2. UNCHANGED delivered
      BY <1>5 DEF SendNext, rVars
    <2> QED BY <1>2, <2>1, <2>2
  <1>6. CASE Receive
    BY <1>2, <1>6 DEF Receive, sVars, Receiver!Call
  <1>7. CASE Parse
    <2>1. UNCHANGED sPhase
      BY <1>7 DEF Parse, sVars
    <2>2. ScriptFits /\ Receiver!DeliveredIsList
      BY DEF EInv, SenderInv, ReceiverInv, Receiver!EventsInv
    <2>3. \/ delivered' = delivered
          \/ /\ Len(Received) < Len(script)
             /\ Received' = Append(Received, Arriving(script[Len(Received) + 1]))
      BY <1>7, <2>2, ParseReceives
    <2>4. CASE delivered' = delivered
      BY <1>2, <2>1, <2>4
    <2>5. CASE /\ Len(Received) < Len(script)
               /\ Received' = Append(Received, Arriving(script[Len(Received) + 1]))
      <3>1. DOMAIN script = 1 .. Len(script) /\ Len(script) \in Nat /\ Len(Received) \in Nat
        <4>1. Len(delivered) \in Nat /\ Received = FirstArrivals(Len(delivered))
          BY <2>2, ReceivedFirst DEF ReceivedInOrder
        <4> QED BY <2>2, <4>1, ScriptParts, OneMoreArrival
      <3>2. Len(arrivals) = Len(script)
        BY <3>1
      <3>3. arrivals[Len(Received) + 1] = Arriving(script[Len(Received) + 1])
        BY <2>5, <3>1
      <3>4. Len(Received) < Len(arrivals) /\ Received' = Append(Received, arrivals[Len(Received) + 1])
        BY <2>5, <3>2, <3>3
      <3>5. lost' = lost
        BY <2>1
      <3> HIDE DEF arrivals
      <3>6. Channel!Receive
        BY <1>1, <3>4, <3>5 DEF Channel!Receive, Received, arrivals
      <3> QED BY <3>6 DEF Channel!Next
    <2> QED BY <2>3, <2>4, <2>5
  <1>8. CASE UNCHANGED vars
    BY <1>2, <1>8 DEF vars, sVars, rVars
  <1> QED BY <1>3, <1>4, <1>5, <1>6, <1>7, <1>8 DEF Next

\* The two machines with the stream between them are a channel of messages:
\* each message of the script is delivered as it arrives alone, once and in
\* order, and nothing else is, until the connection is lost
\* (serialize/message.cpp lines 23 to 49 and deserialize/message.cpp lines 40 to
\* 76).
THEOREM EndsAreMessageChannel == Spec => ImplementsMessageChannel
  <1>1. Init => Channel!Init
    BY DEF Init, Sender!Fresh, Channel!Init
  <1>2. EInv /\ OnWay /\ OnWay' /\ [Next]_vars => [Channel!Next]_(Channel!vars)
    BY ChannelStep
  <1> QED BY <1>1, <1>2, EInvariant, AlwaysOnWay, PTL DEF Spec, Channel!Spec, ImplementsMessageChannel
=============================================================================
