------------------------------- MODULE Strings -------------------------------
(***************************************************************************)
(* detail::strings (src/v1/detail/strings.cpp, strings.hpp): the limited   *)
(* search and the conversions the deserializer is built from.              *)
(***************************************************************************)
EXTENDS Searches

CONSTANTS Byte,          \* the symbols
          ToLower,       \* std::tolower, a function on the symbols
          Digit,         \* the value of each symbol that is a (hex) digit
          SizeModulus,   \* number of values of std::size_t
          MaxStrSize,    \* std::string_view::max_size()
          DebugBuild     \* whether DEBUG_ASSERT is compiled in

ASSUME StringsAssumption ==
    /\ {" ", ":", ",", ";", "CR", "LF"} \subseteq Byte
    /\ \A c \in Byte : ToLower[c] \in Byte
    /\ DOMAIN Digit \subseteq Byte
    /\ \A c \in DOMAIN Digit : Digit[c] \in 0 .. 15
    /\ MaxStrSize \in Nat
    /\ SizeModulus \in Nat
    /\ 2 < MaxStrSize
    /\ MaxStrSize < SizeModulus - 1
    /\ DebugBuild \in BOOLEAN

-----------------------------------------------------------------------------
(* Tokens. *)
SP    == << " " >>
COLON == << ":" >>
CRLF  == << "CR", "LF" >>
COMMA == << "," >>
SEMICOLON == << ";" >>

Lesser(a, b) == IF a <= b THEN a ELSE b

\* a - b in std::size_t, for a and b in its range.
SizeSub(a, b) == IF b <= a THEN a - b ELSE SizeModulus + a - b

ToLowercase(str) == [i \in DOMAIN str |-> ToLower[str[i]]]

-----------------------------------------------------------------------------
(* Searching a delimiter within a limit. *)

\* Forms of TryFind with a plausible error: waiting for more when exactly the
\* maximum is there, and searching everything that has arrived.
TryFindOffByOne(str, delim, maxSize) ==
    LET window == maxSize + Len(delim)
        found  == TryFindUnlimited(SubSeq(str, 1, Lesser(window, Len(str))), delim)
    IN  IF found.error = "NOT_FOUND" /\ window < Len(str)
        THEN NotFound("MAX_SIZE_EXCEEDED")
        ELSE found

TryFindWhole(str, delim, maxSize) ==
    LET found == TryFindUnlimited(str, delim)
    IN  IF found.error = "NOT_FOUND" /\ maxSize + Len(delim) <= Len(str)
        THEN NotFound("MAX_SIZE_EXCEEDED")
        ELSE found

\* A search that looks at the first maxSize + Len(delim) symbols only.  When
\* the assertion on maxSize fails, a debug build aborts and a release build
\* goes on to report that the maximum is exceeded.
TryFind(str, delim, maxSize) ==
    LET window == maxSize + Len(delim)
        found  == TryFindUnlimited(SubSeq(str, 1, Lesser(window, Len(str))), delim)
    IN  IF maxSize > MaxStrSize - Len(delim)
        THEN NotFound(IF DebugBuild THEN "ASSERTION_FAILED" ELSE "MAX_SIZE_EXCEEDED")
        ELSE IF found.error = "NOT_FOUND" /\ window <= Len(str)
        THEN NotFound("MAX_SIZE_EXCEEDED")
        ELSE found

-----------------------------------------------------------------------------
(* std::from_chars on an unsigned type with limit values, where the caller *)
(* also wants the whole string to be consumed.                             *)
NoNumber == -1

IsNumeral(str, base) ==
    /\ str # << >>
    /\ \A i \in DOMAIN str : str[i] \in DOMAIN Digit /\ Digit[str[i]] < base

NumeralValue(str, base) == FoldLeft(LAMBDA n, c : n * base + Digit[c], 0, str)

FromChars(str, base, limit) ==
    IF IsNumeral(str, base) /\ NumeralValue(str, base) \in 0 .. limit - 1
    THEN NumeralValue(str, base)
    ELSE NoNumber

HexChars == << "0", "1", "2", "3", "4", "5", "6", "7", "8", "9", "A", "B", "C", "D", "E", "F" >>

\* std::to_string.
Decimal[n \in Nat] == IF n < 10 THEN << HexChars[n + 1] >>
                      ELSE Decimal[n \div 10] \o << HexChars[(n % 10) + 1] >>
=============================================================================
