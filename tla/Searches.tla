------------------------------- MODULE Searches -------------------------------
(***************************************************************************)
(* The part of detail::strings (src/v1/detail/strings.cpp, strings.hpp)    *)
(* that depends on no limit: trims and searches for a delimiter.  A string *)
(* is a sequence of symbols.  A symbol is a byte or, where nothing looks   *)
(* inside it, a whole word (a field name, say): CR and LF are symbols of   *)
(* their own, so that a call may end between them.                         *)
(***************************************************************************)
EXTENDS Integers, Sequences, SequencesExt

(* Trims. *)
IsWs(c) == c \in {" ", "HTAB"}

StripPrefixWhileWs(str) ==
    LET kept == {i \in DOMAIN str : ~ IsWs(str[i])}
    IN  IF kept = {} THEN << >> ELSE SubSeq(str, Min(kept), Len(str))

StripSuffixWhileWs(str) ==
    LET kept == {i \in DOMAIN str : ~ IsWs(str[i])}
    IN  IF kept = {} THEN << >> ELSE SubSeq(str, 1, Max(kept))

StripWs(str) == StripSuffixWhileWs(StripPrefixWhileWs(str))

-----------------------------------------------------------------------------
(* Searching a delimiter. *)

\* The offsets at which delim occurs in str.
Occurrences(str, delim) ==
    {i \in 0 .. Len(str) - Len(delim) : SubSeq(str, i + 1, i + Len(delim)) = delim}

Found(value, offset) == [error |-> "NONE", value |-> value, offset |-> offset]

NotFound(error) == [error |-> error, value |-> << >>, offset |-> 0]

TryFindUnlimited(str, delim) ==
    IF Occurrences(str, delim) = {}
    THEN NotFound("NOT_FOUND")
    ELSE LET it == Min(Occurrences(str, delim))
         IN  Found(SubSeq(str, 1, it), it + Len(delim))

\* try_find_split_unlimited: what is before the first delim and what is after
\* it; without one, the head is the whole string and the tail is empty.
TryFindSplitUnlimited(str, delim) ==
    LET found == TryFindUnlimited(str, delim)
    IN  IF found.error = "NONE"
        THEN [head |-> found.value, tail |-> SubSeq(str, found.offset + 1, Len(str))]
        ELSE [head |-> str, tail |-> << >>]

\* The items a loop of try_find_split_unlimited(_, ",") goes through.
CommaItems(str) ==
    LET ends == {0, Len(str) + 1} \cup {i \in DOMAIN str : str[i] = ","}
    IN  {SubSeq(str, pair[1] + 1, pair[2] - 1) :
            pair \in {p \in ends \X ends :
                        /\ p[1] < p[2]
                        /\ \A e \in ends : ~ (p[1] < e /\ e < p[2])}}
=============================================================================
