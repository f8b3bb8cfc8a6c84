----------------------------- MODULE MessageTypes -----------------------------
(***************************************************************************)
(* The names of methods, versions and statuses (include/sl/http/v1/types/):*)
(* enum_to_str, its inverse meta::enum_from_str, and the longest name.     *)
(***************************************************************************)
EXTENDS Strings

Methods == {"GET", "HEAD", "POST", "PUT", "DELETE", "CONNECT", "OPTIONS", "TRACE"}

Versions == {"HTTPv1_0", "HTTPv1_1"}

StatusCodes ==
    100 .. 101 \cup 200 .. 206 \cup 300 .. 305 \cup {307, 308}
      \cup 400 .. 417 \cup {421, 422, 426} \cup 500 .. 505

\* A status_type is any number of 16 bits: from the wire, or by a cast.
StatusType == 0 .. 2 ^ 16 - 1

MethodToStr == [e \in Methods |-> << e >>]

VersionToStr == [e \in Versions |-> << "HTTP/", IF e = "HTTPv1_0" THEN "1.0" ELSE "1.1" >>]

\* A form whose switch ends before the statuses that were added later.
StatusToStrEnds == [e \in StatusType |-> IF e \in StatusCodes \ 418 .. 499 THEN Decimal[e] ELSE << >>]

\* A number that is not in the enumeration has no name.
StatusToStr == [e \in StatusType |-> IF e \in StatusCodes THEN Decimal[e] ELSE << >>]

\* meta::enum_from_str, on the strings it knows.
MethodFromStr == AntiFunction(MethodToStr)
VersionFromStr == AntiFunction(VersionToStr)

\* enum_max_str_length.
MethodMaxLength == Max({Len(MethodToStr[e]) : e \in Methods})
VersionMaxLength == Max({Len(VersionToStr[e]) : e \in Versions})
=============================================================================
