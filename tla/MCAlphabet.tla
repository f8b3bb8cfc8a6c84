------------------------------ MODULE MCAlphabet ------------------------------
(***************************************************************************)
(* The symbols of the runs that have targets in them.                      *)
(***************************************************************************)
EXTENDS Strings

\* The ASCII characters the code looks at; the others are named by number.
MCCharOf ==
    [n \in 0 .. 255 |->
        IF n \in 48 .. 57 THEN HexChars[n - 47]
        ELSE IF n \in 65 .. 70 THEN HexChars[n - 54]
        ELSE LET names == << <<9, "HTAB">>, <<10, "LF">>, <<13, "CR">>, <<32, " ">>, <<33, "!">>,
                             <<36, "$">>, <<37, "%">>, <<38, "&">>, <<39, "'">>, <<40, "(">>,
                             <<41, ")">>, <<42, "*">>, <<43, "+">>, <<44, ",">>, <<45, "-">>,
                             <<46, ".">>, <<47, "/">>, <<58, ":">>, <<59, ";">>, <<61, "=">>,
                             <<63, "?">>, <<64, "@">>, <<95, "_">>, <<97, "a">>, <<126, "~">> >>
                 named == {i \in DOMAIN names : names[i][1] = n}
             IN  IF named = {} THEN "#" \o ToString(n) ELSE names[CHOOSE i \in named : TRUE][2]]

\* Words that no code looks into.
MCWords == {"http", "https", "HTTP/", "1.0", "1.1", "GET", "HEAD", "POST", "PUT", "DELETE",
            "CONNECT", "OPTIONS", "TRACE", "Content-Length", "content-length", "Content-Type",
            "content-type", "Connection", "connection", "keep-alive", "text", "plain",
            "Transfer-Encoding", "transfer-encoding", "chunked",
            "Name", "name", "Hello", "World"}

MCByte == ToSet(HexChars) \cup {MCCharOf[n] : n \in 0 .. 255} \cup MCWords

MCAlphaNum == ToSet(HexChars) \cup {"a", "http", "https"}

MCDigit == [c \in ToSet(HexChars) \cup {"a"} |->
               IF c = "a" THEN 10 ELSE CHOOSE v \in 0 .. 15 : HexChars[v + 1] = c]

MCToLower == [c \in MCByte |->
                CASE c = "Content-Length" -> "content-length"
                  [] c = "Content-Type" -> "content-type"
                  [] c = "Connection" -> "connection"
                  [] c = "Transfer-Encoding" -> "transfer-encoding"
                  [] c = "Name" -> "name"
                  [] OTHER -> c]
=============================================================================
