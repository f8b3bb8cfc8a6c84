------------------------------ MODULE MCTargets ------------------------------
(***************************************************************************)
(* Texts and targets for TargetRelay: every short string over the          *)
(* characters that mean something, behind the beginning of each form.      *)
(***************************************************************************)
EXTENDS TargetRelay, MCAlphabet

Words(chars, length) == UNION {[1 .. n -> chars] : n \in 0 .. length}

Behind(prefix, strs) == {prefix \o str : str \in strs}

\* Escapes whole and broken, of "+", " ", "%", "/" and a byte beyond ASCII.
OriginTexts ==
    Behind(<< "/" >>, Words({"%", "2", "B", "+", "a"}, 4)
                        \cup Behind(<< "?" >>, Words({"%", "2", "+", "&", "=", "?"}, 4)))

AbsoluteTexts ==
    UNION {Behind(prefix, Words({"a", "/", ":", "%"}, 3)
                            \cup Behind(<< "a", "/", "?" >>, Words({"a", "&", "="}, 3))) :
              prefix \in {Http, Https, << "http", ":", "/" >>}}

AuthorityTexts ==
    {host \o << ":" >> \o port :
        host \in {<< >>, << "a" >>, << "a", ":", "0" >>, << "*" >>, << "http" >>, << "a", "/" >>},
        port \in Words({"0", "a"}, 2) \cup {<< "6", "5", "5", "3", "5" >>, << "6", "5", "5", "3", "6" >>,
                                              << "8", "0", " " >>, << "0", "0", "0", "0", "8", "0" >>}}

MCTexts == OriginTexts \cup AbsoluteTexts \cup AuthorityTexts \cup {<< >>, << "*" >>, << "*", "a" >>, << "a" >>}

\* An absolute target without a path.
NoPathTexts == Behind(Http \o << "a" >>, Words({"?", "a", "=", "/"}, 3))

-----------------------------------------------------------------------------
Special == {"a", " ", "+", "%", "/", "?", "&", "=", "LF", "#233"}

Paths == Behind(<< "/" >>, Words(Special, 2))

Queries == {<< >>} \cup {<< [key |-> key, value |-> value] >> :
                            key \in Words(Special, 1), value \in Words(Special, 1)}
             \cup {<< [key |-> k, value |-> << >>], [key |-> << >>, value |-> v] >> :
                      k \in Words(Special, 1), v \in Words(Special, 1)}

MCAppTargets ==
    {Origin(path, << >>) : path \in Paths}
      \cup {Origin(<< "/" >>, query) : query \in Queries}
      \cup {Absolute("https", << "a", ":", "8" >>, path, query) :
               path \in Behind(<< "/" >>, Words(Special, 1)), query \in {<< >>, << [key |-> << "?" >>, value |-> << "/" >>] >>}}
      \cup {Authority(<< "a" >>, port) : port \in {0, 9, 10, 443, 65535}}
      \cup {Asterisk}
=============================================================================
