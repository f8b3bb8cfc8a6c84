------------------------------- MODULE OneAnswer -------------------------------
(***************************************************************************)
(* What the example server promises to one connection: it hears requests   *)
(* once, answers them with one response, and leaves when all of it is      *)
(* said.  It may leave earlier when the peer does, and give up on errors.  *)
(***************************************************************************)
EXTENDS Naturals, Sequences

CONSTANT Answers     \* the responses to a request, as bytes

VARIABLES heard,     \* the requests, all that one read completed
          said,      \* the bytes of the answer so far
          outcome    \* "serving", "answered", "left" or "panicked"

vars == << heard, said, outcome >>

Init == heard = << >> /\ said = << >> /\ outcome = "serving"

Hear == /\ heard = << >>
        /\ heard' # << >>
        /\ UNCHANGED << said, outcome >>

Say == /\ heard # << >>
       /\ Len(said) < Len(said')
       /\ \E answer \in Answers : SubSeq(answer, 1, Len(said')) = said'
       /\ SubSeq(said', 1, Len(said)) = said
       /\ UNCHANGED << heard, outcome >>

Answered == /\ said \in Answers
            /\ outcome' = "answered"

GiveUp == outcome' \in {"left", "panicked"}

Next == /\ outcome = "serving"
        /\ Hear \/ Say \/ (UNCHANGED << heard, said >> /\ (Answered \/ GiveUp))

Spec == Init /\ [][Next]_vars
=============================================================================
