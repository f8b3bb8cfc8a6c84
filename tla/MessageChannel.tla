---------------------------- MODULE MessageChannel ----------------------------
(***************************************************************************)
(* What serialize_machine and deserialize_machine promise together: the    *)
(* messages one side writes arrive at the other side as they were, each    *)
(* once and in order, until the connection is lost.                        *)
(***************************************************************************)
EXTENDS Naturals, Sequences

VARIABLES script,    \* the messages to send, any sequence
          received,
          lost

vars == << script, received, lost >>

Init == /\ received = << >>
        /\ lost = FALSE

\* What is still on its way when the connection is lost may arrive.
Receive == /\ Len(received) < Len(script)
           /\ received' = Append(received, script[Len(received) + 1])
           /\ UNCHANGED << script, lost >>

Lose == /\ ~ lost
        /\ lost' = TRUE
        /\ UNCHANGED << script, received >>

Next == Receive \/ Lose

Spec == Init /\ [][Next]_vars
=============================================================================
