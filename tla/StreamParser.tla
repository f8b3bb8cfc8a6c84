----------------------------- MODULE StreamParser -----------------------------
(***************************************************************************)
(* What deserialize_machine promises: to be a parser over one stream of    *)
(* bytes.  Bytes arrive and wait in one queue; a step shows the handler of *)
(* the current state everything that waits, removes what the handler       *)
(* consumed and hands its events to the user.  There are no calls here,    *)
(* no segments and no difference between the caller's span and the bytes   *)
(* the machine kept.                                                       *)
(***************************************************************************)
EXTENDS Naturals, Sequences

CONSTANTS Streams,            \* the byte streams a peer may send
          Initial,            \* the parser state and message it starts with
          Dispatch(_, _, _),  \* parser state, message, bytes -> what a step does
          ContinueToken,      \* an offset that consumes nothing
          NoError

VARIABLES stream,     \* what the peer sends
          fed,        \* how much of it has arrived
          pending,    \* what has arrived and is not consumed
          state, output,
          delivered,  \* the events handed to the user
          error

vars == << stream, fed, pending, state, output, delivered, error >>

Init == /\ stream \in Streams
        /\ fed = 0
        /\ pending = << >>
        /\ state = Initial.state
        /\ output = Initial.output
        /\ delivered = << >>
        /\ error = NoError

\* More of the stream arrives.
Arrive == \E n \in 0 .. Len(stream) - fed :
              /\ error = NoError
              /\ fed' = fed + n
              /\ pending' = pending \o SubSeq(stream, fed + 1, fed + n)
              /\ UNCHANGED << stream, state, output, delivered, error >>

\* One handler runs on all that is pending.
Parse == \E r \in {Dispatch(state, output, pending)} :
             LET consumed == IF r.offset = ContinueToken THEN 0 ELSE r.offset
             IN  /\ error = NoError
                 /\ r.error = NoError
                 /\ state' = r.state
                 /\ output' = r.output
                 /\ delivered' = delivered \o r.events
                 /\ pending' = SubSeq(pending, consumed + 1, Len(pending))
                 /\ UNCHANGED << stream, fed, error >>

\* A handler finds the bytes to be in error; what was pending is forgotten
\* or kept, but never looked at again.
Fail == \E r \in {Dispatch(state, output, pending)} :
            /\ error = NoError
            /\ r.error # NoError
            /\ error' = r.error
            /\ pending' \in {pending, << >>}
            /\ UNCHANGED << stream, fed, state, output, delivered >>

Next == Arrive \/ Parse \/ Fail

Spec == Init /\ [][Next]_vars
=============================================================================
