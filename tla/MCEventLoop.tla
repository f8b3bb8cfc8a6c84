----------------------------- MODULE MCEventLoop -----------------------------
(***************************************************************************)
(* An instance of EventLoop: two full arrays of a size that the number of  *)
(* threads does not divide, or more arrays that are not full.              *)
(***************************************************************************)
EXTENDS EventLoop

MCMaxEvents == 5
MCTCount == 3
MCEventLimit == 2 * MCMaxEvents
=============================================================================
