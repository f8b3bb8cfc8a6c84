------------------------------- MODULE EventLoop -------------------------------
(***************************************************************************)
(* The loop of the example's main() (examples/src/00_http_v1_server.cpp    *)
(* lines 164 to 186): wait for events, divide them into batches, copy each *)
(* batch into a task of the serial executor, and wait again, while the     *)
(* executor runs the tasks one after the other.  Events are numbered in    *)
(* the order in which wait() returns them.                                 *)
(*                                                                         *)
(*   loop "waiting"   wait() (line 166)                                    *)
(*        "batching"  the inner loop (lines 174 to 185)                    *)
(*        "ended"     wait() failed                                        *)
(***************************************************************************)
EXTENDS Naturals, Sequences, FiniteSets

CONSTANTS MaxEvents,    \* the size of the array given to wait()
          TCount,       \* executor_config.tcount, 0 without a thread pool
          EventLimit    \* bound: events in a behaviour

ASSUME EventLoopAssumption ==
    MaxEvents \in Nat /\ TCount \in Nat /\ EventLimit \in Nat

VARIABLES loop,
          waited,       \* events of the earlier calls of wait()
          nevents,      \* events of the last one
          batch_index,
          tasks,        \* the executor's tasks: which events each was given
          fulfilled     \* the events in the order they were fulfilled in

vars == << loop, waited, nevents, batch_index, tasks, fulfilled >>

batch_count == IF TCount > 1 THEN TCount ELSE 1

\* A form that rounds up, to give all batches but the last the same size.
BatchSizeRoundsUp == (nevents + batch_count - 1) \div batch_count
BatchSize == nevents \div batch_count

Begin == BatchSize * batch_index

\* A form that gives the last batch no more than the others.
EndDropsRest == BatchSize * (batch_index + 1)
End == IF batch_index + 1 = batch_count THEN nevents ELSE BatchSize * (batch_index + 1)

Init == /\ loop = "waiting"
        /\ waited = 0
        /\ nevents = 0
        /\ batch_index = 0
        /\ tasks = << >>
        /\ fulfilled = << >>

Wait == /\ loop = "waiting"
        /\ \E n \in 1 .. MaxEvents : waited + nevents + n <= EventLimit /\ nevents' = n
        /\ waited' = waited + nevents
        /\ batch_index' = 0
        /\ loop' = "batching"
        /\ UNCHANGED << tasks, fulfilled >>

WaitFails == /\ loop = "waiting"
             /\ loop' = "ended"
             /\ UNCHANGED << waited, nevents, batch_index, tasks, fulfilled >>

\* Schedule the batch that holds the events from Begin up to End.
Schedule == /\ loop = "batching"
            /\ tasks' = Append(tasks, [first |-> waited + Begin + 1, last |-> waited + End])
            /\ batch_index' = batch_index + 1
            /\ loop' = IF batch_index + 1 = batch_count THEN "waiting" ELSE "batching"
            /\ UNCHANGED << waited, nevents, fulfilled >>

\* The task that runs fulfills its next event, or ends.  A form: it stops
\* before its last event.
FulfillAllButLast ==
    /\ tasks # << >>
    /\ IF Head(tasks).first < Head(tasks).last
       THEN /\ fulfilled' = Append(fulfilled, Head(tasks).first)
            /\ tasks' = [tasks EXCEPT ![1].first = @ + 1]
       ELSE tasks' = Tail(tasks) /\ UNCHANGED fulfilled
    /\ UNCHANGED << loop, waited, nevents, batch_index >>

Fulfill == /\ tasks # << >>
           /\ IF Head(tasks).first <= Head(tasks).last
              THEN /\ fulfilled' = Append(fulfilled, Head(tasks).first)
                   /\ tasks' = [tasks EXCEPT ![1].first = @ + 1]
              ELSE tasks' = Tail(tasks) /\ UNCHANGED fulfilled
           /\ UNCHANGED << loop, waited, nevents, batch_index >>

Next == Wait \/ WaitFails \/ Schedule \/ Fulfill

Spec == Init /\ [][Next]_vars

\* The loop and the executor run; events need not come.
FairSpec == Spec /\ WF_vars(Schedule) /\ WF_vars(Fulfill)

-----------------------------------------------------------------------------
Task == [first : Nat, last : Nat]

\* While batches are made their bounds are those of a part of the array, so
\* that subspan(begin, end - begin) (line 178) exists and end - begin, which is
\* unsigned, does not wrap.
TypeOK ==
    /\ loop \in {"waiting", "batching", "ended"}
    /\ waited \in Nat
    /\ nevents \in 0 .. MaxEvents
    /\ batch_index \in 0 .. batch_count
    /\ tasks \in Seq(Task)
    /\ fulfilled \in Seq(Nat)
    /\ loop = "batching" => Begin <= End /\ End <= nevents

\* Whatever the number of events and of threads, and however far the loop is
\* ahead of the executor, the events are fulfilled each once and in the order
\* in which wait() returned them: the batches leave no event out, the ones the
\* division leaves over included (line 177), and the next array overwrites none.
FulfilledInOrder == \A i \in DOMAIN fulfilled : fulfilled[i] = i

\* Every event that wait() returned is fulfilled in the end.
EveryEventFulfilled == \A n \in 1 .. EventLimit : waited + nevents >= n ~> Len(fulfilled) >= n
=============================================================================
