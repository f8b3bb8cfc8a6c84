---------------------------- MODULE EventLoopProofs ----------------------------
(***************************************************************************)
(* The batches of EventLoop fit together: for every number of threads and  *)
(* events, what the tasks are given are the events in their order.         *)
(***************************************************************************)
EXTENDS EventLoop, TLAPS

\* A product of naturals grows with its second factor.
LEMMA ProductMonotone ==
    ASSUME NEW q \in Nat, NEW a \in Nat, NEW b \in Nat, a <= b
    PROVE  q * a \in Nat /\ q * a <= q * b
<1>1. PICK d \in Nat : b = a + d
  <2>1. b - a \in Nat /\ b = a + (b - a)
    OBVIOUS
  <2> QED
    BY <2>1
<1>2. q * b = q * a + q * d /\ q * a \in Nat /\ q * d \in Nat
  BY <1>1
<1> QED
  BY <1>2

\* What the batches before the last hold is at most what there is.
LEMMA Division ==
    ASSUME NEW n \in Nat, NEW k \in Nat \ {0}
    PROVE  n \div k \in Nat /\ (n \div k) * k <= n
  OBVIOUS

\* There is at least one batch (line 171).
LEMMA BatchCount == batch_count \in Nat \ {0}
  BY EventLoopAssumption DEF batch_count

\* The bounds of the batch that is made next.
LEMMA Bounds ==
    ASSUME nevents \in Nat, batch_index \in Nat, batch_index < batch_count
    PROVE  /\ Begin \in Nat /\ End \in Nat
           /\ Begin <= End /\ End <= nevents
<1>1. BatchSize \in Nat /\ BatchSize * batch_count <= nevents
  BY BatchCount, Division DEF BatchSize
<1>2. /\ BatchSize * batch_index \in Nat
      /\ BatchSize * batch_index <= BatchSize * (batch_index + 1)
  BY <1>1, ProductMonotone
<1>3. /\ BatchSize * (batch_index + 1) \in Nat
      /\ BatchSize * (batch_index + 1) <= BatchSize * batch_count
  BY <1>1, BatchCount, ProductMonotone
<1>4. BatchSize * batch_count \in Nat
  BY <1>1, BatchCount, ProductMonotone
<1> QED
  BY <1>1, <1>2, <1>3, <1>4 DEF Begin, End

-----------------------------------------------------------------------------
\* The events that have been given to a task.
Scheduled == waited + (IF loop = "batching" THEN Begin ELSE nevents)

\* Each task starts where the one before it stops, the first at the event that
\* is fulfilled next, and the last stops at the last event that was scheduled.
Contiguous ==
    /\ tasks = << >> => Len(fulfilled) = Scheduled
    /\ tasks # << >> => /\ tasks[1].first = Len(fulfilled) + 1
                        /\ tasks[Len(tasks)].last = Scheduled
    /\ \A i \in 1 .. Len(tasks) : tasks[i].first <= tasks[i].last + 1
    /\ \A i \in 1 .. Len(tasks) - 1 : tasks[i].last + 1 = tasks[i + 1].first

IInv == /\ TypeOK
        /\ loop = "batching" => batch_index < batch_count
        /\ Contiguous
        /\ FulfilledInOrder

\* No task, and nothing scheduled.
LEMMA InitIInv == Init => IInv
<1> SUFFICES ASSUME Init PROVE IInv
  OBVIOUS
<1>1. tasks = << >> /\ fulfilled = << >> /\ Len(tasks) = 0 /\ Len(fulfilled) = 0 /\ loop = "waiting"
      /\ waited = 0 /\ nevents = 0 /\ batch_index = 0
  BY DEF Init
<1>2. TypeOK
  BY <1>1, EventLoopAssumption, BatchCount DEF TypeOK
<1>3. Contiguous
  BY <1>1 DEF Contiguous, Scheduled
<1>4. FulfilledInOrder
  BY <1>1 DEF FulfilledInOrder
<1> QED
  BY <1>1, <1>2, <1>3, <1>4 DEF IInv

\* The array is empty again: nothing of it was left unscheduled.
LEMMA WaitIInv == ASSUME IInv, Wait PROVE IInv'
<1>1. /\ waited' = waited + nevents /\ nevents' \in 1 .. MaxEvents
      /\ batch_index' = 0 /\ loop = "waiting" /\ loop' = "batching"
      /\ tasks' = tasks /\ fulfilled' = fulfilled
  BY DEF Wait
<1>2. waited \in Nat /\ nevents \in Nat /\ waited' \in Nat /\ nevents' \in Nat
  BY <1>1, EventLoopAssumption DEF IInv, TypeOK
<1>3. /\ Begin' \in Nat /\ End' \in Nat
      /\ Begin' <= End' /\ End' <= nevents'
  <2>1. nevents' \div batch_count \in Nat
    BY <1>2, BatchCount, Division
  <2>2. Begin' = 0
    BY <2>1, <1>1 DEF Begin, BatchSize
  <2>3. (nevents' \div batch_count) * batch_count <= nevents'
    BY <1>2, BatchCount, Division
  <2>4. /\ (nevents' \div batch_count) * 1 \in Nat
        /\ (nevents' \div batch_count) * 1 <= (nevents' \div batch_count) * batch_count
    BY <2>1, BatchCount, ProductMonotone
  <2>5. (nevents' \div batch_count) * batch_count \in Nat
    BY <2>1, BatchCount, ProductMonotone
  <2>6. End' \in {nevents', (nevents' \div batch_count) * 1}
    BY <1>1 DEF End, BatchSize
  <2> QED
    BY <2>2, <2>3, <2>4, <2>5, <2>6, <1>2
<1>4. Begin' = 0
  <2>1. nevents' \div batch_count \in Nat
    BY <1>2, BatchCount, Division
  <2> QED
    BY <2>1, <1>1 DEF Begin, BatchSize
<1>5. TypeOK'
  BY <1>1, <1>2, <1>3, BatchCount DEF IInv, TypeOK
<1>6. Scheduled' = Scheduled
  BY <1>1, <1>2, <1>4 DEF Scheduled
<1>7. Contiguous' /\ FulfilledInOrder'
  BY <1>1, <1>6 DEF IInv, Contiguous, FulfilledInOrder
<1> QED
  BY <1>1, <1>5, <1>7, BatchCount DEF IInv

\* A loop that has ended leaves the tasks alone.
LEMMA WaitFailsIInv == ASSUME IInv, WaitFails PROVE IInv'
<1>1. /\ loop = "waiting" /\ loop' = "ended"
      /\ UNCHANGED << waited, nevents, batch_index, tasks, fulfilled >>
  BY DEF WaitFails
<1>2. Scheduled' = Scheduled
  BY <1>1 DEF Scheduled
<1> QED
  BY <1>1, <1>2 DEF IInv, TypeOK, Contiguous, FulfilledInOrder

\* The batch starts at the first event that was not scheduled, and the batch
\* after it, if there is one, starts where it stops.
LEMMA ScheduleIInv == ASSUME IInv, Schedule PROVE IInv'
<1> DEFINE task == [first |-> waited + Begin + 1, last |-> waited + End]
<1>1. /\ loop = "batching" /\ tasks' = Append(tasks, task)
      /\ batch_index' = batch_index + 1
      /\ loop' = IF batch_index + 1 = batch_count THEN "waiting" ELSE "batching"
      /\ waited' = waited /\ nevents' = nevents /\ fulfilled' = fulfilled
  BY DEF Schedule
<1>2. /\ waited \in Nat /\ nevents \in Nat /\ batch_index \in Nat /\ batch_index < batch_count
      /\ tasks \in Seq(Task) /\ fulfilled \in Seq(Nat)
  BY <1>1, BatchCount, EventLoopAssumption DEF IInv, TypeOK
<1>3. Begin \in Nat /\ End \in Nat /\ Begin <= End /\ End <= nevents
  BY <1>2, Bounds
<1>4. task \in Task /\ task.first = Scheduled + 1 /\ task.first <= task.last + 1
  BY <1>1, <1>2, <1>3 DEF Task, Scheduled
<1>5. /\ tasks' \in Seq(Task) /\ Len(tasks') = Len(tasks) + 1 /\ tasks' # << >>
      /\ tasks'[Len(tasks) + 1] = task
      /\ \A i \in 1 .. Len(tasks) : tasks'[i] = tasks[i]
  BY <1>1, <1>2, <1>4
<1>6. Len(tasks) \in Nat
  BY <1>2
<1>7. (loop' = "batching") => /\ batch_index' < batch_count
                               /\ Begin' = End
                               /\ Begin' <= End' /\ End' <= nevents'
  <2> SUFFICES ASSUME loop' = "batching"
               PROVE  /\ batch_index' < batch_count /\ Begin' = End
                      /\ Begin' <= End' /\ End' <= nevents'
    OBVIOUS
  <2>1. batch_index + 1 # batch_count /\ batch_index + 1 < batch_count
    BY <1>1, <1>2, BatchCount
  <2>2. BatchSize' = BatchSize
    BY <1>1 DEF BatchSize
  <2>3. Begin' = End
    BY <1>1, <2>1, <2>2 DEF Begin, End
  <2>4. BatchSize \in Nat /\ BatchSize * batch_count <= nevents
    BY <1>2, BatchCount, Division DEF BatchSize
  <2>5. /\ BatchSize * (batch_index + 1) \in Nat
        /\ BatchSize * (batch_index + 1) <= BatchSize * (batch_index + 1 + 1)
    BY <1>2, <2>4, ProductMonotone
  <2>6. /\ BatchSize * (batch_index + 1 + 1) \in Nat
        /\ BatchSize * (batch_index + 1 + 1) <= BatchSize * batch_count
    BY <1>2, <2>1, <2>4, BatchCount, ProductMonotone
  <2>7. BatchSize * batch_count \in Nat
    BY <2>4, BatchCount, ProductMonotone
  <2>8. Begin' = BatchSize * (batch_index + 1)
    BY <1>1, <2>2 DEF Begin
  <2>9. End' \in {nevents, BatchSize * (batch_index + 1 + 1)}
    BY <1>1, <2>2 DEF End
  <2> QED
    BY <1>1, <1>2, <2>1, <2>3, <2>4, <2>5, <2>6, <2>7, <2>8, <2>9
<1>8. Scheduled' = waited + End
  <2>1. CASE loop' = "batching"
    BY <2>1, <1>1, <1>7 DEF Scheduled
  <2>2. CASE loop' # "batching"
    <3>1. End = nevents
      BY <2>2, <1>1 DEF End
    <3> QED
      BY <2>2, <3>1, <1>1 DEF Scheduled
  <2> QED
    BY <2>1, <2>2
<1>9. TypeOK'
  <2>1. loop' \in {"waiting", "batching", "ended"}
    BY <1>1
  <2>2. batch_index' \in 0 .. batch_count
    BY <1>1, <1>2, BatchCount
  <2> QED
    BY <2>1, <2>2, <1>1, <1>2, <1>5, <1>7 DEF IInv, TypeOK
<1>10. Contiguous'
  <2>1. tasks'[1].first = Len(fulfilled') + 1
    <3>1. CASE tasks = << >>
      BY <3>1, <1>1, <1>4, <1>5 DEF IInv, Contiguous
    <3>2. CASE tasks # << >>
      <4>1. 1 \in 1 .. Len(tasks)
        BY <3>2, <1>2
      <4> QED
        BY <3>2, <4>1, <1>1, <1>5 DEF IInv, Contiguous
    <3> QED
      BY <3>1, <3>2
  <2>2. tasks'[Len(tasks')].last = Scheduled'
    BY <1>5, <1>8
  <2>3. \A i \in 1 .. Len(tasks') : tasks'[i].first <= tasks'[i].last + 1
    BY <1>4, <1>5, <1>6 DEF IInv, Contiguous
  <2>4. ASSUME NEW i \in 1 .. Len(tasks') - 1
        PROVE  tasks'[i].last + 1 = tasks'[i + 1].first
    <3>1. CASE i < Len(tasks)
      <4>1. i \in 1 .. Len(tasks) - 1 /\ i \in 1 .. Len(tasks) /\ i + 1 \in 1 .. Len(tasks)
        BY <3>1, <1>5, <1>6
      <4> QED
        BY <4>1, <1>5 DEF IInv, Contiguous
    <3>2. CASE i = Len(tasks)
      <4>1. tasks # << >> /\ i \in 1 .. Len(tasks)
        BY <3>2, <1>2, <1>6
      <4> QED
        BY <3>2, <4>1, <1>4, <1>5 DEF IInv, Contiguous
    <3> QED
      BY <3>1, <3>2, <1>5, <1>6
  <2> QED
    BY <2>1, <2>2, <2>3, <2>4, <1>5 DEF Contiguous
<1>11. FulfilledInOrder'
  BY <1>1 DEF IInv, FulfilledInOrder
<1> QED
  BY <1>7, <1>9, <1>10, <1>11 DEF IInv

\* The event that is fulfilled is the next one.
LEMMA FulfillIInv == ASSUME IInv, Fulfill PROVE IInv'
<1>1. /\ tasks # << >>
      /\ UNCHANGED << loop, waited, nevents, batch_index >>
  BY DEF Fulfill
<1>2. /\ tasks \in Seq(Task) /\ fulfilled \in Seq(Nat) /\ Len(tasks) \in Nat /\ Len(tasks) >= 1
      /\ Head(tasks) = tasks[1] /\ 1 \in 1 .. Len(tasks)
  BY <1>1 DEF IInv, TypeOK
<1>3. \A i \in 1 .. Len(tasks) : tasks[i] \in Task /\ tasks[i].first \in Nat /\ tasks[i].last \in Nat
  <2>1. \A i \in 1 .. Len(tasks) : tasks[i] \in Task
    BY <1>2
  <2>2. \A t \in Task : t.first \in Nat /\ t.last \in Nat
    BY DEF Task
  <2> QED
    BY <2>1, <2>2
<1>4. Scheduled' = Scheduled
  BY <1>1 DEF Scheduled, Begin, BatchSize
<1>5. TypeOK' <=> tasks' \in Seq(Task) /\ fulfilled' \in Seq(Nat)
  BY <1>1 DEF IInv, TypeOK, Begin, End, BatchSize
<1>6. tasks[1].first = Len(fulfilled) + 1 /\ tasks[1].first <= tasks[1].last + 1
  BY <1>1, <1>2 DEF IInv, Contiguous
<1>7. CASE Head(tasks).first <= Head(tasks).last
  <2>1. /\ fulfilled' = Append(fulfilled, Len(fulfilled) + 1)
        /\ tasks' = [tasks EXCEPT ![1].first = @ + 1]
    BY <1>2, <1>6, <1>7 DEF Fulfill
  <2>2. /\ tasks' \in Seq(Task) /\ Len(tasks') = Len(tasks) /\ tasks' # << >>
        /\ \A i \in 1 .. Len(tasks) : i # 1 => tasks'[i] = tasks[i]
        /\ tasks'[1].first = tasks[1].first + 1 /\ tasks'[1].last = tasks[1].last
    <3>1. [tasks[1] EXCEPT !.first = @ + 1] \in Task
      <4>1. \A t \in Task : [t EXCEPT !.first = @ + 1] \in Task
        BY DEF Task
      <4> QED
        BY <1>2, <1>3, <4>1
    <3>2. tasks' = [tasks EXCEPT ![1] = [tasks[1] EXCEPT !.first = @ + 1]]
      BY <2>1
    <3>3. /\ tasks' \in Seq(Task) /\ Len(tasks') = Len(tasks)
          /\ tasks'[1] = [tasks[1] EXCEPT !.first = @ + 1]
          /\ \A i \in 1 .. Len(tasks) : i # 1 => tasks'[i] = tasks[i]
      BY <1>2, <3>1, <3>2
    <3> QED
      BY <1>2, <1>3, <3>3 DEF Task
  <2>3. /\ fulfilled' \in Seq(Nat) /\ Len(fulfilled') = Len(fulfilled) + 1
        /\ \A i \in DOMAIN fulfilled : fulfilled'[i] = fulfilled[i]
        /\ fulfilled'[Len(fulfilled) + 1] = Len(fulfilled) + 1
        /\ DOMAIN fulfilled' = DOMAIN fulfilled \cup {Len(fulfilled) + 1}
    BY <1>2, <2>1
  <2>4. FulfilledInOrder'
    BY <2>3 DEF IInv, FulfilledInOrder
  <2>5. \A i \in 1 .. Len(tasks) : tasks'[i].last = tasks[i].last
    BY <2>2
  <2>6. Contiguous'
    <3>1. tasks'[1].first = Len(fulfilled') + 1
      BY <2>2, <2>3, <1>6
    <3>2. tasks'[Len(tasks')].last = Scheduled'
      BY <1>1, <1>2, <1>4, <2>2, <2>5 DEF IInv, Contiguous
    <3>3. \A i \in 1 .. Len(tasks') : tasks'[i].first <= tasks'[i].last + 1
      BY <1>2, <1>3, <1>7, <2>2 DEF IInv, Contiguous
    <3>4. ASSUME NEW i \in 1 .. Len(tasks') - 1
          PROVE  tasks'[i].last + 1 = tasks'[i + 1].first
      <4>1. i \in 1 .. Len(tasks) - 1 /\ i \in 1 .. Len(tasks) /\ i + 1 \in 1 .. Len(tasks) /\ i + 1 # 1
        BY <1>2, <2>2
      <4> QED
        BY <4>1, <2>2, <2>5 DEF IInv, Contiguous
    <3> QED
      BY <2>2, <3>1, <3>2, <3>3, <3>4 DEF Contiguous
  <2> QED
    BY <1>1, <1>5, <2>2, <2>3, <2>4, <2>6 DEF IInv
<1>8. CASE ~ (Head(tasks).first <= Head(tasks).last)
  <2>1. fulfilled' = fulfilled /\ tasks' = Tail(tasks)
    BY <1>8 DEF Fulfill
  <2>2. /\ tasks' \in Seq(Task) /\ Len(tasks') = Len(tasks) - 1
        /\ \A i \in 1 .. Len(tasks') : tasks'[i] = tasks[i + 1]
    BY <1>2, <2>1
  <2>3. tasks[1].last = Len(fulfilled)
    BY <1>2, <1>3, <1>6, <1>8
  <2>4. Contiguous'
    <3>1. ASSUME tasks' = << >> PROVE Len(fulfilled') = Scheduled'
      <4>1. Len(tasks) = 1
        BY <3>1, <2>2, <1>2
      <4> QED
        BY <4>1, <1>1, <1>4, <2>1, <2>3 DEF IInv, Contiguous
    <3>2. ASSUME tasks' # << >>
          PROVE  tasks'[1].first = Len(fulfilled') + 1 /\ tasks'[Len(tasks')].last = Scheduled'
      <4>1. Len(tasks) >= 2 /\ 1 \in 1 .. Len(tasks) - 1 /\ 1 \in 1 .. Len(tasks') /\ Len(tasks') \in 1 .. Len(tasks')
        BY <3>2, <2>2, <1>2
      <4>2. tasks'[1] = tasks[2] /\ tasks'[Len(tasks')] = tasks[Len(tasks)]
        BY <4>1, <2>2, <1>2
      <4>3. tasks[1].last + 1 = tasks[2].first
        BY <4>1 DEF IInv, Contiguous
      <4> QED
        BY <4>2, <4>3, <1>1, <1>4, <2>1, <2>3 DEF IInv, Contiguous
    <3>3. ASSUME NEW i \in 1 .. Len(tasks') PROVE tasks'[i].first <= tasks'[i].last + 1
      <4>1. i + 1 \in 1 .. Len(tasks)
        BY <1>2, <2>2
      <4> QED
        BY <4>1, <2>2 DEF IInv, Contiguous
    <3>4. ASSUME NEW i \in 1 .. Len(tasks') - 1
          PROVE  tasks'[i].last + 1 = tasks'[i + 1].first
      <4>1. /\ i + 1 \in 1 .. Len(tasks) - 1
            /\ i \in 1 .. Len(tasks') /\ i + 1 \in 1 .. Len(tasks')
        BY <1>2, <2>2
      <4>2. tasks'[i] = tasks[i + 1] /\ tasks'[i + 1] = tasks[i + 1 + 1]
        BY <4>1, <2>2
      <4> QED
        BY <4>1, <4>2 DEF IInv, Contiguous
    <3> QED
      BY <3>1, <3>2, <3>3, <3>4 DEF Contiguous
  <2> QED
    BY <1>1, <1>5, <2>1, <2>2, <2>4, <1>2 DEF IInv, FulfilledInOrder
<1> QED
  BY <1>7, <1>8

\* IInv is inductive.
LEMMA NextIInv == IInv /\ [Next]_vars => IInv'
<1> SUFFICES ASSUME IInv, [Next]_vars PROVE IInv'
  OBVIOUS
<1>1. CASE Wait
  BY <1>1, WaitIInv
<1>2. CASE WaitFails
  BY <1>2, WaitFailsIInv
<1>3. CASE Schedule
  BY <1>3, ScheduleIInv
<1>4. CASE Fulfill
  BY <1>4, FulfillIInv
<1>5. CASE UNCHANGED vars
  BY <1>5 DEF vars, IInv, TypeOK, Contiguous, FulfilledInOrder, Scheduled, Begin, End, BatchSize
<1> QED
  BY <1>1, <1>2, <1>3, <1>4, <1>5 DEF Next

\* The bounds of a batch are bounds of a part of the array, for every number of
\* threads and of events (main() lines 170 to 178).
THEOREM EventLoopTypeOK == Spec => []TypeOK
<1>1. IInv => TypeOK
  BY DEF IInv
<1> QED
  BY InitIInv, NextIInv, <1>1, PTL DEF Spec

\* Each event is fulfilled once and in order, for every number of threads and
\* of events, and however far the loop is ahead of the executor (main() lines
\* 164 to 186).
THEOREM EventsFulfilledInOrder == Spec => []FulfilledInOrder
<1>1. IInv => FulfilledInOrder
  BY DEF IInv
<1> QED
  BY InitIInv, NextIInv, <1>1, PTL DEF Spec
=============================================================================
