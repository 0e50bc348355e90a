-------------------------- MODULE FutureFramesProof --------------------------
(***************************************************************************)
(* That the frames which walk over futures need no lock: for any number of *)
(* futures, whichever thread makes which of them ready and when.           *)
(***************************************************************************)
EXTENDS FutureFrames, TLAPS

\* The frames that call a function once.
Functional == frame \in {"then", "then_future", "dataflow"}

\* What a thread inside the frame may rely on: the element it was told to be ready is
\* ready, the callback is attached to the element the walk is at, and only a dataflow frame waits to be finalized.
WalkerKnows ==
    /\ \A w \in Threads : pc[w] \in {"element", "finish"} => Ready(pos)
    /\ attached # 0 => attached = pos
    /\ done => frame = "dataflow"

\* A frame that is complete is left alone, and complete means completed once.
CompleteIsTheEnd ==
    /\ completions = IF value = "none" THEN 0 ELSE 1
    /\ value # "none" => attached = 0 /\ ~done /\ \A w \in Threads : pc[w] \notin Walking

\* wait_all goes on when the frame is complete or when the timer fired.
ReturnsWhenComplete == pc[Caller] = "returned" /\ timer # "fired" => value # "none"

\* Where the walk is tells what was called: a function is due only while it was not
\* called, and when_each has called the elements before the one it is at.
CallsAreKnown ==
    /\ \A w \in Threads : pc[w] = "invoke" => Functional /\ calls = << >>
    /\ Functional /\ calls # << >> =>
         Len(calls) = 1 /\ (value # "none" \/ (frame = "then_future" /\ pos = 2))
    /\ ~Functional /\ frame # "when_each" => calls = << >>
    /\ frame = "when_each" =>
         /\ calls = [i \in 1..Len(calls) |-> i]
         /\ Len(calls) <= needed_count
         /\ attached # 0 \/ (\E w \in Threads : pc[w] \in Walking \ {"finish", "invoke"}) =>
              Len(calls) = pos - 1 /\ Len(calls) < needed_count

Shape ==
    /\ pc \in [Threads -> Walking \cup {"idle", "leave", "returning", "returned"}]
    /\ outcome \in [Elements -> {"none", "value", "exception"}]
    /\ pos \in 1..Last
    /\ attached \in {0} \cup Elements /\ done \in BOOLEAN
    /\ calls \in Seq(Elements) /\ needed_count \in Nat

FrameInv == Shape /\ OneWalker /\ WalkerKnows /\ CompleteIsTheEnd /\ ReturnsWhenComplete
IInv == FrameInv /\ CallsAreKnown

LEMMA LastIsAnElement == ASSUME Width \in Nat \ {0, 1} PROVE Last \in 1..Width
BY DEF Last

LEMMA FramesInit == ASSUME Width \in Nat \ {0, 1} PROVE Init => IInv
<1> SUFFICES ASSUME Init PROVE IInv
  OBVIOUS
<1>1. Shape
  <2>1. 1 \in 1..Last
    BY LastIsAnElement
  <2>2. needed_count \in Nat /\ calls \in Seq(Elements)
    BY DEF Init
  <2> QED
    BY <2>1, <2>2, Zenon DEF Init, Shape, Elements, Walking
<1>2. OneWalker /\ ReturnsWhenComplete
  <2>1. Caller \in Threads
    BY DEF Threads, Caller
  <2> QED
    BY <2>1 DEF Init, OneWalker, ReturnsWhenComplete, Walking
<1>3. WalkerKnows /\ CompleteIsTheEnd
  BY DEF Init, WalkerKnows, CompleteIsTheEnd
<1>4. CallsAreKnown
  <2>1. 1 \in Nat /\ needed_count \in Nat /\ (frame = "when_each" => needed_count >= 1)
    BY DEF Init
  <2>2. calls = << >> /\ Len(calls) = 0 /\ pos = 1 /\ \A w \in Threads : pc[w] # "invoke"
    BY DEF Init
  <2> QED
    BY <2>1, <2>2 DEF CallsAreKnown
<1> QED
  BY <1>1, <1>2, <1>3, <1>4 DEF IInv, FrameInv

LEMMA NextInOrder ==
    ASSUME NEW n \in Nat, NEW s \in Seq(Nat), s = [i \in 1..n |-> i], Len(s) = n
    PROVE  Append(s, n + 1) = [i \in 1..(n + 1) |-> i] /\ Len(Append(s, n + 1)) = n + 1
OBVIOUS

LEMMA FramesStep ==
    ASSUME Width \in Nat \ {0, 1}, IInv, [Next]_frameVars PROVE IInv'
<1>0. /\ Last \in 1..Width /\ Last' = Last /\ pos \in Elements /\ 0 \notin Elements
      /\ Caller \in Threads /\ Task \in Threads /\ Elements \subseteq Threads /\ Caller \notin Elements
      /\ Caller # Task /\ (frame = "then_future" => Last = 2)
  <2>1. frame' = frame
    BY DEF Next, Thread, frameVars, constants, is_ready, execute_deferred, not_ready, attach,
       attach_late, element_of_list, call_each, outer_ready, run, finish, leave, finalize,
       invoke, wait_all, wait_ends_early, set_future
  <2> QED
    BY <2>1, LastIsAnElement DEF Last, IInv, FrameInv, Shape, Elements, Threads, Caller, Task
<1> USE <1>0 DEF IInv, FrameInv, Shape, goto, constants, resultVars
<1>1. ASSUME NEW w \in Threads, is_ready(w) PROVE IInv'
  <2>1. Shape'
    BY <1>1 DEF is_ready, Walking
  <2>2. OneWalker'
    BY <1>1 DEF is_ready, OneWalker, CompleteIsTheEnd, Walking
  <2>3. WalkerKnows'
    BY <1>1 DEF is_ready, OneWalker, WalkerKnows, Walking, Ready
  <2>4. CompleteIsTheEnd'
    BY <1>1 DEF is_ready, OneWalker, WalkerKnows, CompleteIsTheEnd, Walking, Ready
  <2>5. ReturnsWhenComplete'
    BY <1>1 DEF is_ready, ReturnsWhenComplete
  <2>6. CallsAreKnown'
    BY <1>1 DEF is_ready, OneWalker, WalkerKnows, CompleteIsTheEnd, CallsAreKnown, Functional, Walking
  <2> QED
    BY <2>1, <2>2, <2>3, <2>4, <2>5, <2>6
<1>2. ASSUME NEW w \in Threads, execute_deferred(w) PROVE IInv'
  <2>1. Shape'
    BY <1>2 DEF execute_deferred, Walking
  <2>2. OneWalker'
    BY <1>2 DEF execute_deferred, OneWalker, CompleteIsTheEnd, Walking
  <2>3. WalkerKnows'
    BY <1>2 DEF execute_deferred, OneWalker, WalkerKnows, Walking, Ready
  <2>4. CompleteIsTheEnd'
    BY <1>2 DEF execute_deferred, OneWalker, WalkerKnows, CompleteIsTheEnd, Walking, Ready
  <2>5. ReturnsWhenComplete'
    BY <1>2 DEF execute_deferred, ReturnsWhenComplete
  <2>6. CallsAreKnown'
    BY <1>2 DEF execute_deferred, OneWalker, WalkerKnows, CompleteIsTheEnd, CallsAreKnown, Functional, Walking
  <2> QED
    BY <2>1, <2>2, <2>3, <2>4, <2>5, <2>6
<1>3. ASSUME NEW w \in Threads, not_ready(w) PROVE IInv'
  <2>1. Shape'
    BY <1>3 DEF not_ready, Walking
  <2>2. OneWalker'
    BY <1>3 DEF not_ready, OneWalker, CompleteIsTheEnd, Walking
  <2>3. WalkerKnows'
    BY <1>3 DEF not_ready, OneWalker, WalkerKnows, Walking, Ready
  <2>4. CompleteIsTheEnd'
    BY <1>3 DEF not_ready, OneWalker, WalkerKnows, CompleteIsTheEnd, Walking, Ready
  <2>5. ReturnsWhenComplete'
    BY <1>3 DEF not_ready, ReturnsWhenComplete
  <2>6. CallsAreKnown'
    BY <1>3 DEF not_ready, OneWalker, WalkerKnows, CompleteIsTheEnd, CallsAreKnown, Functional, Walking
  <2> QED
    BY <2>1, <2>2, <2>3, <2>4, <2>5, <2>6
<1>4. ASSUME NEW w \in Threads, attach(w) PROVE IInv'
  <2>1. Shape'
    BY <1>4 DEF attach, Walking
  <2>2. OneWalker'
    BY <1>4 DEF attach, OneWalker, CompleteIsTheEnd, Walking
  <2>3. WalkerKnows'
    BY <1>4 DEF attach, OneWalker, WalkerKnows, Walking, Ready
  <2>4. CompleteIsTheEnd'
    BY <1>4 DEF attach, OneWalker, WalkerKnows, CompleteIsTheEnd, Walking, Ready
  <2>5. ReturnsWhenComplete'
    BY <1>4 DEF attach, ReturnsWhenComplete
  <2>6. CallsAreKnown'
    BY <1>4 DEF attach, OneWalker, WalkerKnows, CompleteIsTheEnd, CallsAreKnown, Functional, Walking
  <2> QED
    BY <2>1, <2>2, <2>3, <2>4, <2>5, <2>6
<1>5. ASSUME NEW w \in Threads, attach_late(w) PROVE IInv'
  <2>1. Shape'
    BY <1>5 DEF attach_late, Walking
  <2>2. OneWalker'
    BY <1>5 DEF attach_late, OneWalker, CompleteIsTheEnd, Walking
  <2>3. WalkerKnows'
    BY <1>5 DEF attach_late, OneWalker, WalkerKnows, Walking, Ready
  <2>4. CompleteIsTheEnd'
    BY <1>5 DEF attach_late, OneWalker, WalkerKnows, CompleteIsTheEnd, Walking, Ready
  <2>5. ReturnsWhenComplete'
    BY <1>5 DEF attach_late, ReturnsWhenComplete
  <2>6. CallsAreKnown'
    BY <1>5 DEF attach_late, OneWalker, WalkerKnows, CompleteIsTheEnd, CallsAreKnown, Functional, Walking
  <2> QED
    BY <2>1, <2>2, <2>3, <2>4, <2>5, <2>6
<1>6. ASSUME NEW w \in Threads, element_of_list(w) PROVE IInv'
  <2>1. Shape'
    BY <1>6 DEF element_of_list, Advance, Walking
  <2>2. OneWalker'
    BY <1>6 DEF element_of_list, Advance, OneWalker, CompleteIsTheEnd, Walking
  <2>3. WalkerKnows'
    BY <1>6 DEF element_of_list, Advance, OneWalker, WalkerKnows, Walking, Ready
  <2>4. CompleteIsTheEnd'
    BY <1>6 DEF element_of_list, Advance, OneWalker, WalkerKnows, CompleteIsTheEnd, Walking, Ready
  <2>5. ReturnsWhenComplete'
    BY <1>6 DEF element_of_list, Advance, ReturnsWhenComplete
  <2>6. CallsAreKnown'
    BY <1>6 DEF element_of_list, Advance, OneWalker, WalkerKnows, CompleteIsTheEnd, CallsAreKnown, Functional, Walking
  <2> QED
    BY <2>1, <2>2, <2>3, <2>4, <2>5, <2>6
<1>7. ASSUME NEW w \in Threads, call_each(w) PROVE IInv'
  <2>1. Shape'
    BY <1>7 DEF call_each, Advance, Walking
  <2>2. OneWalker'
    BY <1>7 DEF call_each, Advance, OneWalker, CompleteIsTheEnd, Walking
  <2>3. WalkerKnows'
    BY <1>7 DEF call_each, Advance, OneWalker, WalkerKnows, Walking, Ready
  <2>4. CompleteIsTheEnd'
    BY <1>7 DEF call_each, Advance, OneWalker, WalkerKnows, CompleteIsTheEnd, Walking, Ready
  <2>5. ReturnsWhenComplete'
    BY <1>7 DEF call_each, Advance, ReturnsWhenComplete
  <2>6. CallsAreKnown'
    <3>1. frame = "when_each" /\ frame' = frame /\ needed_count' = needed_count /\ attached' = attached
      BY <1>7 DEF call_each
    <3>2. calls = [i \in 1..Len(calls) |-> i] /\ Len(calls) = pos - 1 /\ Len(calls) < needed_count
      BY <1>7, <3>1 DEF call_each, CallsAreKnown, Walking
    <3>3. calls' = Append(calls, pos) /\ calls \in Seq(Nat) /\ pos \in Nat
      BY <1>7 DEF call_each, Elements
    <3>4. calls' = [i \in 1..pos |-> i] /\ Len(calls') = pos
      <4> DEFINE n == Len(calls)
      <4>1. n \in Nat /\ pos = n + 1 /\ calls = [i \in 1..n |-> i]
        BY <3>2, <3>3
      <4>2. Append(calls, n + 1) = [i \in 1..(n + 1) |-> i] /\ Len(Append(calls, n + 1)) = n + 1
        BY <4>1, <3>3, NextInOrder
      <4> QED
        BY <4>1, <4>2, <3>3
    <3>5. attached = 0 /\ \A v \in Threads : pc[v] \in Walking => v = w
      BY <1>7 DEF call_each, OneWalker, Walking
    <3>6. pc'[w] \in {"finish", "walk"} /\ \A v \in Threads \ {w} : pc'[v] = pc[v]
      BY <1>7 DEF call_each, Advance
    <3>7. pc'[w] = "walk" => pos' = pos + 1 /\ pos # needed_count
      BY <1>7, <3>4 DEF call_each, Advance
    <3> QED
      BY <3>1, <3>2, <3>3, <3>4, <3>5, <3>6, <3>7 DEF CallsAreKnown, Functional, Walking
  <2> QED
    BY <2>1, <2>2, <2>3, <2>4, <2>5, <2>6
<1>8. ASSUME NEW w \in Threads, outer_ready(w) PROVE IInv'
  <2>1. Shape'
    BY <1>8 DEF outer_ready, Advance, Walking
  <2>2. OneWalker'
    BY <1>8 DEF outer_ready, Advance, OneWalker, CompleteIsTheEnd, Walking
  <2>3. WalkerKnows'
    BY <1>8 DEF outer_ready, Advance, OneWalker, WalkerKnows, Walking, Ready
  <2>4. CompleteIsTheEnd'
    BY <1>8 DEF outer_ready, Advance, OneWalker, WalkerKnows, CompleteIsTheEnd, Walking, Ready
  <2>5. ReturnsWhenComplete'
    BY <1>8 DEF outer_ready, Advance, ReturnsWhenComplete
  <2>6. CallsAreKnown'
    BY <1>8 DEF outer_ready, Advance, OneWalker, WalkerKnows, CompleteIsTheEnd, CallsAreKnown, Functional, Walking
  <2> QED
    BY <2>1, <2>2, <2>3, <2>4, <2>5, <2>6
<1>9. ASSUME NEW w \in Threads, run(w) PROVE IInv'
  <2>1. Shape'
    BY <1>9 DEF run, Walking
  <2>2. OneWalker'
    BY <1>9 DEF run, OneWalker, CompleteIsTheEnd, Walking
  <2>3. WalkerKnows'
    BY <1>9 DEF run, OneWalker, WalkerKnows, Walking, Ready
  <2>4. CompleteIsTheEnd'
    BY <1>9 DEF run, OneWalker, WalkerKnows, CompleteIsTheEnd, Walking, Ready
  <2>5. ReturnsWhenComplete'
    BY <1>9 DEF run, ReturnsWhenComplete
  <2>6. CallsAreKnown'
    BY <1>9 DEF run, OneWalker, WalkerKnows, CompleteIsTheEnd, CallsAreKnown, Functional, Walking
  <2> QED
    BY <2>1, <2>2, <2>3, <2>4, <2>5, <2>6
<1>10. ASSUME NEW w \in Threads, finish(w) PROVE IInv'
  <2>1. Shape'
    BY <1>10, Zenon DEF finish, complete, Walking
  <2>2. OneWalker'
    BY <1>10 DEF finish, complete, OneWalker, CompleteIsTheEnd, Walking
  <2>3. WalkerKnows'
    BY <1>10 DEF finish, complete, OneWalker, WalkerKnows, Walking, Ready
  <2>4. CompleteIsTheEnd'
    BY <1>10 DEF finish, complete, OneWalker, WalkerKnows, CompleteIsTheEnd, Walking, Ready
  <2>5. ReturnsWhenComplete'
    BY <1>10 DEF finish, complete, ReturnsWhenComplete
  <2>6. CallsAreKnown'
    BY <1>10 DEF finish, complete, OneWalker, WalkerKnows, CompleteIsTheEnd, CallsAreKnown, Functional, Walking
  <2> QED
    BY <2>1, <2>2, <2>3, <2>4, <2>5, <2>6
<1>11. ASSUME NEW w \in Threads, leave(w) PROVE IInv'
  <2>1. Shape'
    BY <1>11 DEF leave, Unnest, Left, Walking
  <2>2. OneWalker'
    BY <1>11 DEF leave, Unnest, Left, OneWalker, CompleteIsTheEnd, Walking
  <2>3. WalkerKnows'
    BY <1>11 DEF leave, Unnest, Left, OneWalker, WalkerKnows, Walking, Ready
  <2>4. CompleteIsTheEnd'
    BY <1>11 DEF leave, Unnest, Left, OneWalker, WalkerKnows, CompleteIsTheEnd, Walking, Ready
  <2>5. ReturnsWhenComplete'
    BY <1>11 DEF leave, Unnest, Left, ReturnsWhenComplete
  <2>6. CallsAreKnown'
    BY <1>11 DEF leave, Unnest, Left, OneWalker, WalkerKnows, CompleteIsTheEnd, CallsAreKnown, Functional, Walking
  <2> QED
    BY <2>1, <2>2, <2>3, <2>4, <2>5, <2>6
<1>12. ASSUME NEW w \in Threads, finalize(w) PROVE IInv'
  <2>1. Shape'
    BY <1>12, Zenon DEF finalize, Left, Walking
  <2>2. OneWalker'
    BY <1>12 DEF finalize, Left, OneWalker, CompleteIsTheEnd, Walking
  <2>3. WalkerKnows'
    BY <1>12 DEF finalize, Left, OneWalker, WalkerKnows, Walking, Ready
  <2>4. CompleteIsTheEnd'
    BY <1>12 DEF finalize, Left, OneWalker, WalkerKnows, CompleteIsTheEnd, Walking, Ready
  <2>5. ReturnsWhenComplete'
    BY <1>12 DEF finalize, Left, ReturnsWhenComplete
  <2>6. CallsAreKnown'
    BY <1>12 DEF finalize, Left, OneWalker, WalkerKnows, CompleteIsTheEnd, CallsAreKnown, Functional, Walking
  <2> QED
    BY <2>1, <2>2, <2>3, <2>4, <2>5, <2>6
<1>13. ASSUME NEW w \in Threads, invoke(w) PROVE IInv'
  <2>1. Shape'
    BY <1>13 DEF invoke, complete, Walking
  <2>2. OneWalker'
    BY <1>13 DEF invoke, complete, OneWalker, CompleteIsTheEnd, Walking
  <2>3. WalkerKnows'
    BY <1>13, SMTT(30) DEF invoke, complete, OneWalker, WalkerKnows, Walking, Ready
  <2>4. CompleteIsTheEnd'
    BY <1>13 DEF invoke, complete, OneWalker, WalkerKnows, CompleteIsTheEnd, Walking, Ready
  <2>5. ReturnsWhenComplete'
    BY <1>13 DEF invoke, complete, ReturnsWhenComplete
  <2>6. CallsAreKnown'
    BY <1>13 DEF invoke, complete, OneWalker, WalkerKnows, CompleteIsTheEnd, CallsAreKnown, Functional, Walking
  <2> QED
    BY <2>1, <2>2, <2>3, <2>4, <2>5, <2>6
<1>14. ASSUME NEW w \in Threads, wait_all(w) PROVE IInv'
  <2>1. Shape'
    BY <1>14 DEF wait_all, Walking
  <2>2. OneWalker'
    BY <1>14 DEF wait_all, OneWalker, CompleteIsTheEnd, Walking
  <2>3. WalkerKnows'
    BY <1>14 DEF wait_all, OneWalker, WalkerKnows, Walking, Ready
  <2>4. CompleteIsTheEnd'
    BY <1>14 DEF wait_all, OneWalker, WalkerKnows, CompleteIsTheEnd, Walking, Ready
  <2>5. ReturnsWhenComplete'
    BY <1>14 DEF wait_all, ReturnsWhenComplete
  <2>6. CallsAreKnown'
    BY <1>14 DEF wait_all, OneWalker, WalkerKnows, CompleteIsTheEnd, CallsAreKnown, Functional, Walking
  <2> QED
    BY <2>1, <2>2, <2>3, <2>4, <2>5, <2>6
<1>15. ASSUME NEW w \in Threads, wait_ends_early(w) PROVE IInv'
  <2>1. Shape'
    BY <1>15 DEF wait_ends_early, Walking
  <2>2. OneWalker'
    BY <1>15 DEF wait_ends_early, OneWalker, CompleteIsTheEnd, Walking
  <2>3. WalkerKnows'
    BY <1>15 DEF wait_ends_early, OneWalker, WalkerKnows, Walking, Ready
  <2>4. CompleteIsTheEnd'
    BY <1>15 DEF wait_ends_early, OneWalker, WalkerKnows, CompleteIsTheEnd, Walking, Ready
  <2>5. ReturnsWhenComplete'
    BY <1>15 DEF wait_ends_early, ReturnsWhenComplete
  <2>6. CallsAreKnown'
    BY <1>15 DEF wait_ends_early, OneWalker, WalkerKnows, CompleteIsTheEnd, CallsAreKnown, Functional, Walking
  <2> QED
    BY <2>1, <2>2, <2>3, <2>4, <2>5, <2>6
<1>16. ASSUME NEW f \in Elements, set_future(f) PROVE IInv'
  <2>1. Shape'
    BY <1>16 DEF set_future, Walking
  <2>2. OneWalker'
    BY <1>16 DEF set_future, OneWalker, CompleteIsTheEnd, Walking
  <2>3. WalkerKnows'
    BY <1>16 DEF set_future, OneWalker, WalkerKnows, Walking, Ready
  <2>4. CompleteIsTheEnd'
    BY <1>16 DEF set_future, OneWalker, WalkerKnows, CompleteIsTheEnd, Walking, Ready
  <2>5. ReturnsWhenComplete'
    BY <1>16 DEF set_future, ReturnsWhenComplete
  <2>6. CallsAreKnown'
    BY <1>16 DEF set_future, OneWalker, WalkerKnows, CompleteIsTheEnd, CallsAreKnown, Functional, Walking
  <2> QED
    BY <2>1, <2>2, <2>3, <2>4, <2>5, <2>6
<1>17. CASE UNCHANGED frameVars
  BY <1>17 DEF frameVars, walkVars, OneWalker, WalkerKnows, CompleteIsTheEnd, ReturnsWhenComplete, Ready,
     CallsAreKnown, Functional
<1> QED
  BY <1>1, <1>2, <1>3, <1>4, <1>5, <1>6, <1>7, <1>8, <1>9, <1>10, <1>11, <1>12, <1>13, <1>14, <1>15, <1>16, <1>17 DEF Next, Thread

\* The members of a frame belong to one thread at a time: wait_all, when_all, when_each,
\* dataflow and the continuations need no lock for them.
THEOREM FramesHaveOneWalker == ASSUME Width \in Nat \ {0, 1} PROVE Spec => []OneWalker
<1>1. IInv => OneWalker
  BY DEF IInv, FrameInv
<1> QED
  BY FramesInit, FramesStep, <1>1, PTL DEF Spec

\* wait_all returns to the owner of the futures only when no thread is left that would
\* still look at them.
THEOREM WaitAllLeavesNobody ==
    ASSUME Width \in Nat \ {0, 1} PROVE Spec => []NothingWalksAfterReturn
<1>1. IInv => NothingWalksAfterReturn
  BY DEF IInv, FrameInv, CompleteIsTheEnd, ReturnsWhenComplete, NothingWalksAfterReturn
<1> QED
  BY FramesInit, FramesStep, <1>1, PTL DEF Spec

\* No frame is completed twice, the function of a continuation or a dataflow runs at
\* most once, and when_each calls its function for the first futures in order.
THEOREM CalledOnceAndInOrder == ASSUME Width \in Nat \ {0, 1} PROVE Spec => []OnceAndInOrder
<1>1. IInv => OnceAndInOrder
  <2>1. Len(<< >>) = 0
    OBVIOUS
  <2>2. ASSUME IInv, frame # "when_each" PROVE Len(calls) <= 1
    <3>1. calls = << >> \/ Len(calls) = 1
      BY <2>2 DEF IInv, CallsAreKnown, Functional
    <3>2. Len(calls) = 0 \/ Len(calls) = 1
      BY <2>1, <3>1, Zenon
    <3>3. 0 <= 1 /\ 1 <= 1
      OBVIOUS
    <3> QED
      BY <3>2, <3>3, Zenon
  <2>3. ASSUME IInv PROVE completions <= 1
    BY <2>3 DEF IInv, FrameInv, CompleteIsTheEnd
  <2> QED
    BY <2>2, <2>3 DEF IInv, CallsAreKnown, OnceAndInOrder
<1> QED
  BY FramesInit, FramesStep, <1>1, PTL DEF Spec
=============================================================================
