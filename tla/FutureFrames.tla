---------------------------- MODULE FutureFrames ----------------------------
(***************************************************************************)
(* The shared states that walk over other futures: wait_all, when_all,     *)
(* when_each and dataflow (hpx/lcos/wait_all.hpp, when_all.hpp,            *)
(* when_each.hpp, dataflow.hpp), and the continuations of then and of      *)
(* unwrapping (hpx/lcos/local/packaged_continuation.hpp).  The walk stops  *)
(* at a future that is not ready by attaching a callback to it, and the    *)
(* thread that makes that future ready carries on with the walk.           *)
(***************************************************************************)
EXTENDS Integers, FiniteSets, Sequences

CONSTANTS Frames,      \* the kinds of frames considered
          Width        \* how many futures a frame waits for

VARIABLES frame, needed_count, policy, delayed, timer,
          outcome,     \* the state of every future
          attached,    \* the future the frame's callback is attached to, or 0
          pos,         \* the element the walk is at
          pc, depth,   \* every thread: its place, and how often it is nested
          done,        \* done_ of a dataflow frame
          started,     \* started_ of a continuation
          calls,       \* the elements f_ was called with, in order
          value, completions

constants == << frame, needed_count, policy, delayed >>
walkVars == << outcome, attached, pos, pc, depth >>
resultVars == << value, completions >>
frameVars == << constants, timer, walkVars, done, started, calls, resultVars >>

Last == CASE frame = "then" -> 1 [] frame \in {"then_future", "unwrap"} -> 2 [] OTHER -> Width
Elements == 1..Width
Caller == 0
Task == Width + 1        \* the thread created for a function
Threads == 0..(Width + 1)

\* The frames of a list of futures test whether a future is ready before they
\* attach a callback to it, and again when the callback is called.
Lists == frame \in {"wait_all", "when_all", "when_each", "dataflow"}

Init ==
    /\ frame \in Frames
    /\ needed_count \in (IF frame = "when_each" THEN 1..Width ELSE {0})
    /\ policy \in (IF frame \in {"dataflow", "then", "then_future"} THEN {"sync", "async"} ELSE {"sync"})
    /\ delayed \in SUBSET {1, Width}
    /\ timer \in (IF frame = "wait_all" THEN {"none", "armed"} ELSE {"none"})
    /\ outcome = [f \in Elements |-> "none"]
    /\ attached = 0 /\ pos = 1
    /\ pc = [w \in Threads |-> IF w = Caller THEN "walk" ELSE "idle"]
    /\ depth = [w \in Threads |-> 0]
    /\ done = FALSE /\ started = FALSE
    /\ calls = << >>
    /\ value = "none" /\ completions = 0

Ready(f) == outcome[f] # "none"
goto(w, p) == pc' = [pc EXCEPT ![w] = p]

\* set_value or set_exception of the frame itself.
complete(o) ==
    /\ value' = IF value = "none" THEN o ELSE value
    /\ completions' = completions + 1

-----------------------------------------------------------------------------
(***************************************************************************)
(* await_next and await_range, and the attach functions.                   *)
(***************************************************************************)
is_ready(w) ==
    /\ pc[w] \in {"walk", "again"}
    /\ Lists /\ Ready(pos)
    /\ goto(w, "element")
    /\ UNCHANGED << constants, timer, outcome, attached, pos, depth, done, started, calls, resultVars >>

execute_deferred(w) ==
    /\ pc[w] = "walk"
    /\ Lists => ~Ready(pos)
    /\ IF pos \in delayed /\ ~Ready(pos)
         THEN \E o \in {"value", "exception"} : outcome' = [outcome EXCEPT ![pos] = o]
         ELSE outcome' = outcome
    /\ goto(w, "again")
    /\ UNCHANGED << constants, timer, attached, pos, depth, done, started, calls, resultVars >>

not_ready(w) ==
    /\ pc[w] = "again"
    /\ Lists => ~Ready(pos)
    /\ goto(w, "attach")
    /\ UNCHANGED << constants, timer, outcome, attached, pos, depth, done, started, calls, resultVars >>

attach_and_go_on(w) ==
    /\ pc[w] = "attach"
    /\ ~Ready(pos)
    /\ attached' = pos
    /\ goto(w, "walk")
    /\ UNCHANGED << constants, timer, outcome, pos, depth, done, started, calls, resultVars >>

\* set_on_completed: the thread leaves the frame ...
attach(w) ==
    /\ pc[w] = "attach"
    /\ ~Ready(pos)
    /\ attached' = pos
    /\ goto(w, "leave")
    /\ UNCHANGED << constants, timer, outcome, pos, depth, done, started, calls, resultVars >>

\* ... or calls the callback itself.
attach_late(w) ==
    /\ pc[w] = "attach"
    /\ Ready(pos)
    /\ goto(w, IF Lists THEN "walk" ELSE "element")
    /\ depth' = [depth EXCEPT ![w] = @ + 1]
    /\ UNCHANGED << constants, timer, outcome, attached, pos, done, started, calls, resultVars >>

Advance_past(w) ==
    /\ pos' = pos + 1
    /\ goto(w, IF pos > Last THEN "finish" ELSE "walk")

\* Go on to the next element, or to the end of the frame.
Advance(w) ==
    /\ pos' = IF pos = Last THEN pos ELSE pos + 1
    /\ goto(w, IF pos = Last THEN "finish" ELSE "walk")

element_of_list(w) ==
    /\ pc[w] = "element" /\ Lists /\ frame # "when_each"
    /\ Advance(w)
    /\ UNCHANGED << constants, timer, outcome, attached, depth, done, started, calls, resultVars >>

call_each_late(w) ==
    /\ pc[w] = "element" /\ frame = "when_each"
    /\ calls' = Append(calls, pos)
    /\ IF Len(calls) = needed_count THEN pos' = pos /\ goto(w, "finish") ELSE Advance(w)
    /\ UNCHANGED << constants, timer, outcome, attached, depth, done, started, resultVars >>

\* when_each calls f_, and stops at the count that was asked for.
call_each(w) ==
    /\ pc[w] = "element" /\ frame = "when_each"
    /\ calls' = Append(calls, pos)
    /\ IF Len(calls') = needed_count THEN pos' = pos /\ goto(w, "finish") ELSE Advance(w)
    /\ UNCHANGED << constants, timer, outcome, attached, depth, done, started, resultVars >>

\* on_outer_ready and on_inner_ready: an outer future without a value is the end.
outer_ready(w) ==
    /\ pc[w] = "element" /\ (frame = "unwrap" \/ (frame = "then_future" /\ pos = 2))
    /\ IF outcome[pos] = "exception" THEN pos' = pos /\ goto(w, "finish") ELSE Advance(w)
    /\ UNCHANGED << constants, timer, outcome, attached, depth, done, started, calls, resultVars >>

\* continuation::run, and continuation::async with a thread of its own.
run(w) ==
    /\ pc[w] = "element" /\ frame \in {"then", "then_future"} /\ pos = 1
    /\ ~started
    /\ started' = TRUE
    /\ pc' = IF policy = "sync" THEN [pc EXCEPT ![w] = "invoke"]
             ELSE [pc EXCEPT ![w] = "leave", ![Task] = "invoke"]
    /\ UNCHANGED << constants, timer, outcome, attached, pos, depth, done, calls, resultVars >>

\* do_await at the end of the list.
finish(w) ==
    /\ pc[w] = "finish"
    /\ IF frame = "dataflow"
         THEN done' = TRUE /\ UNCHANGED resultVars
         ELSE /\ complete(IF Lists THEN "value" ELSE outcome[pos])
              /\ done' = done
    /\ goto(w, "leave")
    /\ UNCHANGED << constants, timer, outcome, attached, pos, depth, started, calls >>

Left(w) == IF w = Caller /\ frame = "wait_all" THEN "returning" ELSE "idle"

Unnest(w) ==
    /\ depth' = [depth EXCEPT ![w] = IF @ > 0 THEN @ - 1 ELSE 0]
    /\ goto(w, IF depth[w] > 0 THEN "leave" ELSE Left(w))

leave(w) ==
    /\ pc[w] = "leave"
    /\ ~done
    /\ Unnest(w)
    /\ UNCHANGED << constants, timer, outcome, attached, pos, done, started, calls, resultVars >>

\* await_next_respawn, await_range_respawn and do_await: the thread that resets
\* done_ finalizes.
finalize(w) ==
    /\ pc[w] = "leave"
    /\ done
    /\ done' = FALSE
    /\ IF policy = "sync"
         THEN goto(w, "invoke") /\ depth' = depth
         ELSE /\ pc' = [pc EXCEPT ![Task] = "invoke",
                                  ![w] = IF depth[w] > 0 THEN "leave" ELSE Left(w)]
              /\ depth' = [depth EXCEPT ![w] = IF @ > 0 THEN @ - 1 ELSE 0]
    /\ UNCHANGED << constants, timer, outcome, attached, pos, started, calls, resultVars >>

\* execute and invoke_continuation: the function returns or throws.  The future it
\* returns is the next one to wait for.
invoke(w) ==
    /\ pc[w] = "invoke"
    /\ calls' = Append(calls, pos)
    /\ \/ frame = "then_future" /\ pos' = 2 /\ goto(w, "walk") /\ UNCHANGED resultVars
       \/ /\ \E o \in {"value", "exception"} : (frame = "then_future" => o = "exception") /\ complete(o)
          /\ pos' = pos
          /\ goto(w, "leave")
    /\ UNCHANGED << constants, timer, outcome, attached, depth, done, started >>

wait_all_unready(w) ==
    /\ pc[w] = "returning"
    /\ goto(w, "returned")
    /\ UNCHANGED << constants, timer, outcome, attached, pos, depth, done, started, calls, resultVars >>

\* wait_all: is_ready and wait, which the timer of an earlier wait can end.
wait_all(w) ==
    /\ pc[w] = "returning"
    /\ value # "none"
    /\ goto(w, "returned")
    /\ UNCHANGED << constants, timer, outcome, attached, pos, depth, done, started, calls, resultVars >>

wait_ends_early(w) ==
    /\ pc[w] = "returning"
    /\ timer = "armed"
    /\ timer' = "fired"
    /\ goto(w, "returned")
    /\ UNCHANGED << constants, outcome, attached, pos, depth, done, started, calls, resultVars >>

-----------------------------------------------------------------------------
\* set_value of one of the futures: its thread goes on with the walk.
set_future(f) ==
    /\ ~Ready(f) /\ f \notin delayed /\ f <= Last
    /\ \E o \in {"value", "exception"} : outcome' = [outcome EXCEPT ![f] = o]
    /\ IF attached = f
         THEN /\ attached' = 0
              /\ goto(f, IF Lists THEN "walk" ELSE "element")
         ELSE UNCHANGED << attached, pc >>
    /\ UNCHANGED << constants, timer, pos, depth, done, started, calls, resultVars >>

Thread(w) ==
    \/ is_ready(w) \/ execute_deferred(w) \/ not_ready(w) \/ attach(w) \/ attach_late(w)
    \/ element_of_list(w) \/ call_each(w) \/ outer_ready(w) \/ run(w)
    \/ finish(w) \/ leave(w) \/ finalize(w) \/ invoke(w) \/ wait_all(w)

Next ==
    \/ \E w \in Threads : Thread(w) \/ wait_ends_early(w)
    \/ \E f \in Elements : set_future(f)

Fairness == \A w \in Threads : WF_frameVars(Thread(w))
Spec == Init /\ [][Next]_frameVars
FairSpec == Spec /\ Fairness

-----------------------------------------------------------------------------
Walking == {"walk", "again", "attach", "element", "finish", "invoke"}

\* Every variable has its type; a walk never leaves the list of its futures.
TypeOK ==
    /\ outcome \in [Elements -> {"none", "value", "exception"}]
    /\ attached \in {0} \cup Elements /\ pos \in Elements
    /\ pc \in [Threads -> Walking \cup {"idle", "leave", "returning", "returned"}]
    /\ depth \in [Threads -> 0..(2 * Width)]
    /\ done \in BOOLEAN /\ started \in BOOLEAN
    /\ calls \in Seq(Elements)
    /\ value \in {"none", "value", "exception"}

\* The members a frame changes without a lock (count_, f_, t_ and futures_) belong to
\* one thread at a time: either one thread is inside the frame, or the callback is
\* attached to one future, or the function waits to be finalized.
OneWalker ==
    /\ \A v, w \in Threads : pc[v] \in Walking /\ pc[w] \in Walking => v = w
    /\ attached # 0 \/ done => \A w \in Threads : pc[w] \notin Walking
    /\ ~(attached # 0 /\ done)

\* The function of a continuation or a dataflow runs at most once, when_each calls
\* its function for the first futures in order, and no frame is completed twice
\* (set_value would throw promise_already_satisfied).
OnceAndInOrder ==
    /\ completions <= 1
    /\ frame # "when_each" => Len(calls) <= 1
    /\ frame = "when_each" =>
         /\ calls = [i \in 1..Len(calls) |-> i]
         /\ Len(calls) <= needed_count

\* A frame is completed only when the futures it waits for are ready, and the
\* result of an unwrapped future is an exception if one of the two is.
CompletesInTime ==
    value # "none" =>
        /\ Lists => \A f \in 1..(IF frame = "when_each" THEN needed_count ELSE Last) : Ready(f)
        /\ frame = "when_each" => Len(calls) = needed_count
        /\ frame = "unwrap" /\ value = "value" => \A f \in 1..2 : outcome[f] = "value"
        /\ frame = "unwrap" /\ value = "exception" => \E f \in 1..2 : outcome[f] = "exception"
        /\ frame \in {"then", "then_future"} => Ready(1)

\* wait_all keeps a reference to its caller's futures: no thread walks over them
\* after wait_all has returned, unless the timer of an earlier wait ended it.
NothingWalksAfterReturn ==
    pc[Caller] = "returned" /\ timer # "fired" =>
        attached = 0 /\ \A w \in Threads : pc[w] \notin Walking

\* The futures that do not wait to be executed are ready.
Settled == \A f \in 1..Last : f \in delayed \/ Ready(f)

\* When they are, the frame completes: no walk is lost between a future that becomes
\* ready and the callback that is being attached to it.
Completes == Settled ~> value # "none"
=============================================================================
