------------------------------ MODULE WaitSome ------------------------------
(***************************************************************************)
(* wait_some, when_some and when_any (hpx/lcos/wait_some.hpp,              *)
(* when_some.hpp, when_any.hpp): a thread attaches a callback to every     *)
(* future of a list, suspends, and the callback that completes the count   *)
(* calls set_thread_state for it.  The thread is in no queue, and it can   *)
(* be made active in another phase while it attaches the callbacks: a      *)
(* spinlock that it finds taken makes it yield.                            *)
(***************************************************************************)
EXTENDS Integers, FiniteSets

CONSTANTS Kinds,       \* the functions considered
          Size,        \* how many futures are in the list
          MaxYields,   \* how often the thread finds a spinlock taken
          Strays       \* whether the timer of an earlier wait is "armed" or "none"

VARIABLES kind, needed, deferred, stray,
          ready,       \* futures that are ready
          cb,          \* where the callback on_future_ready of a future is
          count,       \* count_, or whether index_ is set
          goal,        \* goal_reached_on_calling_thread_
          indices,     \* lazy_values_.indices, or index_
          result,      \* what the call returned
          wpc, idx,    \* the calling thread, and the element it is at
          word, phase, \* its state word
          prev,        \* the phase in which the helper thread was created
          dropped      \* set_thread_state found the thread as no caller expects

constVars == << kind, needed, deferred >>
callVars == << count, goal, indices, result >>
vars == << constVars, stray, ready, cb, callVars, wpc, idx, word, phase, prev, dropped >>

Futures == 1..Size

Init ==
    /\ kind \in Kinds
    /\ needed \in 1..(IF kind = "when_any" THEN 1 ELSE Size)
    /\ deferred \in SUBSET {Size}
    /\ stray \in Strays
    /\ ready = {}
    /\ cb = [f \in Futures |-> "none"]
    /\ count = 0 /\ goal = FALSE
    /\ indices = {} /\ result = {}
    /\ wpc = "test" /\ idx = 1
    /\ word = "active" /\ phase = 0 /\ prev = 0
    /\ dropped = FALSE

\* fetch_add, or the exchange of index_: the new count, and whether it is the one
\* that makes the thread go on.
Bump == IF kind = "when_any" THEN 1 ELSE count + 1
Wins == IF kind = "when_any" THEN count = 0 ELSE count + 1 = needed

-----------------------------------------------------------------------------
(***************************************************************************)
(* The calling thread: set_on_completed_callback, one element after the    *)
(* other, then suspend.                                                    *)
(***************************************************************************)
At(p) == wpc = p /\ word = "active"
waiterRest == << constVars, stray, word, phase, prev, dropped >>

NextElement == wpc' = "test" /\ idx' = idx + 1

\* Enough futures are ready: the others are not touched, though wait_some counts.
skip ==
    /\ At("test") /\ idx <= Size
    /\ count >= needed
    /\ count' = IF kind = "wait_some" THEN count + 1 ELSE count
    /\ NextElement
    /\ UNCHANGED << waiterRest, ready, cb, goal, indices, result >>

test ==
    /\ At("test") /\ idx <= Size
    /\ count < needed
    /\ wpc' = "look"
    /\ UNCHANGED << waiterRest, ready, cb, callVars, idx >>

\* is_ready, before and after execute_deferred.
look ==
    /\ wpc \in {"look", "again"} /\ word = "active"
    /\ idx \in ready
    /\ wpc' = IF kind = "when_some" THEN "push" ELSE "count"
    /\ UNCHANGED << waiterRest, ready, cb, callVars, idx >>

execute_deferred ==
    /\ At("look")
    /\ idx \notin ready
    /\ ready' = IF idx \in deferred THEN ready \cup {idx} ELSE ready
    /\ wpc' = "again"
    /\ UNCHANGED << waiterRest, cb, callVars, idx >>

not_ready ==
    /\ At("again")
    /\ idx \notin ready
    /\ wpc' = "attach"
    /\ UNCHANGED << waiterRest, ready, cb, callVars, idx >>

\* The thread writes the indices without the mutex the callbacks use: one of two
\* entries that are added at the same time may be lost.
push ==
    /\ At("push")
    /\ \/ indices' = indices \cup {idx}
       \/ (\E f \in Futures : cb[f] = "push") /\ indices' = indices
    /\ wpc' = "count"
    /\ UNCHANGED << waiterRest, ready, cb, count, goal, result, idx >>

count_ready ==
    /\ At("count")
    /\ count' = Bump
    /\ goal' = (goal \/ Wins)
    /\ indices' = IF kind = "when_any" /\ Wins THEN {idx} ELSE indices
    /\ NextElement
    /\ UNCHANGED << waiterRest, ready, cb, result >>

attach_always(f) ==
    /\ At("attach") /\ idx = f
    /\ cb' = [cb EXCEPT ![f] = "attached"]
    /\ NextElement
    /\ UNCHANGED << waiterRest, ready, callVars >>

\* set_on_completed, before the future is ready ...
attach(f) ==
    /\ At("attach") /\ idx = f
    /\ f \notin ready
    /\ cb' = [cb EXCEPT ![f] = "attached"]
    /\ NextElement
    /\ UNCHANGED << waiterRest, ready, callVars >>

\* ... or too late: on_future_ready is called by the calling thread.
ready_on_caller ==
    /\ At("attach")
    /\ idx \in ready
    /\ count' = Bump
    /\ goal' = (goal \/ Wins)
    /\ indices' = IF kind = "when_some" /\ Bump <= needed THEN indices \cup {idx}
                  ELSE IF kind = "when_any" /\ Wins THEN {idx} ELSE indices
    /\ NextElement
    /\ UNCHANGED << waiterRest, ready, cb, result >>

returns_untested ==
    /\ At("test") /\ idx > Size
    /\ wpc' = "returned"
    /\ result' = indices
    /\ UNCHANGED << waiterRest, ready, cb, count, goal, indices, idx >>

returns_at_once ==
    /\ At("test") /\ idx > Size
    /\ goal
    /\ wpc' = "returned"
    /\ result' = indices
    /\ UNCHANGED << waiterRest, ready, cb, count, goal, indices, idx >>

suspend ==
    /\ At("test") /\ idx > Size
    /\ ~goal
    /\ wpc' = "suspended"
    /\ word' = "suspended"
    /\ UNCHANGED << constVars, stray, phase, prev, dropped, ready, cb, callVars, idx >>

resume ==
    /\ wpc = "suspended" /\ word = "pending"
    /\ word' = "active" /\ phase' = phase + 1
    /\ wpc' = "returned"
    /\ result' = indices
    /\ UNCHANGED << constVars, stray, prev, dropped, ready, cb, count, goal, indices, idx >>

\* spinlock::yield, where the thread takes a spinlock or runs a deferred function.
yield ==
    /\ wpc \in {"look", "again", "attach"} /\ word = "active"
    /\ phase < MaxYields
    /\ word' = "pending"
    /\ UNCHANGED << constVars, stray, phase, prev, dropped, ready, cb, callVars, wpc, idx >>

reactivate ==
    /\ wpc # "suspended" /\ word = "pending"
    /\ word' = "active" /\ phase' = phase + 1
    /\ UNCHANGED << constVars, stray, prev, dropped, ready, cb, callVars, wpc, idx >>

-----------------------------------------------------------------------------
(***************************************************************************)
(* set_value of a future, and its callback on_future_ready.                *)
(***************************************************************************)
futureRest == << constVars, stray, goal, result, wpc, idx, phase >>

set_value(f) ==
    /\ f \notin ready \cup deferred
    /\ ready' = ready \cup {f}
    /\ cb' = [cb EXCEPT ![f] = IF @ = "attached" THEN "due" ELSE @]
    /\ UNCHANGED << futureRest, count, indices, word, prev, dropped >>

\* when_any has nothing to do if index_ was set; when_some only counts the futures
\* it does not need.
on_future_ready(f) ==
    /\ cb[f] = "due"
    /\ count' = Bump
    /\ indices' = IF kind = "when_any" /\ Wins THEN {f} ELSE indices
    /\ cb' = [cb EXCEPT ![f] =
                IF kind = "when_some" /\ Bump < needed THEN "push"
                ELSE IF kind = "when_some" /\ Wins THEN "push and call"
                ELSE IF Wins THEN "call" ELSE "done"]
    /\ UNCHANGED << futureRest, ready, word, prev, dropped >>

push_back(f) ==
    /\ cb[f] \in {"push", "push and call"}
    /\ \/ indices' = indices \cup {f}
       \/ wpc = "push" /\ indices' = indices
    /\ cb' = [cb EXCEPT ![f] = IF @ = "push" THEN "done" ELSE "call"]
    /\ UNCHANGED << futureRest, ready, count, word, prev, dropped >>

\* set_thread_state: the thread is suspended, active, or already pending.
call_suspended(f) ==
    /\ cb[f] = "call"
    /\ word = "suspended"
    /\ word' = "pending"
    /\ cb' = [cb EXCEPT ![f] = "done"]
    /\ UNCHANGED << futureRest, ready, count, indices, prev, dropped >>

call_active(f) ==
    /\ cb[f] = "call"
    /\ word = "active"
    /\ cb' = [cb EXCEPT ![f] = "helper"]
    /\ prev' = phase
    /\ UNCHANGED << futureRest, ready, count, indices, word, dropped >>

call_pending(f) ==
    /\ cb[f] = "call"
    /\ word = "pending"
    /\ cb' = [cb EXCEPT ![f] = "done"]
    /\ dropped' = TRUE
    /\ UNCHANGED << futureRest, ready, count, indices, word, prev >>

\* set_active_state, run by the helper thread.
helper_retries(f) ==
    /\ cb[f] = "helper"
    /\ ~(word = "active" /\ phase # prev)
    /\ cb' = [cb EXCEPT ![f] = "call"]
    /\ UNCHANGED << futureRest, ready, count, indices, word, prev, dropped >>

helper_gives_up(f) ==
    /\ cb[f] = "helper"
    /\ word = "active" /\ phase # prev
    /\ cb' = [cb EXCEPT ![f] = "done"]
    /\ dropped' = TRUE
    /\ UNCHANGED << futureRest, ready, count, indices, word, prev >>

\* The timer of an earlier wait.
stray_call ==
    /\ stray = "armed"
    /\ word = "suspended"
    /\ stray' = "fired"
    /\ word' = "pending"
    /\ UNCHANGED << constVars, ready, cb, callVars, wpc, idx, phase, prev, dropped >>

Waiter ==
    \/ skip \/ test \/ look \/ execute_deferred \/ not_ready \/ push \/ count_ready
    \/ (\E f \in Futures : attach(f))
    \/ ready_on_caller \/ returns_at_once \/ suspend \/ resume \/ reactivate

Callback(f) ==
    \/ on_future_ready(f) \/ push_back(f)
    \/ call_suspended(f) \/ call_active(f) \/ call_pending(f)
    \/ helper_retries(f) \/ helper_gives_up(f)

Next ==
    \/ Waiter \/ yield \/ stray_call
    \/ \E f \in Futures : set_value(f) \/ Callback(f)

Fairness == WF_vars(Waiter) /\ \A f \in Futures : WF_vars(Callback(f))

Spec == Init /\ [][Next]_vars
FairSpec == Spec /\ Fairness

-----------------------------------------------------------------------------
Calling == {f \in Futures : cb[f] \in {"push and call", "call", "helper"}}

\* Every variable has its type; every count is one of futures there are.
TypeOK ==
    /\ needed \in Futures /\ deferred \subseteq Futures
    /\ ready \subseteq Futures /\ indices \subseteq Futures /\ result \subseteq Futures
    /\ cb \in [Futures -> {"none", "attached", "due", "push", "push and call",
                           "call", "helper", "done"}]
    /\ count \in 0..Size /\ goal \in BOOLEAN /\ dropped \in BOOLEAN
    /\ wpc \in {"test", "look", "again", "push", "count", "attach", "suspended", "returned"}
    /\ idx \in 1..(Size + 1)
    /\ word \in {"active", "pending", "suspended"}
    /\ prev <= phase /\ phase <= MaxYields + 1

\* wait_some, when_some and when_any return only after enough futures are ready,
\* although wait_some also counts elements it never looked at, unless the timer of
\* an earlier wait woke the thread up (the assertion wait_some.hpp:344 then fails).
EnoughAreReady ==
    wpc = "returned" /\ stray # "fired" =>
        /\ Cardinality(ready) >= needed
        /\ count >= needed

\* The count is completed once: either the thread itself learns of it or exactly
\* one callback calls set_thread_state, never two and never both.
OneWakeUp == Cardinality(Calling) + (IF goal THEN 1 ELSE 0) <= 1

\* A thread that sleeps although enough futures are ready has a callback on its way
\* to it, unless a call met the thread in a phase or state its caller did not expect.
NotStranded ==
    word = "suspended" /\ Cardinality(ready) >= needed =>
        dropped \/ \E f \in Futures : cb[f] \notin {"none", "attached", "done"}

\* The futures the result names are ready, and when_any names exactly one.
ResultNamesReadyFutures ==
    /\ result \subseteq ready
    /\ kind = "when_any" /\ wpc = "returned" /\ stray # "fired" => Cardinality(result) = 1

\* Once enough futures are ready the thread returns, or a call to it was dropped.
ReturnsOrDropped == Cardinality(ready) >= needed ~> (wpc = "returned" \/ dropped)

\* wait_any returns after at least one future has become ready (wait_any.hpp:53).
WaitAnyReturns == (needed = 1 /\ ready # {}) ~> wpc = "returned"

\* The result of when_some lists as many indices as were asked for
\* (tests/unit/lcos/when_some.cpp:62).
ListsAsManyAsNeeded ==
    kind = "when_some" /\ wpc = "returned" => Cardinality(result) = needed
=============================================================================
