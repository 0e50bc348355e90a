----------------------------- MODULE FutureData -----------------------------
(***************************************************************************)
(* The shared state of a future, lcos::detail::future_data, with the       *)
(* promise or the deferred task that makes it ready                        *)
(* (hpx/lcos/detail/future_data.hpp, hpx/lcos/local/promise.hpp and        *)
(* futures_factory.hpp).  set_value and set_exception run the same steps:  *)
(* the result is the name of the thread that stored it.                    *)
(***************************************************************************)
EXTENDS CondVar

CONSTANTS Untimed,    \* threads that never use wait_until
          Strays,     \* threads that bring an armed timer of an earlier wait
          MaxCalls    \* how many operations a thread calls

VARIABLES deferred,       \* the future belongs to a task that runs on demand
          started,        \* task_base::started_
          runs,           \* how often the function of the task was called
          state,          \* state_ and storage_
          on_completed,   \* on_completed_: the callbacks it is composed of
          attached,       \* the callbacks that were ever composed into it
          running,        \* the callbacks that a thread has yet to run
          ran,            \* the callbacks that were run, in this order
          pc,
          after,          \* where set_value returns to
          made

taskOwn == << deferred, started, runs >>
dataOwn == << state, on_completed, attached, running, ran >>
objectVars == << queue, mtx, taskOwn, dataOwn, pc, after, made >>
futureVars == << waitVars, objectVars >>

Elements(s) == {s[i] : i \in 1..Len(s)}

empty == NoThread
Ready == state # empty

Init ==
    /\ InitWaits([t \in Threads |-> IF t \in Strays THEN 1 ELSE 0])
    /\ InitCondVar
    /\ deferred \in BOOLEAN
    /\ started = FALSE
    /\ runs = 0
    /\ state = empty
    /\ on_completed = << >>
    /\ attached = << >>
    /\ running = [t \in Threads |-> << >>]
    /\ ran = << >>
    /\ pc = [t \in Threads |-> "out"]
    /\ after = [t \in Threads |-> "out"]
    /\ made = [t \in Threads |-> 0]

\* A call starts.  Each begins with a critical section of its own.
Ask(t) ==
    /\ Calls(t)
    /\ pc[t] = "out"
    /\ made[t] < MaxCalls
    /\ made' = [made EXCEPT ![t] = @ + 1]

-----------------------------------------------------------------------------
\* promise_base::set_value, set_exception and check_abandon_shared_state look
\* whether the state is ready before they call set_value or set_exception on it.
promise_set(t) ==
    /\ ~deferred
    /\ Ask(t)
    /\ running[t] = << >>
    /\ pc' = [pc EXCEPT ![t] = IF Ready THEN "out" ELSE "setting"]
    /\ after' = [after EXCEPT ![t] = "out"]
    /\ release
    /\ UNCHANGED << taskOwn, dataOwn >>

execute_untested(t) ==
    /\ deferred
    /\ Ask(t)
    /\ runs' = runs + 1
    /\ started' = TRUE
    /\ pc' = [pc EXCEPT ![t] = "setting"]
    /\ after' = [after EXCEPT ![t] = "get"]
    /\ release
    /\ UNCHANGED << deferred, dataOwn >>

\* task_base::wait, get_result and execute_deferred: whoever comes first runs
\* the function, and then stores its result.
execute(t) ==
    /\ deferred
    /\ Ask(t)
    /\ ~started
    /\ runs' = runs + 1
    /\ started' = TRUE
    /\ pc' = [pc EXCEPT ![t] = "setting"]
    /\ after' = [after EXCEPT ![t] = "get"]
    /\ release
    /\ UNCHANGED << deferred, dataOwn >>

\* The rest of wait and get_result is the same for every shared state.
get(t) ==
    /\ Ask(t)
    /\ deferred => started
    /\ pc' = [pc EXCEPT ![t] = "get"]
    /\ release
    /\ UNCHANGED << after, taskOwn, dataOwn >>

\* task_base::wait_until does not run the task; it reports deferred.
wait_until(t) ==
    /\ t \notin Untimed
    /\ Ask(t)
    /\ pc' = [pc EXCEPT ![t] = IF deferred /\ ~started THEN "out" ELSE "get until"]
    /\ release
    /\ UNCHANGED << after, taskOwn, dataOwn >>

-----------------------------------------------------------------------------
\* notify_one returns whether the queue is not empty, and the loop goes on.
NotifyNext(t) ==
    /\ notify_one("cond")
    /\ pc' = [pc EXCEPT ![t] = IF Len(queue["cond"]) > 1 THEN "notify" ELSE "callbacks"]

set_value_untested(t) ==
    /\ Calls(t)
    /\ pc[t] = "setting"
    /\ state' = t
    /\ running' = [running EXCEPT ![t] = on_completed]
    /\ on_completed' = << >>
    /\ NotifyNext(t)
    /\ UNCHANGED << taskOwn, attached, ran, after, made >>

\* set_value and set_exception up to the first notify_one.
set_value(t) ==
    /\ Calls(t)
    /\ pc[t] = "setting"
    /\ ~Ready
    /\ state' = t
    /\ running' = [running EXCEPT ![t] = on_completed]
    /\ on_completed' = << >>
    /\ NotifyNext(t)
    /\ UNCHANGED << taskOwn, attached, ran, after, made >>

\* promise_already_satisfied.
set_value_fails(t) ==
    /\ Calls(t)
    /\ pc[t] = "setting"
    /\ Ready
    /\ release
    /\ pc' = [pc EXCEPT ![t] = after[t]]
    /\ UNCHANGED << taskOwn, dataOwn, after, made >>

\* The loop took the spinlock again.
notify_next(t) ==
    /\ Calls(t)
    /\ pc[t] = "notify"
    /\ NotifyNext(t)
    /\ UNCHANGED << taskOwn, dataOwn, after, made >>

compose_cb(old, new) == Append(old, new)

\* set_on_completed: one callback of each thread.
set_on_completed(t) ==
    /\ Ask(t)
    /\ running[t] = << >>
    /\ t \notin Elements(attached) \cup Elements(ran)
    /\ after' = [after EXCEPT ![t] = "out"]
    /\ IF Ready
       THEN /\ running' = [running EXCEPT ![t] = <<t>>]
            /\ pc' = [pc EXCEPT ![t] = "callbacks"]
            /\ UNCHANGED << on_completed, attached >>
       ELSE /\ on_completed' = compose_cb(on_completed, t)
            /\ attached' = Append(attached, t)
            /\ UNCHANGED << running, pc >>
    /\ release
    /\ UNCHANGED << taskOwn, state, ran >>

\* run_on_completed, on this thread or on a new one.
run_on_completed(t) ==
    /\ running[t] # << >>
    /\ pc[t] # "notify"
    /\ ran' = Append(ran, Head(running[t]))
    /\ running' = [running EXCEPT ![t] = Tail(@)]
    /\ UNCHANGED << condVars, taskOwn, state, on_completed, attached, pc, after, made >>

\* handle_on_completed returns: when all were run, or before that if the new
\* thread is not waited for.
handle_on_completed(t) ==
    /\ pc[t] = "callbacks"
    /\ pc' = [pc EXCEPT ![t] = after[t]]
    /\ UNCHANGED << condVars, taskOwn, dataOwn, after, made >>

-----------------------------------------------------------------------------
wait_blocks(t) ==
    /\ Calls(t)
    /\ pc[t] \in {"get", "get until"}
    /\ ~Ready
    /\ wait("cond", t, pc[t] = "get until")
    /\ pc' = [pc EXCEPT ![t] = IF @ = "get" THEN "waiting" ELSE "waiting until"]
    /\ UNCHANGED << taskOwn, dataOwn, after, made >>

wait_passes(t) ==
    /\ Calls(t)
    /\ pc[t] \in {"get", "get until"}
    /\ Ready
    /\ release
    /\ pc' = [pc EXCEPT ![t] = IF @ = "get" THEN "read" ELSE "out"]
    /\ UNCHANGED << taskOwn, dataOwn, after, made >>

\* wait returns without testing the state again; wait_until has its status.
wait_returns(t) ==
    /\ mtx = NoThread
    /\ Resume(t)
    /\ queue' = [queue EXCEPT !["cond"] = SelectSeq(@, LAMBDA u : u # t)]
    /\ pc' = [pc EXCEPT ![t] = IF @ = "waiting" THEN "read" ELSE "out"]
    /\ UNCHANGED << mtx, taskOwn, dataOwn, after, made >>

\* get_result reads the state without the spinlock.
read(t) ==
    /\ pc[t] = "read"
    /\ pc' = [pc EXCEPT ![t] = "out"]
    /\ UNCHANGED << condVars, taskOwn, dataOwn, after, made >>

Start(t) ==
    promise_set(t) \/ execute(t) \/ get(t) \/ wait_until(t) \/ set_on_completed(t)

Proceed(t) ==
    \/ set_value(t) \/ set_value_fails(t) \/ notify_next(t)
    \/ run_on_completed(t) \/ handle_on_completed(t)
    \/ wait_blocks(t) \/ wait_passes(t) \/ wait_returns(t) \/ read(t)

Next ==
    \/ \E t \in Threads : Start(t) \/ Proceed(t)
    \/ Delivery /\ UNCHANGED objectVars

Spec == Init /\ [][Next]_futureVars
-----------------------------------------------------------------------------
\* Every variable has its type, and every queued thread is a registered one.
TypeOK ==
    /\ {deferred, started} \subseteq BOOLEAN /\ runs \in Nat
    /\ state \in Threads \cup {empty}
    /\ Elements(on_completed) \cup Elements(attached) \cup Elements(ran) \subseteq Threads
    /\ \A t \in Threads : Elements(running[t]) \subseteq Threads
    /\ pc \in [Threads -> {"out", "setting", "notify", "callbacks", "get", "get until",
                            "waiting", "waiting until", "read"}]
    /\ after \in [Threads -> {"out", "get"}]
    /\ made \in [Threads -> 0..MaxCalls]
    /\ InQueue("cond") = {t \in Threads : registered[t]}

\* While threads are queued at a future that is ready, the thread that made it
\* ready is in its loop: notify_one gives up the spinlock for each of them, and
\* tells whether there are more as of then.
NoWaiterLeftBehind ==
    Ready /\ queue["cond"] # << >> => \E t \in Threads : pc[t] = "notify"

\* The callbacks that were attached while the future was not ready are run in the
\* order they were attached, each of them once, and none is left in a ready future.
CallbacksInOrder ==
    /\ Ready => on_completed = << >>
    /\ LET done == SelectSeq(ran, LAMBDA c : c \in Elements(attached))
       IN  done = SubSeq(attached, 1, Len(done))

\* The function of a deferred task is called by one of the threads that wait for
\* it, only once, and before the result is there.
DeferredRunsOnce == runs <= 1 /\ (deferred /\ Ready => runs = 1)

\* A result, once stored, stays: of two threads that found the promise unset, only
\* one stores its value.
ResultIsStable == Ready => state' = state

\* wait, and so get, returns before the future is ready only to a thread that no
\* set_value took out of the queue: it does not test the state again.
ReadyIsPostcondition ==
    \A t \in Threads :
        pc[t] = "waiting" /\ pc'[t] = "read" /\ ~Ready => registered[t]

\* The future is ready, and the thread waits for it or for its callback to be run.
Entitled(t) ==
    /\ Ready
    /\ \/ pc[t] = "waiting"
       \/ t \in Elements(attached) \ Elements(ran)
=============================================================================
