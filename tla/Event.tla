------------------------------- MODULE Event -------------------------------
(***************************************************************************)
(* lcos::local::event (hpx/lcos/local/event.hpp): the flag is an atomic    *)
(* that is written outside of the spinlock that protects the queue.        *)
(***************************************************************************)
EXTENDS CondVar

CONSTANTS Resetters,   \* threads that call reset
          Strays,      \* threads that bring an armed timer of an earlier wait
          MaxCalls     \* how many operations a thread calls

VARIABLES event,   \* event_
          pc,
          made

objectVars == << queue, mtx, event, pc, made >>
eventVars == << waitVars, objectVars >>

Init ==
    /\ InitWaits([t \in Threads |-> IF t \in Strays THEN 1 ELSE 0])
    /\ InitCondVar
    /\ event = FALSE
    /\ pc = [t \in Threads |-> "out"]
    /\ made = [t \in Threads |-> 0]

\* The calls begin with an access to the flag, without the spinlock.
Call(t) ==
    /\ at[t] = "run"
    /\ pc[t] \in {"out", "passed"}
    /\ made[t] < MaxCalls
    /\ made' = [made EXCEPT ![t] = @ + 1]
    /\ UNCHANGED condVars

\* wait: the test before the spinlock is taken.
wait_call(t) ==
    /\ Call(t)
    /\ pc' = [pc EXCEPT ![t] = IF event THEN "passed" ELSE "locking"]
    /\ UNCHANGED event

\* wait_locked, for the first time or after cond_.wait.
AtTest(t) ==
    \/ Calls(t) /\ pc[t] = "locking"
    \/ Back(t) /\ pc[t] = "waiting"

wait_locked_blocks(t) ==
    /\ AtTest(t)
    /\ ~event
    /\ wait("cond", t, FALSE)
    /\ pc' = [pc EXCEPT ![t] = "waiting"]
    /\ UNCHANGED << event, made >>

wait_locked_passes(t) ==
    /\ AtTest(t)
    /\ event
    /\ release
    /\ pc' = [pc EXCEPT ![t] = "passed"]
    /\ UNCHANGED << event, made >>

WaitReturns(t) ==
    /\ leave(t)
    /\ UNCHANGED << event, pc, made >>

set(t) ==
    /\ Call(t)
    /\ event' = TRUE
    /\ pc' = [pc EXCEPT ![t] = "setting"]

set_locked(t) ==
    /\ Calls(t)
    /\ pc[t] = "setting"
    /\ notify_all("cond")
    /\ pc' = [pc EXCEPT ![t] = "out"]
    /\ UNCHANGED << event, made >>

reset(t) ==
    /\ t \in Resetters
    /\ Call(t)
    /\ event' = FALSE
    /\ pc' = [pc EXCEPT ![t] = "out"]

Start(t) == wait_call(t) \/ set(t) \/ reset(t)

Proceed(t) ==
    wait_locked_blocks(t) \/ wait_locked_passes(t) \/ WaitReturns(t) \/ set_locked(t)

Next ==
    \/ \E t \in Threads : Start(t) \/ Proceed(t)
    \/ Delivery /\ UNCHANGED objectVars

Spec == Init /\ [][Next]_eventVars
-----------------------------------------------------------------------------
\* Every variable has its type.
TypeOK ==
    /\ event \in BOOLEAN
    /\ pc \in [Threads -> {"out", "locking", "waiting", "passed", "setting"}]
    /\ made \in [Threads -> 0..MaxCalls]
    /\ InQueue("cond") = {t \in Threads : registered[t]}

\* While the event has occurred and threads are queued, some set has yet to
\* notify them: the store before the spinlock loses no thread that tested before.
NoMissedEvent ==
    event /\ queue["cond"] # << >> => \E t \in Threads : pc[t] = "setting"

\* The event has occurred, and was not reset.
Entitled(t) == pc[t] = "waiting" /\ event
=============================================================================
