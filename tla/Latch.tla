------------------------------- MODULE Latch -------------------------------
(***************************************************************************)
(* lcos::local::latch (hpx/lcos/local/latch.hpp).                          *)
(***************************************************************************)
EXTENDS CondVar

\* Besides queue_, each thread has a local queue for abort_all.

CONSTANTS Count,     \* the counter at construction
          Strays,    \* threads that bring an armed timer of an earlier wait
          MaxCalls   \* how many operations a thread calls

VARIABLES counter,   \* counter_
          pc,        \* what a thread does, or how its last wait ended
          made       \* how many calls it made

objectVars == << queue, mtx, counter, pc, made >>
latchVars == << waitVars, objectVars >>

Init ==
    /\ InitWaits([t \in Threads |-> IF t \in Strays THEN 1 ELSE 0])
    /\ InitCondVar
    /\ counter = Count
    /\ pc = [t \in Threads |-> "out"]
    /\ made = [t \in Threads |-> 0]

\* The caller sees to it that nobody uses the latch once it is being destroyed.
Call(t) ==
    /\ Calls(t)
    /\ pc[t] \notin {"waiting", "aborting", "destroyed"}
    /\ \A u \in Threads : pc[u] # "destroyed"
    /\ made[t] < MaxCalls
    /\ made' = [made EXCEPT ![t] = @ + 1]

wait_blocks(t) ==
    /\ Call(t)
    /\ counter > 0
    /\ wait("cond", t, FALSE)
    /\ pc' = [pc EXCEPT ![t] = "waiting"]
    /\ UNCHANGED counter

wait_passes(t) ==
    /\ Call(t)
    /\ counter = 0
    /\ release
    /\ pc' = [pc EXCEPT ![t] = "returned"]
    /\ UNCHANGED counter

count_down_and_wait_blocks(t) ==
    /\ Call(t)
    /\ counter > 1
    /\ counter' = counter - 1
    /\ wait("cond", t, FALSE)
    /\ pc' = [pc EXCEPT ![t] = "waiting"]

\* count_down; count_down_and_wait of the last thread is the case n = 1 = counter.
count_down(t, n) ==
    /\ Call(t)
    /\ n \in 1..counter
    /\ counter' = counter - n
    /\ IF counter' = 0 THEN notify_all("cond") ELSE release
    /\ pc' = [pc EXCEPT ![t] = "out"]

\* cond_.wait returns; an aborted thread leaves wait with an exception.
WaitReturns(t) ==
    /\ pc[t] = "waiting"
    /\ leave(t)
    /\ pc' = [pc EXCEPT ![t] = IF why[t] = "abort" THEN "aborted" ELSE "returned"]
    /\ UNCHANGED << counter, made >>

Unlocks(t) == Back(t) /\ release /\ UNCHANGED << counter, pc, made >>

AbortBegins(t) ==
    /\ Call(t)
    /\ abort_next("cond", t)
    /\ pc' = [pc EXCEPT ![t] = "aborting"]
    /\ UNCHANGED counter

AbortGoesOn(t) ==
    /\ pc[t] = "aborting"
    /\ mtx = NoThread
    /\ abort_next("cond", t)
    /\ UNCHANGED << counter, pc, made >>

AbortEnds(t) ==
    /\ pc[t] = "aborting"
    /\ mtx = NoThread
    /\ queue["cond"] = << >> /\ queue[t] = << >>
    /\ release
    /\ pc' = [pc EXCEPT ![t] = "out"]
    /\ UNCHANGED << counter, made >>

\* ~latch takes the spinlock, and then the latch is gone.
Destroy(t) ==
    /\ Call(t)
    /\ counter = 0
    /\ \A u \in Threads : pc[u] # "aborting"
    /\ release
    /\ pc' = [pc EXCEPT ![t] = "destroyed"]
    /\ UNCHANGED counter

Start(t) ==
    \/ wait_blocks(t) \/ wait_passes(t) \/ count_down_and_wait_blocks(t)
    \/ \E n \in 1..Count : count_down(t, n)
    \/ AbortBegins(t) \/ Destroy(t)

Proceed(t) == WaitReturns(t) \/ Unlocks(t) \/ AbortGoesOn(t) \/ AbortEnds(t)

Next ==
    \/ \E t \in Threads : Start(t) \/ Proceed(t)
    \/ Delivery /\ UNCHANGED objectVars

Spec == Init /\ [][Next]_latchVars
-----------------------------------------------------------------------------
\* Every variable has its type, and every valid entry is in one of the queues.
TypeOK ==
    /\ counter \in 0..Count
    /\ pc \in [Threads -> {"out", "waiting", "returned", "aborted", "aborting", "destroyed"}]
    /\ made \in [Threads -> 0..MaxCalls]
    /\ {t \in Threads : registered[t]} = UNION {InQueue(c) : c \in Conds}

\* wait and count_down_and_wait return, other than by an exception, only when the
\* counter has reached 0, or to a thread that the timer of an earlier wait woke.
OpensAtZero ==
    \A t \in Threads :
        pc[t] = "waiting" /\ pc'[t] = "returned" => counter = 0 \/ why[t] = "timeout"

\* The counter is 0, also for a thread that an abort_all holds in its local queue.
Entitled(t) == pc[t] = "waiting" /\ counter = 0

\* Once the destructor returned, no thread is left inside wait.
NobodyLeftInside ==
    \A t, u \in Threads : pc[t] = "destroyed" => pc[u] # "waiting"
=============================================================================
