-------------------------- MODULE SlidingSemaphore --------------------------
(***************************************************************************)
(* lcos::local::sliding_semaphore (detail/sliding_semaphore.hpp): wait for *)
(* upper_limit passes when it is at most max_difference ahead of the lower *)
(* limit, which only signal moves.                                         *)
(***************************************************************************)
EXTENDS CondVar

CONSTANTS max_difference,
          Limits,     \* limits that calls of wait and signal give
          Strays,     \* threads that bring an armed timer of an earlier wait
          MaxCalls    \* how many operations a thread calls

VARIABLES lower_limit,   \* lower_limit_
          pc,
          upper,         \* the upper limit that a thread waits or waited for
          left,          \* rounds left in the loop of signal
          made

objectVars == << queue, mtx, lower_limit, pc, upper, left, made >>
slidingVars == << waitVars, objectVars >>

TooFar(limit) == limit - max_difference > lower_limit

Init ==
    /\ InitWaits([t \in Threads |-> IF t \in Strays THEN 1 ELSE 0])
    /\ InitCondVar
    /\ lower_limit = 0
    /\ pc = [t \in Threads |-> "out"]
    /\ upper = [t \in Threads |-> 0]
    /\ left = [t \in Threads |-> 0]
    /\ made = [t \in Threads |-> 0]

Call(t) ==
    /\ Calls(t)
    /\ pc[t] # "waiting"
    /\ left[t] = 0
    /\ made[t] < MaxCalls
    /\ made' = [made EXCEPT ![t] = @ + 1]

\* wait and try_wait.
wait_passes(t, limit) ==
    /\ Call(t)
    /\ ~TooFar(limit)
    /\ release
    /\ pc' = [pc EXCEPT ![t] = "passed"]
    /\ upper' = [upper EXCEPT ![t] = limit]
    /\ UNCHANGED << lower_limit, left >>

wait_blocks(t, limit) ==
    /\ Call(t)
    /\ TooFar(limit)
    /\ wait("cond", t, FALSE)
    /\ pc' = [pc EXCEPT ![t] = "waiting"]
    /\ upper' = [upper EXCEPT ![t] = limit]
    /\ UNCHANGED << lower_limit, left >>

WaitReturns(t) ==
    /\ leave(t)
    /\ UNCHANGED << lower_limit, pc, upper, left, made >>

WaitAgain(t) ==
    /\ Back(t)
    /\ TooFar(upper[t])
    /\ wait("cond", t, FALSE)
    /\ UNCHANGED << lower_limit, pc, upper, left, made >>

Passes(t) ==
    /\ Back(t)
    /\ ~TooFar(upper[t])
    /\ release
    /\ pc' = [pc EXCEPT ![t] = "passed"]
    /\ UNCHANGED << lower_limit, upper, left, made >>

\* A round of the loop of signal, with n to go; it gives up the spinlock.
Round(t, n) ==
    IF n > 0
    THEN /\ notify_one("cond")
         /\ left' = [left EXCEPT ![t] = IF Len(queue["cond"]) > 1 THEN n - 1 ELSE 0]
    ELSE release /\ left' = [left EXCEPT ![t] = 0]

\* signal touches upon all threads; signal_all is signal(lower_limit_).
signal(t, limit) ==
    /\ Call(t)
    /\ lower_limit' = IF limit > lower_limit THEN limit ELSE lower_limit
    /\ Round(t, Len(queue["cond"]))
    /\ pc' = [pc EXCEPT ![t] = "out"]
    /\ UNCHANGED upper

SignalGoesOn(t) ==
    /\ left[t] > 0
    /\ mtx = NoThread
    /\ Round(t, left[t])
    /\ UNCHANGED << lower_limit, pc, upper, made >>

Start(t) ==
    \/ \E limit \in Limits : wait_passes(t, limit) \/ wait_blocks(t, limit)
    \/ \E limit \in Limits \cup {lower_limit} : signal(t, limit)

Proceed(t) == WaitReturns(t) \/ WaitAgain(t) \/ Passes(t) \/ SignalGoesOn(t)

Next ==
    \/ \E t \in Threads : Start(t) \/ Proceed(t)
    \/ Delivery /\ UNCHANGED objectVars

Spec == Init /\ [][Next]_slidingVars
-----------------------------------------------------------------------------
\* Every variable has its type.
TypeOK ==
    /\ lower_limit \in Limits \cup {0}
    /\ pc \in [Threads -> {"out", "waiting", "passed"}]
    /\ left \in [Threads -> Nat]
    /\ InQueue("cond") = {t \in Threads : registered[t]}

\* No thread gets more than max_difference ahead of the lower limit.
WindowIsKept ==
    \A t \in Threads : pc[t] = "passed" => ~TooFar(upper[t])

\* A queued thread that may pass is within reach of a signal in progress: the
\* loop, with the number of rounds it fixed when it began, gets as far as its
\* place in the queue, though threads join, leave and queue again meanwhile.
SignalReachesEligible ==
    \A i \in 1..Len(queue["cond"]) :
        ~TooFar(upper[queue["cond"][i]]) => \E s \in Threads : left[s] >= i

\* The lower limit lets the thread pass.
Entitled(t) == pc[t] = "waiting" /\ ~TooFar(upper[t])
=============================================================================
