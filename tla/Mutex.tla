------------------------------- MODULE Mutex -------------------------------
(***************************************************************************)
(* lcos::local::mutex and timed_mutex (src/lcos/local/mutex.cpp).          *)
(***************************************************************************)
EXTENDS CondVar

CONSTANTS Untimed,    \* threads that never use try_lock_until
          Strays,     \* threads that bring an armed timer of an earlier wait
          MaxCalls    \* how often a thread asks for the mutex

VARIABLES owner_id,   \* the thread that owns the mutex
          pc,         \* where a thread is in its calls
          made,       \* how often it has asked
          absorbed    \* unlock chose a thread that then reported a timeout

mutexVars == << condVars, owner_id, pc, made, absorbed >>

Free == owner_id = NoThread

Init ==
    /\ InitWaits([t \in Threads |-> IF t \in Strays THEN 1 ELSE 0])
    /\ InitCondVar
    /\ owner_id = NoThread
    /\ pc = [t \in Threads |-> "out"]
    /\ made = [t \in Threads |-> 0]
    /\ absorbed = FALSE

Ask(t) ==
    /\ Calls(t)
    /\ pc[t] = "out"
    /\ made[t] < MaxCalls
    /\ made' = [made EXCEPT ![t] = @ + 1]

Acquire(t) ==
    /\ owner_id' = t
    /\ pc' = [pc EXCEPT ![t] = "held"]
    /\ release
    /\ UNCHANGED absorbed

\* lock, try_lock and try_lock_until find the mutex free.
TakeFree(t) == Ask(t) /\ Free /\ Acquire(t)

\* try_lock finds it owned.
try_lock_fails(t) ==
    /\ Ask(t)
    /\ ~Free
    /\ release
    /\ UNCHANGED << owner_id, pc, absorbed >>

LockWaits(t) ==
    /\ Ask(t)
    /\ ~Free
    /\ wait("cond", t, FALSE)
    /\ pc' = [pc EXCEPT ![t] = "lock"]
    /\ UNCHANGED << owner_id, absorbed >>

TryUntilWaits(t) ==
    /\ t \notin Untimed
    /\ Ask(t)
    /\ ~Free
    /\ wait("cond", t, TRUE)
    /\ pc' = [pc EXCEPT ![t] = "until"]
    /\ UNCHANGED << owner_id, absorbed >>

\* wait returns to lock or to try_lock_until.
WaitReturns(t) ==
    /\ leave(t)
    /\ pc' = [pc EXCEPT ![t] =
                IF @ = "until" /\ reason(t) = "timeout" THEN "timed out" ELSE @]
    /\ absorbed' = (absorbed \/ (pc'[t] = "timed out" /\ ~registered[t]))
    /\ UNCHANGED << owner_id, made >>

\* lock and try_lock_until test the owner again.
Takes(t) ==
    /\ Back(t)
    /\ pc[t] \in {"lock", "until"}
    /\ Free
    /\ Acquire(t)
    /\ UNCHANGED made

LockWaitsAgain(t) ==
    /\ Back(t)
    /\ pc[t] = "lock"
    /\ ~Free
    /\ wait("cond", t, FALSE)
    /\ UNCHANGED << owner_id, pc, made, absorbed >>

TryUntilFails(t) ==
    /\ Back(t)
    /\ pc[t] = "timed out" \/ (pc[t] = "until" /\ ~Free)
    /\ pc' = [pc EXCEPT ![t] = "out"]
    /\ release
    /\ UNCHANGED << owner_id, made, absorbed >>

unlock(t) ==
    /\ Calls(t)
    /\ pc[t] = "held"
    /\ owner_id' = NoThread
    /\ notify_one("cond")
    /\ pc' = [pc EXCEPT ![t] = "out"]
    /\ absorbed' = FALSE
    /\ UNCHANGED made

\* A thread starts a call, or goes on with one.
Start(t) == TakeFree(t) \/ try_lock_fails(t) \/ LockWaits(t) \/ TryUntilWaits(t)

Proceed(t) ==
    WaitReturns(t) \/ Takes(t) \/ LockWaitsAgain(t) \/ TryUntilFails(t) \/ unlock(t)

objectVars == << queue, mtx, owner_id, pc, made, absorbed >>

Next ==
    \/ \E t \in Threads : Start(t) \/ Proceed(t)
    \/ Delivery /\ UNCHANGED objectVars

Spec == Init /\ [][Next]_mutexVars
-----------------------------------------------------------------------------
\* Every variable has its type, and every queued thread is a registered one.
TypeOK ==
    /\ owner_id \in Threads \cup {NoThread}
    /\ pc \in [Threads -> {"out", "lock", "until", "timed out", "held"}]
    /\ made \in [Threads -> 0..MaxCalls]
    /\ InQueue("cond") = {t \in Threads : registered[t]}

\* lock and the try functions only return to the one thread that owner_id names.
OnlyOwnerHolds ==
    \A t \in Threads : pc[t] = "held" <=> owner_id = t

Coming(t) == pc[t] \in {"lock", "until"} /\ ~registered[t]

\* When the mutex is free and threads wait in its queue, one that unlock has taken
\* out of the queue is on its way: unless a try_lock_until that was chosen has
\* reported a timeout instead, which leaves the others waiting for the next unlock.
FreeMutexIsOffered ==
    Free /\ queue["cond"] # << >> /\ ~absorbed => \E t \in Threads : Coming(t)

\* A thread in lock that waits, though no notification was absorbed: as long as
\* the owners unlock it is entitled to the mutex.
Entitled(t) == pc[t] = "lock" /\ ~absorbed
=============================================================================
