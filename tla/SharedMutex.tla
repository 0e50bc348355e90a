---------------------------- MODULE SharedMutex ----------------------------
(***************************************************************************)
(* lcos::local::shared_mutex (hpx/lcos/local/shared_mutex.hpp) and the     *)
(* lcos::local::condition_variable it waits with                           *)
(* (hpx/lcos/local/condition_variable.hpp), which has a spinlock of its    *)
(* own and locks the mutex state_change again before it gives that up.     *)
(***************************************************************************)
EXTENDS CondVar, FiniteSets

CONSTANTS Strays,     \* threads that bring an armed timer of an earlier wait
          Converters  \* threads that start two operations; the others start one

VARIABLES shared_count, exclusive, upgrade, exclusive_waiting_blocked,
          todo,       \* condition variables the owner of state_change, mtx, has to notify
          held,       \* condition_variable::mtx_ of a thread that locks state_change again
          pc, made,
          want        \* what a thread in "waits" or "relocks" locks for

CVs == {"shared", "exclusive", "upgrade"}
state == << shared_count, exclusive, upgrade, exclusive_waiting_blocked >>
sharedOwn == << state, todo, held >>
objectVars == << queue, mtx, sharedOwn, want, pc, made >>
sharedVars == << waitVars, objectVars >>

Init ==
    /\ InitWaits([t \in Threads |-> IF t \in Strays THEN 1 ELSE 0])
    /\ InitCondVar
    /\ shared_count = 0
    /\ exclusive = FALSE /\ upgrade = FALSE /\ exclusive_waiting_blocked = FALSE
    /\ todo = << >>
    /\ held = [c \in CVs |-> NoThread]
    /\ pc = [t \in Threads |-> "out"]
    /\ made = [t \in Threads |-> 0]
    /\ want = [t \in Threads |-> "shared"]

goto(t, p) == pc' = [pc EXCEPT ![t] = p]

\* A thread that holds the mutex as h, or not at all, starts an operation.
Ask(t, h) ==
    /\ Calls(t)
    /\ pc[t] = h
    /\ made[t] < (IF t \in Converters THEN 2 ELSE 1)
    /\ made' = [made EXCEPT ![t] = @ + 1]

Unlocks(t, h) ==
    /\ Calls(t)
    /\ pc[t] = h
    /\ UNCHANGED made

-----------------------------------------------------------------------------
(***************************************************************************)
(* lock_shared, lock_upgrade, lock and unlock_upgrade_and_lock, as what    *)
(* they lock for.                                                          *)
(***************************************************************************)
Modes == {"shared", "upgrade", "exclusive", "upgrading"}

CondOf(p) ==
    CASE p \in {"shared", "upgrade"} -> "shared"
      [] p = "exclusive" -> "exclusive"
      [] p = "upgrading" -> "upgrade"

Waits_for(t, p) == pc[t] = "waits" /\ want[t] = p
Relocks_for(t, p) == pc[t] = "relocks" /\ want[t] = p

Open_to_any(p) ==
    CASE p = "shared" -> ~exclusive
      [] p = "upgrade" -> ~exclusive /\ ~exclusive_waiting_blocked
      [] p = "exclusive" -> shared_count = 0 /\ ~exclusive
      [] p = "upgrading" -> shared_count = 0

Open(p) ==
    CASE p = "shared" -> ~exclusive /\ ~exclusive_waiting_blocked
      [] p = "upgrade" -> ~exclusive /\ ~exclusive_waiting_blocked /\ ~upgrade
      [] p = "exclusive" -> shared_count = 0 /\ ~exclusive
      [] p = "upgrading" -> shared_count = 0

Take(t, p) ==
    /\ shared_count' = IF p \in {"shared", "upgrade"} THEN shared_count + 1 ELSE shared_count
    /\ exclusive' = (exclusive \/ p \in {"exclusive", "upgrading"})
    /\ upgrade' = IF p = "upgrading" THEN FALSE ELSE upgrade \/ p = "upgrade"
    /\ goto(t, IF p = "upgrading" THEN "exclusive" ELSE p)
    /\ want' = [want EXCEPT ![t] = "shared"]
    /\ UNCHANGED << waitVars, queue, mtx, exclusive_waiting_blocked, todo >>

\* The loop is about to call wait, and owns state_change.
ToWait(t, p) ==
    /\ exclusive_waiting_blocked' = (exclusive_waiting_blocked \/ p = "exclusive")
    /\ mtx' = t
    /\ goto(t, "waits")
    /\ want' = [want EXCEPT ![t] = p]
    /\ UNCHANGED << waitVars, queue, shared_count, exclusive, upgrade, todo >>

lock(t, p) ==
    /\ p # "upgrading"
    /\ Ask(t, "out")
    /\ IF Open(p) THEN Take(t, p) ELSE ToWait(t, p)
    /\ UNCHANGED held

try_lock_fails(t, p) ==
    /\ p # "upgrading"
    /\ Ask(t, "out")
    /\ ~Open(p)
    /\ UNCHANGED << condVars, sharedOwn, pc, want >>

unlock_upgrade_and_lock(t) ==
    /\ Ask(t, "upgrade")
    /\ shared_count' = shared_count - 1
    /\ IF shared_count = 1
         THEN /\ upgrade' = FALSE /\ exclusive' = TRUE
              /\ goto(t, "exclusive")
              /\ UNCHANGED << mtx, want >>
         ELSE /\ goto(t, "waits")
              /\ want' = [want EXCEPT ![t] = "upgrading"]
              /\ mtx' = t
              /\ UNCHANGED << upgrade, exclusive >>
    /\ UNCHANGED << waitVars, queue, exclusive_waiting_blocked, todo, held >>

\* condition_variable::wait takes its spinlock, and only then unlocks state_change.
cv_wait(t, p) ==
    /\ mtx = t
    /\ Waits_for(t, p)
    /\ held[CondOf(p)] = NoThread
    /\ wait(CondOf(p), t, FALSE)
    /\ UNCHANGED << sharedOwn, pc, made, want >>

\* The thread is back with the spinlock of the condition variable ...
cv_returns(t, p) ==
    /\ Waits_for(t, p) /\ mtx # t
    /\ held[CondOf(p)] = NoThread
    /\ Resume(t)
    /\ queue' = [queue EXCEPT ![CondOf(p)] = SelectSeq(@, LAMBDA u : u # t)]
    /\ held' = [held EXCEPT ![CondOf(p)] = t]
    /\ goto(t, "relocks")
    /\ UNCHANGED << mtx, state, todo, made, want >>

\* ... and gives it up when it owns state_change; the loop tests again.
relock(t, p) ==
    /\ Calls(t)
    /\ Relocks_for(t, p)
    /\ held' = [held EXCEPT ![CondOf(p)] = NoThread]
    /\ IF Open(p) THEN Take(t, p) ELSE ToWait(t, p)
    /\ UNCHANGED made

-----------------------------------------------------------------------------
\* state_change stays locked until the waiters are released.
release_waiters(t, first) ==
    /\ mtx' = t
    /\ todo' = first \o << "exclusive", "shared" >>
    /\ UNCHANGED << waitVars, queue, held >>

notify(t) ==
    /\ mtx = t
    /\ todo # << >>
    /\ LET c == Head(todo) IN
         /\ held[c] = NoThread
         /\ Notify(IF c = "shared" THEN InQueue(c)
                   ELSE IF queue[c] = << >> THEN {} ELSE {Head(queue[c])}, "signaled")
         /\ queue' = [queue EXCEPT ![c] = IF c = "shared" \/ @ = << >> THEN << >> ELSE Tail(@)]
    /\ todo' = Tail(todo)
    /\ mtx' = IF Len(todo) = 1 THEN NoThread ELSE t
    /\ UNCHANGED << at, why, timed, timers, state, held, pc, made, want >>

\* The last reader releases the waiters, and hands the mutex to a thread that
\* waits to upgrade.
unlock_shared(t) ==
    /\ Unlocks(t, "shared")
    /\ shared_count' = shared_count - 1
    /\ goto(t, "out")
    /\ \/ /\ shared_count > 1
          /\ UNCHANGED << condVars, exclusive, upgrade, exclusive_waiting_blocked, todo, held >>
       \/ /\ shared_count = 1
          /\ exclusive' = (exclusive \/ upgrade)
          /\ upgrade' = FALSE
          /\ exclusive_waiting_blocked' = (upgrade /\ exclusive_waiting_blocked)
          /\ release_waiters(t, IF upgrade THEN << "upgrade" >> ELSE << >>)
    /\ UNCHANGED want

unlock_upgrade(t) ==
    /\ Unlocks(t, "upgrade")
    /\ shared_count' = shared_count - 1
    /\ upgrade' = FALSE
    /\ goto(t, "out")
    /\ \/ /\ shared_count > 1
          /\ UNCHANGED << condVars, exclusive_waiting_blocked, todo, held >>
       \/ /\ shared_count = 1
          /\ exclusive_waiting_blocked' = FALSE
          /\ release_waiters(t, << >>)
    /\ UNCHANGED exclusive
    /\ UNCHANGED want

unlock(t) ==
    /\ Unlocks(t, "exclusive")
    /\ exclusive' = FALSE
    /\ exclusive_waiting_blocked' = FALSE
    /\ goto(t, "out")
    /\ release_waiters(t, << >>)
    /\ UNCHANGED << shared_count, upgrade >>
    /\ UNCHANGED want

\* unlock_and_lock_upgrade and unlock_and_lock_shared.
unlock_and_lock(t, h) ==
    /\ Ask(t, "exclusive")
    /\ exclusive' = FALSE
    /\ upgrade' = (upgrade \/ h = "upgrade")
    /\ shared_count' = shared_count + 1
    /\ exclusive_waiting_blocked' = FALSE
    /\ goto(t, h)
    /\ release_waiters(t, << >>)
    /\ UNCHANGED want

try_unlock_shared_and_lock(t) ==
    /\ Ask(t, "shared")
    /\ IF Open("upgrade") /\ shared_count = 1
         THEN shared_count' = 0 /\ exclusive' = TRUE /\ goto(t, "exclusive")
         ELSE UNCHANGED << shared_count, exclusive, pc >>
    /\ UNCHANGED << condVars, upgrade, exclusive_waiting_blocked, todo, held >>
    /\ UNCHANGED want

unlock_upgrade_and_lock_shared(t) ==
    /\ Ask(t, "upgrade")
    /\ upgrade' = FALSE
    /\ exclusive_waiting_blocked' = FALSE
    /\ goto(t, "shared")
    /\ release_waiters(t, << >>)
    /\ UNCHANGED << shared_count, exclusive >>
    /\ UNCHANGED want

Start(t) ==
    \/ \E p \in Modes : lock(t, p) \/ try_lock_fails(t, p)
    \/ unlock_upgrade_and_lock(t) \/ try_unlock_shared_and_lock(t)
    \/ unlock_and_lock(t, "upgrade") \/ unlock_and_lock(t, "shared")
    \/ unlock_upgrade_and_lock_shared(t)

Proceed(t) ==
    \/ \E p \in Modes : cv_wait(t, p) \/ cv_returns(t, p) \/ relock(t, p)
    \/ notify(t) \/ unlock_shared(t) \/ unlock_upgrade(t) \/ unlock(t)

Next ==
    \/ \E t \in Threads : Start(t) \/ Proceed(t)
    \/ Delivery /\ UNCHANGED objectVars

Spec == Init /\ [][Next]_sharedVars
-----------------------------------------------------------------------------
Holders(h) == {t \in Threads : pc[t] = h}
Upgrading == {t \in Threads : pc[t] \in {"waits", "relocks"} /\ want[t] = "upgrading"}
Queued(c) == {t \in Threads : \E p \in Modes : CondOf(p) = c /\ Waits_for(t, p) /\ mtx # t /\ registered[t]}

\* Every variable has its type, and every queued thread is a registered one.
TypeOK ==
    /\ shared_count \in 0..Cardinality(Threads)
    /\ {exclusive, upgrade, exclusive_waiting_blocked} \subseteq BOOLEAN
    /\ todo # << >> => mtx # NoThread
    /\ \A c \in CVs : InQueue(c) = Queued(c)
    /\ \A c \in CVs : held[c] # NoThread => pc[held[c]] = "relocks"

\* An exclusive owner is alone, at most one thread may upgrade, and shared_count
\* is the number of the others: also while the last reader has already handed the
\* mutex to a thread that waits to upgrade, and release_waiters has called others.
Exclusion ==
    /\ Cardinality(Holders("exclusive")) + Cardinality(Upgrading) +
         Cardinality(Holders("upgrade")) <= 1
    /\ Holders("exclusive") # {} => Holders("shared") = {} /\ exclusive
    /\ shared_count = Cardinality(Holders("shared")) + Cardinality(Holders("upgrade"))
    /\ exclusive => Holders("exclusive") \cup Upgrading # {}

\* The owner of state_change needs the spinlock of a condition variable whose holder
\* waits for state_change.
Jammed ==
    \E t \in Threads, c \in CVs :
        /\ mtx = t /\ held[c] # NoThread
        /\ IF todo # << >> THEN Head(todo) = c
           ELSE pc[t] = "waits" /\ CondOf(want[t]) = c

\* A thread that was notified by wait gets the mutex of its caller back: the lock
\* can be reacquired (hpx/lcos/local/condition_variable.hpp:60).
CanBeReacquired == ~Jammed

\* When nobody holds the mutex and every thread that asked for it is still in a
\* queue, there is no such thread: release_waiters forgets none of the three kinds.
FreeIsOffered ==
    mtx = NoThread /\ (\A t \in Threads : pc[t] = "out" \/ registered[t])
        => \A c \in CVs : queue[c] = << >>

\* The thread waits for a mutex that is never held for ever.
Entitled(t) == ~Jammed /\ pc[t] \in {"waits", "relocks"}
=============================================================================
