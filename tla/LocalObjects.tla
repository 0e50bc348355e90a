---------------------------- MODULE LocalObjects ----------------------------
(***************************************************************************)
(* The synchronisation objects that are a counter or a flag next to a      *)
(* condition variable, over one and the same layer of waits: three threads *)
(* share an object, and what they find when they wait there includes the   *)
(* timers of their waits elsewhere.  A behaviour is about one object.      *)
(***************************************************************************)
EXTENDS CondVar

CONSTANTS Objects,                  \* the kinds of objects considered
          Strays, MaxCalls,         \* see the modules of the objects
          Untimed, Count, Resetters, MinInitial, MaxInitial, Counts,
          max_difference, Limits, FutureCalls, Converters

ASSUME LocalAssumption ==
    /\ Objects \subseteq {"mutex", "latch", "event", "semaphore", "sliding", "future", "shared_mutex"}
    /\ {MaxCalls, FutureCalls, Count, MinInitial, MaxInitial} \subseteq Nat
    /\ Counts \subseteq Nat \ {0}
    /\ max_difference \in Int /\ Limits \subseteq Int
    /\ Strays \cup Untimed \cup Resetters \cup Converters \subseteq Threads
    /\ Conds = {"cond", "shared", "exclusive", "upgrade"} \cup Threads /\ NoThread \notin Threads

VARIABLES object,                               \* the object of this behaviour
          pc, made,                             \* of all objects
          owner_id, absorbed,                   \* Mutex
          counter,                              \* Latch
          event,                                \* Event
          value, count, start, given, taken,    \* CountingSemaphore
          lower_limit, upper,                   \* SlidingSemaphore
          left,                                 \* both semaphores
          deferred, started, runs, after,       \* FutureData
          state, on_completed, attached, running, ran,
          shared_count, exclusive, upgrade,     \* SharedMutex
          exclusive_waiting_blocked, todo, held, want

mutexOwn == << owner_id, absorbed >>
creditOwn == << value, count, start, given, taken >>
slidingOwn == << lower_limit, upper >>
simpleOwn == << mutexOwn, counter, event, creditOwn, slidingOwn, left >>
futureOwn == << deferred, started, runs, after, state, on_completed, attached, running, ran >>
sharedOwn == << shared_count, exclusive, upgrade, exclusive_waiting_blocked, todo, held, want >>
objectVars == << queue, mtx, pc, made, simpleOwn, futureOwn, sharedOwn >>
vars == << object, waitVars, objectVars >>

M == INSTANCE Mutex
L == INSTANCE Latch
E == INSTANCE Event
C == INSTANCE CountingSemaphore
S == INSTANCE SlidingSemaphore
F == INSTANCE FutureData WITH MaxCalls <- FutureCalls
R == INSTANCE SharedMutex

Init ==
    /\ object \in Objects
    /\ M!Init /\ L!Init /\ E!Init /\ C!Init /\ S!Init /\ F!Init /\ R!Init
    /\ object # "semaphore" => start = 0
    /\ object # "future" => ~deferred

Simple(x) == object = x /\ UNCHANGED << object, futureOwn, sharedOwn >>
MutexOnly == Simple("mutex") /\ UNCHANGED << counter, event, creditOwn, slidingOwn, left >>
LatchOnly == Simple("latch") /\ UNCHANGED << mutexOwn, event, creditOwn, slidingOwn, left >>
EventOnly == Simple("event") /\ UNCHANGED << mutexOwn, counter, creditOwn, slidingOwn, left >>
CreditsOnly == Simple("semaphore") /\ UNCHANGED << mutexOwn, counter, event, slidingOwn >>
SlidingOnly == Simple("sliding") /\ UNCHANGED << mutexOwn, counter, event, creditOwn >>
FutureOnly == object = "future" /\ UNCHANGED << object, simpleOwn, sharedOwn >>
SharedOnly == object = "shared_mutex" /\ UNCHANGED << object, simpleOwn, futureOwn >>

Start(t) ==
    \/ MutexOnly /\ M!Start(t)
    \/ LatchOnly /\ L!Start(t)
    \/ EventOnly /\ E!Start(t)
    \/ CreditsOnly /\ C!Start(t)
    \/ SlidingOnly /\ S!Start(t)
    \/ FutureOnly /\ F!Start(t)
    \/ SharedOnly /\ R!Start(t)

Proceed(t) ==
    \/ MutexOnly /\ M!Proceed(t)
    \/ LatchOnly /\ L!Proceed(t)
    \/ EventOnly /\ E!Proceed(t)
    \/ CreditsOnly /\ C!Proceed(t)
    \/ SlidingOnly /\ S!Proceed(t)
    \/ FutureOnly /\ F!Proceed(t)
    \/ SharedOnly /\ R!Proceed(t)

Next ==
    \/ \E t \in Threads : Start(t) \/ Proceed(t)
    \/ Delivery /\ UNCHANGED << object, objectVars >>

\* A call that has begun goes on, and a call of set_thread_state arrives.
Fairness == \A t \in Threads :
    /\ WF_vars(Proceed(t))
    /\ WF_vars((\E x \in Reasons : Wake(t, x)) /\ UNCHANGED << object, objectVars >>)

Spec == Init /\ [][Next]_vars
FairSpec == Spec /\ Fairness
-----------------------------------------------------------------------------
\* Every variable has its type, and the valid queue entries are those in a queue.
TypeOK ==
    /\ object = "mutex" => M!TypeOK
    /\ object = "latch" => L!TypeOK
    /\ object = "event" => E!TypeOK
    /\ object = "semaphore" => C!TypeOK
    /\ object = "sliding" => S!TypeOK
    /\ object = "future" => F!TypeOK
    /\ object = "shared_mutex" => R!TypeOK

\* Nobody holds what an object has not given it: lock and the try functions only return
\* to the one thread that owner_id_ names, no wait takes credits that are not there,
\* no thread gets past a sliding semaphore more than max_difference ahead, and an
\* exclusive owner of a shared_mutex is alone while upgrades are handed over.
HeldByRight ==
    CASE object = "mutex" -> M!OnlyOwnerHolds
      [] object = "semaphore" -> C!NeverOverdrawn
      [] object = "sliding" -> S!WindowIsKept
      [] object = "shared_mutex" -> R!Exclusion
      [] OTHER -> TRUE

\* What is free is offered: no thread is queued at an object that would let it go unless
\* a notification is on its way to one of them, though unlock may have called a thread that
\* reports a timeout, set stores the flag without the spinlock, signal and set_value
\* give up the spinlock for each thread they wake, and release_waiters has three queues.
FreeIsOffered ==
    CASE object = "mutex" -> M!FreeMutexIsOffered
      [] object = "event" -> E!NoMissedEvent
      [] object = "semaphore" -> C!CreditsAreOffered
      [] object = "sliding" -> S!SignalReachesEligible
      [] object = "future" -> F!NoWaiterLeftBehind
      [] object = "shared_mutex" -> R!FreeIsOffered
      [] OTHER -> TRUE

\* What a future is given to run is run once: the callbacks attached before it was ready in
\* the order they were attached, none of them left in a ready future, and the function
\* of a deferred task before its result is there.
RunOnce == object = "future" => F!CallbacksInOrder /\ F!DeferredRunsOnce

\* A result, once there, stays, and nobody returns before it is: of two threads that find a
\* promise unset only one stores its value, and future::wait and latch::wait return early
\* only to a thread that the timer of an earlier wait woke, since they do not test again.
ReturnsWhenOpen ==
    [][CASE object = "latch" -> L!OpensAtZero
         [] object = "future" -> F!ResultIsStable /\ F!ReadyIsPostcondition
         [] OTHER -> TRUE]_vars

\* Once the destructor of a latch returned, no thread is left inside its wait.
NobodyLeftInside == object = "latch" => L!NobodyLeftInside

\* A thread notified by condition_variable::wait can reacquire its caller's lock
\* (hpx/lcos/local/condition_variable.hpp:60).
CanBeReacquired == object = "shared_mutex" => R!CanBeReacquired

\* The object lets the thread go.
Entitled(t) ==
    CASE object = "mutex" -> M!Entitled(t)
      [] object = "latch" -> L!Entitled(t)
      [] object = "event" -> E!Entitled(t)
      [] object = "semaphore" -> C!Entitled(t)
      [] object = "sliding" -> S!Entitled(t)
      [] object = "future" -> F!Entitled(t)
      [] object = "shared_mutex" -> R!Entitled(t)

\* No thread waits for ever at an object that would let it go: the notifications of
\* unlock, count_down, set and signal reach every thread they concern, whoever
\* barges in, times out, is aborted or woken by mistake meanwhile.
NobodyIsForgotten == \A t \in Threads : []<>~Entitled(t)
=============================================================================
