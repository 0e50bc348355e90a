---------------------------- MODULE ThreadState ----------------------------
(***************************************************************************)
(* The life of an HPX thread: the tagged state word of thread_data, the    *)
(* worker loop that executes pending threads, and set_thread_state, which  *)
(* everybody else uses to wake a suspended thread.                         *)
(*                                                                         *)
(* Sources: hpx/runtime/threads/thread_data.hpp,                           *)
(* detail/set_thread_state.hpp, detail/scheduling_loop.hpp,                *)
(* policies/thread_queue.hpp, src/runtime/threads/thread_helpers.cpp.      *)
(*                                                                         *)
(* One step is one access to shared state (an atomic load, a               *)
(* compare-exchange, a queue operation); what lies between two such        *)
(* accesses is local to its process.  A request is one set_thread_state    *)
(* call from its start to its end, including the helper thread             *)
(* (set_active_state) it hands over to while its target is active.         *)
(***************************************************************************)
EXTENDS Integers

CONSTANTS Threads,         \* thread_data objects
          Workers,         \* OS threads that run the scheduling loop
          Requests,        \* set_thread_state calls that may be in flight
          Yields,          \* states a thread yields with, besides suspended
          Strays,          \* wakers that take no registration: see below
          AbortSuspended,  \* whether abort_all_suspended_threads is called
          MaxTag,          \* a thread whose tag is higher only terminates
          MaxBirths,       \* how often a thread object is (re)used
          NoThread         \* nullptr

ASSUME ConstantsAssumption ==
    /\ Yields \subseteq {"pending", "pending_boost"}
    /\ Strays \subseteq {"timer", "interrupt"}
    /\ AbortSuspended \in BOOLEAN
    /\ MaxTag \in Nat
    /\ MaxBirths \in Nat
    /\ NoThread \notin Threads

VARIABLES
    \* thread_data and the queues
    word,              \* thread_data::current_state_
    queued,            \* how often a thread is in the work_items_ queues
    terminated_items,  \* how often it is in a terminated_items_ queue
    heap,              \* the recycled (or not yet allocated) objects
    births,            \* how often the object was bound to a function
    \* scheduling_loop
    wpc,               \* program counter of a worker
    thrd,              \* the thread it has in hand
    orig,              \* switch_status: the word it saw, then the word it set
    result,            \* the state the coroutine returned
    fork,              \* the thread id the coroutine returned
    next_thrd,         \* the thread to run next, before looking into a queue
    \* set_thread_state
    rpc,               \* program counter of a request
    target,            \* the thread whose state it is to change
    new_ex,            \* the new extended state
    seen,              \* the word it is about to exchange
    prev,              \* the active word its helper thread was created for
    \* the functions the threads execute
    at,                \* running, about to suspend (or suspended), or back
    timed,             \* whether the suspension has a deadline
    registered,        \* whether some LCO has the thread in its queue
    why,               \* the extended state the coroutine was resumed with
    timers             \* deadline timers that are armed for the thread

objectVars == << terminated_items, heap, births >>
workerVars == << wpc, thrd, orig, result, fork, next_thrd >>
requestVars == << rpc, target, new_ex, seen, prev >>
progVars == << at, timed, registered, why, timers >>
vars == << word, queued, objectVars, workerVars, requestVars, progVars >>

States == {"active", "pending", "pending_boost", "suspended", "terminated"}
Exs == {"signaled", "timeout", "abort"}
Words == [state : States, ex : Exs, tag : Nat]

Word(s, x, n) == [state |-> s, ex |-> x, tag |-> n]
NoWord == Word("pending", "signaled", 0)

(***************************************************************************)
(* The transformations of the state word.  The tag counts the changes of   *)
(* the state, not those of the extended state.                             *)
(***************************************************************************)
NextTag_only_new_phase(wd, s) == IF s = "active" THEN wd.tag + 1 ELSE wd.tag
NextTag(wd, s) == IF s # wd.state THEN wd.tag + 1 ELSE wd.tag

set_state_keeps_ex(wd, s, x) == Word(s, wd.ex, NextTag(wd, s))

\* set_state: whatever the word is now (the loop retries its exchange).
set_state(wd, s, x) == Word(s, x, NextTag(wd, s))

\* set_state_tagged: only if the word is still the one that was seen.
set_state_tagged(wd) == Word("active", wd.ex, wd.tag + 1)

\* restore_state as used by switch_status: the extended state is not compared.
restorable(wd, old) == wd.state = old.state /\ wd.tag = old.tag
restore_state(wd, s) == Word(s, wd.ex, NextTag(wd, s))

\* set_active_state gives up if the thread is active again in another phase.
ReactivatedSince_any_change(cur, old) == cur # old
ReactivatedSince(cur, old) == cur.state = old.state /\ cur # old

Init ==
    /\ word = [t \in Threads |-> Word("terminated", "signaled", 0)]
    /\ queued = [t \in Threads |-> 0]
    /\ terminated_items = [t \in Threads |-> 0]
    /\ heap = Threads
    /\ births = [t \in Threads |-> 0]
    /\ wpc = [w \in Workers |-> "idle"]
    /\ thrd = [w \in Workers |-> NoThread]
    /\ orig = [w \in Workers |-> NoWord]
    /\ result = [w \in Workers |-> "pending"]
    /\ fork = [w \in Workers |-> NoThread]
    /\ next_thrd = [w \in Workers |-> NoThread]
    /\ rpc = [r \in Requests |-> "idle"]
    /\ target = [r \in Requests |-> NoThread]
    /\ new_ex = [r \in Requests |-> "signaled"]
    /\ seen = [r \in Requests |-> NoWord]
    /\ prev = [r \in Requests |-> NoWord]
    /\ at = [t \in Threads |-> "run"]
    /\ timed = [t \in Threads |-> FALSE]
    /\ registered = [t \in Threads |-> FALSE]
    /\ why = [t \in Threads |-> "signaled"]
    /\ timers = [t \in Threads |-> 0]

-----------------------------------------------------------------------------
(***************************************************************************)
(* Creation and recycling of thread objects.  A timer armed for an earlier *)
(* life of the object holds the same thread id.                            *)
(***************************************************************************)
Rebind(t) ==
    /\ t \in heap
    /\ births[t] < MaxBirths
    /\ heap' = heap \ {t}
    /\ births' = [births EXCEPT ![t] = @ + 1]
    /\ word' = [word EXCEPT ![t] = Word("pending", "signaled", 0)]

create_thread(t) ==
    /\ Rebind(t)
    /\ queued' = [queued EXCEPT ![t] = @ + 1]
    /\ UNCHANGED << terminated_items, workerVars, requestVars, progVars >>

cleanup_terminated_unguarded(t) ==
    /\ word[t].state = "terminated"
    /\ terminated_items' = [terminated_items EXCEPT ![t] = @ - 1]
    /\ heap' = heap \cup {t}
    /\ UNCHANGED << word, queued, births, workerVars, requestVars, progVars >>

cleanup_terminated(t) ==
    /\ terminated_items[t] > 0
    /\ terminated_items' = [terminated_items EXCEPT ![t] = @ - 1]
    /\ heap' = heap \cup {t}
    /\ UNCHANGED << word, queued, births, workerVars, requestVars, progVars >>

-----------------------------------------------------------------------------
(***************************************************************************)
(* scheduling_loop, one worker.                                            *)
(***************************************************************************)
GoIdle(w) ==
    /\ wpc' = [wpc EXCEPT ![w] = "idle"]
    /\ thrd' = [thrd EXCEPT ![w] = NoThread]
    /\ orig' = [orig EXCEPT ![w] = NoWord]
    /\ result' = [result EXCEPT ![w] = "pending"]
    /\ fork' = [fork EXCEPT ![w] = NoThread]

\* The thread handed over by the last one executed ...
take_next_thrd(w, t) ==
    /\ wpc[w] = "idle"
    /\ next_thrd[w] = t
    /\ wpc' = [wpc EXCEPT ![w] = "fetched"]
    /\ thrd' = [thrd EXCEPT ![w] = t]
    /\ UNCHANGED << word, queued, objectVars, orig, result, fork, next_thrd, requestVars,
                    progVars >>

\* ... else one from a queue: any, as the queues are prioritised and stolen from.
get_next_thread(w, t) ==
    /\ wpc[w] = "idle"
    /\ next_thrd[w] = NoThread
    /\ queued[t] > 0
    /\ queued' = [queued EXCEPT ![t] = @ - 1]
    /\ wpc' = [wpc EXCEPT ![w] = "fetched"]
    /\ thrd' = [thrd EXCEPT ![w] = t]
    /\ UNCHANGED << word, objectVars, orig, result, fork, next_thrd, requestVars, progVars >>

\* What happens depends on the state found: only pending threads are executed.
FoundPending(w, t) ==
    /\ wpc[w] = "fetched" /\ thrd[w] = t
    /\ word[t].state = "pending"
    /\ wpc' = [wpc EXCEPT ![w] = "claim"]
    /\ orig' = [orig EXCEPT ![w] = word[t]]
    /\ UNCHANGED << word, queued, objectVars, thrd, result, fork, next_thrd, requestVars,
                    progVars >>

FoundActive(w, t) ==
    /\ wpc[w] = "fetched" /\ thrd[w] = t
    /\ word[t].state = "active"
    /\ queued' = [queued EXCEPT ![t] = @ + 1]
    /\ GoIdle(w)
    /\ UNCHANGED << word, objectVars, next_thrd, requestVars, progVars >>

FoundTerminated(w, t) ==
    /\ wpc[w] = "fetched" /\ thrd[w] = t
    /\ word[t].state = "terminated"
    /\ terminated_items' = [terminated_items EXCEPT ![t] = @ + 1]
    /\ GoIdle(w)
    /\ UNCHANGED << word, queued, heap, births, next_thrd, requestVars, progVars >>

FoundOther(w, t) ==
    /\ wpc[w] = "fetched" /\ thrd[w] = t
    /\ word[t].state \in {"suspended", "pending_boost"}
    /\ GoIdle(w)
    /\ UNCHANGED << word, queued, objectVars, next_thrd, requestVars, progVars >>

\* The constructor of switch_status: the exchange succeeds ...
Claim(w, t) ==
    /\ wpc[w] = "claim" /\ thrd[w] = t
    /\ word[t] = orig[w]
    /\ word' = [word EXCEPT ![t] = set_state_tagged(@)]
    /\ wpc' = [wpc EXCEPT ![w] = "enter"]
    /\ orig' = [orig EXCEPT ![w] = set_state_tagged(@)]
    /\ UNCHANGED << queued, objectVars, thrd, result, fork, next_thrd, requestVars, progVars >>

\* ... or the state has changed since it was examined, and the thread is dropped.
ClaimFails(w, t) ==
    /\ wpc[w] = "claim" /\ thrd[w] = t
    /\ word[t] # orig[w]
    /\ GoIdle(w)
    /\ UNCHANGED << word, queued, objectVars, next_thrd, requestVars, progVars >>

\* thread_data::operator(): the extended state is handed to the coroutine.
Enter(w, t) ==
    /\ wpc[w] = "enter" /\ thrd[w] = t
    /\ wpc' = [wpc EXCEPT ![w] = "run"]
    /\ word' = [word EXCEPT ![t] = Word(@.state, "signaled", @.tag)]
    /\ why' = [why EXCEPT ![t] = word[t].ex]
    /\ at' = [at EXCEPT ![t] = IF @ = "suspending" THEN "resumed" ELSE @]
    /\ UNCHANGED << queued, objectVars, thrd, orig, result, fork, next_thrd, requestVars,
                    timed, registered, timers >>

-----------------------------------------------------------------------------
(***************************************************************************)
(* The function of the thread that worker w executes: it may announce that *)
(* it is about to suspend (it puts itself into the queue of an LCO), and   *)
(* then must suspend; it may yield, fork a child it yields to, or end.     *)
(***************************************************************************)
Running(w, t) == wpc[w] = "run" /\ thrd[w] = t

BeginWait(w, t, deadline) ==
    /\ Running(w, t)
    /\ at[t] = "run"
    /\ word[t].tag < MaxTag
    /\ deadline => "timer" \in Strays
    /\ at' = [at EXCEPT ![t] = "suspending"]
    /\ timed' = [timed EXCEPT ![t] = deadline]
    /\ registered' = [registered EXCEPT ![t] = TRUE]
    /\ timers' = [timers EXCEPT ![t] = IF deadline THEN @ + 1 ELSE @]
    /\ UNCHANGED << word, queued, objectVars, workerVars, requestVars, why >>

\* Back from this_thread::suspend: a timer that has not expired is cancelled
\* (which has no effect if at_timer has not even started), and the thread
\* takes itself out of the queue it may still be in.
EndWait(w, t) ==
    /\ Running(w, t)
    /\ at[t] = "resumed"
    /\ at' = [at EXCEPT ![t] = "run"]
    /\ registered' = [registered EXCEPT ![t] = FALSE]
    /\ timed' = [timed EXCEPT ![t] = FALSE]
    /\ why' = [why EXCEPT ![t] = "signaled"]
    /\ \/ UNCHANGED timers
       \/ /\ timed[t] /\ why[t] # "timeout" /\ timers[t] > 0
          /\ timers' = [timers EXCEPT ![t] = @ - 1]
    /\ UNCHANGED << word, queued, objectVars, workerVars, requestVars >>

\* The coroutine returns the state it wants the thread to have next.
Return(w, t, s) ==
    /\ Running(w, t)
    /\ \/ s = "suspended" /\ at[t] = "suspending"
       \/ s = "terminated" /\ at[t] = "run"
       \/ s \in Yields /\ at[t] = "run" /\ word[t].tag < MaxTag
    /\ wpc' = [wpc EXCEPT ![w] = "store"]
    /\ result' = [result EXCEPT ![w] = s]
    /\ UNCHANGED << word, queued, objectVars, thrd, orig, fork, next_thrd, requestVars,
                    progVars >>

\* launch::fork: a child that is pending but in no queue, then yield_to.
Fork(w, t, u) ==
    /\ Running(w, t)
    /\ at[t] = "run"
    /\ word[t].tag < MaxTag
    /\ Rebind(u)
    /\ wpc' = [wpc EXCEPT ![w] = "store"]
    /\ result' = [result EXCEPT ![w] = "pending"]
    /\ fork' = [fork EXCEPT ![w] = u]
    /\ UNCHANGED << queued, terminated_items, thrd, orig, next_thrd, requestVars, progVars >>

-----------------------------------------------------------------------------
\* switch_status::store_state, and what the loop does with the new state.
StorePending(w, t) ==
    /\ wpc[w] = "store" /\ thrd[w] = t
    /\ restorable(word[t], orig[w])
    /\ result[w] \in {"pending", "pending_boost"}
    /\ word' = [word EXCEPT ![t] = restore_state(@, result[w])]
    /\ next_thrd' = [next_thrd EXCEPT ![w] = fork[w]]
    /\ fork' = [fork EXCEPT ![w] = NoThread]
    /\ wpc' = [wpc EXCEPT ![w] = IF result[w] = "pending" THEN "requeue" ELSE "boost"]
    /\ UNCHANGED << queued, objectVars, thrd, orig, result, requestVars, progVars >>

StoreSuspended(w, t) ==
    /\ wpc[w] = "store" /\ thrd[w] = t
    /\ restorable(word[t], orig[w])
    /\ result[w] = "suspended"
    /\ word' = [word EXCEPT ![t] = restore_state(@, "suspended")]
    /\ next_thrd' = [next_thrd EXCEPT ![w] = fork[w]]
    /\ GoIdle(w)
    /\ UNCHANGED << queued, objectVars, requestVars, progVars >>

StoreTerminated(w, t) ==
    /\ wpc[w] = "store" /\ thrd[w] = t
    /\ restorable(word[t], orig[w])
    /\ result[w] = "terminated"
    /\ word' = [word EXCEPT ![t] = restore_state(@, "terminated")]
    /\ next_thrd' = [next_thrd EXCEPT ![w] = fork[w]]
    /\ terminated_items' = [terminated_items EXCEPT ![t] = @ + 1]
    /\ GoIdle(w)
    /\ UNCHANGED << queued, heap, births, requestVars, progVars >>

\* Somebody else has changed the state: continue with whatever is queued.
StoreFails(w, t) ==
    /\ wpc[w] = "store" /\ thrd[w] = t
    /\ ~restorable(word[t], orig[w])
    /\ GoIdle(w)
    /\ UNCHANGED << word, queued, objectVars, next_thrd, requestVars, progVars >>

schedule_thread_last(w, t) ==
    /\ wpc[w] = "requeue" /\ thrd[w] = t
    /\ queued' = [queued EXCEPT ![t] = @ + 1]
    /\ GoIdle(w)
    /\ UNCHANGED << word, objectVars, next_thrd, requestVars, progVars >>

\* pending_boost is turned into pending by an unconditional set_state.
BoostToPending(w, t) ==
    /\ wpc[w] = "boost" /\ thrd[w] = t
    /\ word' = [word EXCEPT ![t] = set_state(@, "pending", @.ex)]
    /\ wpc' = [wpc EXCEPT ![w] = "boosted"]
    /\ UNCHANGED << queued, objectVars, thrd, orig, result, fork, next_thrd, requestVars,
                    progVars >>

BoostSchedule_and_run(w, t) ==
    /\ wpc[w] = "boosted" /\ thrd[w] = t
    /\ queued' = [queued EXCEPT ![t] = @ + 1]
    /\ next_thrd' = [next_thrd EXCEPT ![w] = t]
    /\ GoIdle(w)
    /\ UNCHANGED << word, objectVars, requestVars, progVars >>

\* Scheduled again (no thread yields to itself, so it is not the next one) ...
BoostSchedule(w, t) ==
    /\ wpc[w] = "boosted" /\ thrd[w] = t
    /\ next_thrd[w] # t
    /\ queued' = [queued EXCEPT ![t] = @ + 1]
    /\ GoIdle(w)
    /\ UNCHANGED << word, objectVars, next_thrd, requestVars, progVars >>

\* ... or run again at once, unless another thread is to run next.
BoostRunNext(w, t) ==
    /\ wpc[w] = "boosted" /\ thrd[w] = t
    /\ next_thrd[w] = NoThread
    /\ next_thrd' = [next_thrd EXCEPT ![w] = t]
    /\ GoIdle(w)
    /\ UNCHANGED << word, queued, objectVars, requestVars, progVars >>

-----------------------------------------------------------------------------
(***************************************************************************)
(* set_thread_state(t, pending, x): the ways it is called, and its steps.  *)
(***************************************************************************)
Call(r, t, x) ==
    /\ rpc[r] = "idle"
    /\ rpc' = [rpc EXCEPT ![r] = "load"]
    /\ target' = [target EXCEPT ![r] = t]
    /\ new_ex' = [new_ex EXCEPT ![r] = x]
    /\ UNCHANGED << word, queued, objectVars, workerVars, seen, prev >>

Finish(r) ==
    /\ rpc' = [rpc EXCEPT ![r] = "idle"]
    /\ target' = [target EXCEPT ![r] = NoThread]
    /\ new_ex' = [new_ex EXCEPT ![r] = "signaled"]
    /\ seen' = [seen EXCEPT ![r] = NoWord]
    /\ prev' = [prev EXCEPT ![r] = NoWord]

Notify_leaves_entry(r, t, x) ==
    /\ registered[t]
    /\ Call(r, t, x)
    /\ UNCHANGED progVars

\* A notification takes the thread out of the LCO's queue, then wakes it.
Notify(r, t, x) ==
    /\ registered[t]
    /\ registered' = [registered EXCEPT ![t] = FALSE]
    /\ Call(r, t, x)
    /\ UNCHANGED << at, timed, why, timers >>

\* A deadline timer (wake_timer_thread) knows the thread, not its registration.
TimerFires(r, t) ==
    /\ timers[t] > 0
    /\ timers' = [timers EXCEPT ![t] = @ - 1]
    /\ Call(r, t, "timeout")
    /\ UNCHANGED << at, timed, registered, why >>

\* interrupt_thread wakes a thread whatever it is doing.
interrupt_thread(r, t) ==
    /\ "interrupt" \in Strays
    /\ t \notin heap
    /\ Call(r, t, "abort")
    /\ UNCHANGED progVars

ToExchange(r, t) ==
    /\ rpc' = [rpc EXCEPT ![r] = "exchange"]
    /\ seen' = [seen EXCEPT ![r] = word[t]]
    /\ UNCHANGED << target, new_ex, prev >>

LoadUnchangeable_pending_only(r, t) ==
    /\ rpc[r] = "load" /\ target[r] = t
    /\ \/ word[t].state = "pending" /\ Finish(r)
       \/ word[t].state = "terminated" /\ ToExchange(r, t)
    /\ UNCHANGED << word, queued, objectVars, workerVars, progVars >>

\* set_thread_state loads the state.  A pending thread needs nothing, and a
\* terminated one cannot be changed.
LoadUnchangeable(r, t) ==
    /\ rpc[r] = "load" /\ target[r] = t
    /\ word[t].state \in {"pending", "terminated"}
    /\ Finish(r)
    /\ UNCHANGED << word, queued, objectVars, workerVars, progVars >>

LoadActive_no_case(r, t) ==
    /\ rpc[r] = "load" /\ target[r] = t
    /\ word[t].state = "active"
    /\ ToExchange(r, t)
    /\ UNCHANGED << word, queued, objectVars, workerVars, progVars >>
\* A thread that is active is left to a helper thread.
LoadActive(r, t) ==
    /\ rpc[r] = "load" /\ target[r] = t
    /\ word[t].state = "active"
    /\ rpc' = [rpc EXCEPT ![r] = "helper"]
    /\ prev' = [prev EXCEPT ![r] = word[t]]
    /\ UNCHANGED << target, new_ex, seen >>
    /\ UNCHANGED << word, queued, objectVars, workerVars, progVars >>

LoadInactive(r, t) ==
    /\ rpc[r] = "load" /\ target[r] = t
    /\ word[t].state \in {"suspended", "pending_boost"}
    /\ ToExchange(r, t)
    /\ UNCHANGED << word, queued, objectVars, workerVars, progVars >>

\* The helper thread: it gives up, or calls set_thread_state again.
set_active_state_gives_up(r, t) ==
    /\ rpc[r] = "helper" /\ target[r] = t
    /\ ReactivatedSince(word[t], prev[r])
    /\ Finish(r)
    /\ UNCHANGED << word, queued, objectVars, workerVars, progVars >>

set_active_state(r, t) ==
    /\ rpc[r] = "helper" /\ target[r] = t
    /\ ~ReactivatedSince(word[t], prev[r])
    /\ rpc' = [rpc EXCEPT ![r] = "load"]
    /\ UNCHANGED << word, queued, objectVars, workerVars, target, new_ex, seen, prev,
                    progVars >>

\* restore_state(new_state, new_state_ex, previous_state), retried on failure.
Exchange(r, t) ==
    /\ rpc[r] = "exchange" /\ target[r] = t
    /\ word[t] = seen[r]
    /\ word' = [word EXCEPT ![t] = set_state(@, "pending", new_ex[r])]
    /\ rpc' = [rpc EXCEPT ![r] = "schedule"]
    /\ UNCHANGED << queued, objectVars, workerVars, target, new_ex, seen, prev, progVars >>

ExchangeFails(r, t) ==
    /\ rpc[r] = "exchange" /\ target[r] = t
    /\ word[t] # seen[r]
    /\ rpc' = [rpc EXCEPT ![r] = "load"]
    /\ UNCHANGED << word, queued, objectVars, workerVars, target, new_ex, seen, prev,
                    progVars >>

schedule_thread(r, t) ==
    /\ rpc[r] = "schedule" /\ target[r] = t
    /\ queued' = [queued EXCEPT ![t] = @ + 1]
    /\ Finish(r)
    /\ UNCHANGED << word, objectVars, workerVars, progVars >>

\* thread_queue::abort_all_suspended_threads: tests, then sets, then schedules.
AbortTest(r, t) ==
    /\ AbortSuspended
    /\ rpc[r] = "idle"
    /\ word[t].state = "suspended"
    /\ rpc' = [rpc EXCEPT ![r] = "abort"]
    /\ target' = [target EXCEPT ![r] = t]
    /\ UNCHANGED << word, queued, objectVars, workerVars, new_ex, seen, prev, progVars >>

AbortSet(r, t) ==
    /\ rpc[r] = "abort" /\ target[r] = t
    /\ word' = [word EXCEPT ![t] = set_state(@, "pending", "abort")]
    /\ rpc' = [rpc EXCEPT ![r] = "schedule"]
    /\ UNCHANGED << queued, objectVars, workerVars, target, new_ex, seen, prev, progVars >>

-----------------------------------------------------------------------------
WorkerStep(w, t) ==
    \/ take_next_thrd(w, t) \/ get_next_thread(w, t)
    \/ FoundPending(w, t) \/ FoundActive(w, t) \/ FoundTerminated(w, t) \/ FoundOther(w, t)
    \/ Claim(w, t) \/ ClaimFails(w, t) \/ Enter(w, t)
    \/ EndWait(w, t)
    \/ \E s \in States : Return(w, t, s)
    \/ StorePending(w, t) \/ StoreSuspended(w, t) \/ StoreTerminated(w, t) \/ StoreFails(w, t)
    \/ schedule_thread_last(w, t)
    \/ BoostToPending(w, t) \/ BoostSchedule(w, t) \/ BoostRunNext(w, t)

\* What a thread does of its own free will.
ThreadStep(w, t) ==
    \/ \E deadline \in BOOLEAN : BeginWait(w, t, deadline)
    \/ \E u \in Threads : Fork(w, t, u)

RequestStep(r, t) ==
    \/ LoadUnchangeable(r, t) \/ LoadActive(r, t) \/ LoadInactive(r, t)
    \/ set_active_state_gives_up(r, t) \/ set_active_state(r, t)
    \/ Exchange(r, t) \/ ExchangeFails(r, t)
    \/ schedule_thread(r, t) \/ AbortSet(r, t)

NewRequest(r, t) ==
    \/ \E x \in {"signaled", "abort"} : Notify(r, t, x)
    \/ TimerFires(r, t) \/ interrupt_thread(r, t) \/ AbortTest(r, t)

\* Every object used up and nothing in flight: the workers only idle.
AllDone ==
    /\ \A t \in Threads : t \in heap /\ births[t] = MaxBirths /\ timers[t] = 0
    /\ \A w \in Workers : wpc[w] = "idle"
    /\ \A r \in Requests : rpc[r] = "idle"
    /\ UNCHANGED vars

Next ==
    \/ \E w \in Workers, t \in Threads : WorkerStep(w, t) \/ ThreadStep(w, t)
    \/ \E r \in Requests, t \in Threads : RequestStep(r, t) \/ NewRequest(r, t)
    \/ \E t \in Threads : create_thread(t) \/ cleanup_terminated(t)
    \/ AllDone

Fairness ==
    /\ \A w \in Workers : WF_vars(\E t \in Threads : WorkerStep(w, t))
    /\ \A r \in Requests : WF_vars(\E t \in Threads : RequestStep(r, t))

Spec == Init /\ [][Next]_vars
FairSpec == Spec /\ Fairness

-----------------------------------------------------------------------------
(***************************************************************************)
(* Properties.                                                             *)
(***************************************************************************)
WorkerPCs == {"idle", "fetched", "claim", "enter", "run", "store", "requeue",
              "boost", "boosted"}
RequestPCs == {"idle", "load", "helper", "exchange", "schedule", "abort"}

\* Every variable has its type.
TypeOK ==
    /\ word \in [Threads -> Words]
    /\ queued \in [Threads -> Nat]
    /\ terminated_items \in [Threads -> Nat]
    /\ heap \in SUBSET Threads
    /\ births \in [Threads -> 0..MaxBirths]
    /\ wpc \in [Workers -> WorkerPCs]
    /\ thrd \in [Workers -> Threads \cup {NoThread}]
    /\ orig \in [Workers -> Words]
    /\ result \in [Workers -> States]
    /\ fork \in [Workers -> Threads \cup {NoThread}]
    /\ next_thrd \in [Workers -> Threads \cup {NoThread}]
    /\ rpc \in [Requests -> RequestPCs]
    /\ target \in [Requests -> Threads \cup {NoThread}]
    /\ new_ex \in [Requests -> Exs]
    /\ seen \in [Requests -> Words]
    /\ prev \in [Requests -> Words]
    /\ at \in [Threads -> {"run", "suspending", "resumed"}]
    /\ timed \in [Threads -> BOOLEAN]
    /\ registered \in [Threads -> BOOLEAN]
    /\ why \in [Threads -> Exs]
    /\ timers \in [Threads -> Nat]

Executing(w, t) == thrd[w] = t /\ wpc[w] \in {"enter", "run", "store"}

\* No two workers ever execute the same thread: what the exchange to active in
\* switch_status, and the places that set the state otherwise, must guarantee.
ExecutedOnce ==
    \A t \in Threads : \A v, w \in Workers :
        Executing(v, t) /\ Executing(w, t) => v = w

\* Where a thread that can be executed is kept: in a queue, with the worker that
\* took it out or will put it back, with a worker that runs it next, or with the
\* set_thread_state call that has made it pending.
Carries(w, t) ==
    /\ thrd[w] = t
    /\ wpc[w] \in {"fetched", "claim", "requeue", "boosted"}
KeepsNext(w, t) ==
    \/ fork[w] = t
    \/ next_thrd[w] = t /\ wpc[w] \in {"idle", "requeue", "boost", "boosted"}
Places(t) ==
    {<<"queue", i>> : i \in 1..queued[t]}
      \cup {<<"worker", w>> : w \in {v \in Workers : Carries(v, t)}}
      \cup {<<"next", w>> : w \in {v \in Workers : KeepsNext(v, t)}}
      \cup {<<"request", r>> : r \in {q \in Requests :
              rpc[q] = "schedule" /\ target[q] = t}}

\* A pending thread is kept in exactly one place, so it is neither lost by the
\* scheduler nor run twice, and no thread in another state is kept anywhere.
HeldOnce ==
    \A t \in Threads :
        IF word[t].state = "pending" THEN \E p \in Places(t) : Places(t) = {p} ELSE Places(t) = {}

\* A thread whose registration was taken by a notifier does not stay suspended:
\* the set_thread_state call meant for it, or its helper, is still in flight.
NoLostWakeup ==
    \A t \in Threads :
        (word[t].state = "suspended" /\ ~registered[t]) =>
            \E r \in Requests : target[r] = t /\ rpc[r] # "idle"

\* An untimed suspension only ends because somebody took the registration; the
\* waits that do not test their condition again rely on it.
NoSpuriousWake ==
    \A t \in Threads :
        at[t] = "resumed" /\ ~timed[t] => ~registered[t]

\* A thread object is handed to terminated_items_ once per life, and is not
\* recycled while the scheduler still holds it.
DestroyedOnce ==
    \A t \in Threads :
        /\ terminated_items[t] <= 1
        /\ t \in heap \/ terminated_items[t] > 0 =>
             /\ queued[t] = 0
             /\ \A w \in Workers : ~Carries(w, t) /\ ~Executing(w, t)

\* What the comment in set_active_state says of the helper: it changes the state
\* only if the thread has not been suspended and made active again since.
HelperOfThisPhase ==
    \A r \in Requests :
        rpc[r] = "exchange" /\ prev[r].state = "active" =>
            seen[r].tag <= prev[r].tag + 1

\* Within one life of a thread object every change of the state, by whoever makes
\* it, takes the next tag and nothing else moves the tag: this is what the
\* compare-exchanges on the whole word rely on to see that a state was left.
StateChangesAreTagged ==
    [][\A t \in Threads : births'[t] = births[t] =>
         word'[t].tag = word[t].tag + (IF word'[t].state = word[t].state THEN 0 ELSE 1)]_vars
=============================================================================
