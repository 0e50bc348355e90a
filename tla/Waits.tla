------------------------------- MODULE Waits -------------------------------
(***************************************************************************)
(* What this_thread::suspend and set_thread_state promise to the           *)
(* synchronisation objects built on them.  A thread that suspends is       *)
(* registered with one object (its queue_entry is valid) and waits until   *)
(* some call of set_thread_state reaches it.  A call may be under way for  *)
(* any time; it may find its thread doing something else, and then is      *)
(* dropped or still there when the thread waits again.  ThreadState is     *)
(* shown to implement this specification.                                  *)
(***************************************************************************)
EXTENDS Integers

CONSTANT Threads

VARIABLES
    at,          \* running, waiting, or woken and about to return from suspend
    why,         \* what suspend is about to return
    registered,  \* queue_entry::id_ is valid: the thread is in a queue
    timed,       \* whether the wait has a deadline
    timers,      \* deadline timers that are armed for the thread
    calls        \* set_thread_state calls under way, by thread and reason

waitVars == << at, why, registered, timed, timers, calls >>

Reasons == {"signaled", "timeout", "abort"}

\* armed[t] timers of earlier waits of t have not been cancelled in time.
InitWaits(armed) ==
    /\ at = [t \in Threads |-> "run"]
    /\ why = [t \in Threads |-> "signaled"]
    /\ registered = [t \in Threads |-> FALSE]
    /\ timed = [t \in Threads |-> FALSE]
    /\ timers = armed
    /\ calls = [p \in Threads \X Reasons |-> 0]

-----------------------------------------------------------------------------
\* suspend, from the moment the thread entered the queue of the object.
Suspend(t, deadline) ==
    /\ at[t] = "run"
    /\ at' = [at EXCEPT ![t] = "waiting"]
    /\ registered' = [registered EXCEPT ![t] = TRUE]
    /\ timed' = [timed EXCEPT ![t] = deadline]
    /\ timers' = [timers EXCEPT ![t] = IF deadline THEN @ + 1 ELSE @]
    /\ UNCHANGED << why, calls >>

\* The threads in S are taken out of their queue and woken.
Notify(S, x) ==
    /\ registered' = [t \in Threads |-> registered[t] /\ t \notin S]
    /\ calls' = [p \in Threads \X Reasons |->
                   IF p[1] \in S /\ p[2] = x THEN calls[p] + 1 ELSE calls[p]]

Owed(t) == at[t] = "waiting" /\ ~registered[t]

\* A call finds its thread suspended.
Wake(t, x) ==
    /\ at[t] = "waiting"
    /\ calls[<<t, x>>] > 0
    /\ at' = [at EXCEPT ![t] = "woken"]
    /\ why' = [why EXCEPT ![t] = x]
    /\ calls' = [calls EXCEPT ![<<t, x>>] = @ - 1]
    /\ UNCHANGED << registered, timed, timers >>

Drop_any(t, x) ==
    /\ calls[<<t, x>>] > 0
    /\ calls' = [calls EXCEPT ![<<t, x>>] = @ - 1]
    /\ UNCHANGED << at, why, registered, timed, timers >>

\* A call finds its thread not suspended, or in another phase: it has no effect.
\* The last call is not dropped if a waiting thread is owed one.
Drop(t, x) ==
    /\ calls[<<t, x>>] > 0
    /\ Owed(t) => \E y \in Reasons : calls[<<t, y>>] > (IF x = y THEN 1 ELSE 0)
    /\ calls' = [calls EXCEPT ![<<t, x>>] = @ - 1]
    /\ UNCHANGED << at, why, registered, timed, timers >>

TimerFires(t) ==
    /\ timers[t] > 0
    /\ timers' = [timers EXCEPT ![t] = @ - 1]
    /\ calls' = [calls EXCEPT ![<<t, "timeout">>] = @ + 1]
    /\ UNCHANGED << at, why, registered, timed >>

\* interrupt_thread.
Interrupt(t) ==
    /\ calls' = [calls EXCEPT ![<<t, "abort">>] = @ + 1]
    /\ UNCHANGED << at, why, registered, timed, timers >>

\* The thread is back.  If it still was in the queue it takes itself out; a
\* timer that has not expired is cancelled, if the cancellation comes in time.
Resume(t) ==
    /\ at[t] = "woken"
    /\ at' = [at EXCEPT ![t] = "run"]
    /\ why' = [why EXCEPT ![t] = "signaled"]
    /\ registered' = [registered EXCEPT ![t] = FALSE]
    /\ timed' = [timed EXCEPT ![t] = FALSE]
    /\ \/ UNCHANGED timers
       \/ /\ timed[t] /\ why[t] # "timeout" /\ timers[t] > 0
          /\ timers' = [timers EXCEPT ![t] = @ - 1]
    /\ UNCHANGED calls

\* What happens to waiting threads without their, or their objects', doing.
Delivery ==
    \E t \in Threads : TimerFires(t) \/ \E x \in Reasons : Wake(t, x) \/ Drop(t, x)

NextWaits ==
    \/ \E t \in Threads, deadline \in BOOLEAN : Suspend(t, deadline)
    \/ \E t \in Threads, x \in Reasons :
         registered[t] /\ Notify({t}, x) /\ UNCHANGED << at, why, timed, timers >>
    \/ \E t \in Threads : Interrupt(t) \/ Resume(t)
    \/ Delivery

\* Workers, and so the calls under way and the threads they woke, make progress;
\* time need not.
FairWaits == \A t \in Threads :
    WF_waitVars(\E x \in Reasons : Wake(t, x)) /\ WF_waitVars(Resume(t))

WaitsSpec == InitWaits([t \in Threads |-> 0]) /\ [][NextWaits]_waitVars
FairWaitsSpec == WaitsSpec /\ FairWaits
=============================================================================
