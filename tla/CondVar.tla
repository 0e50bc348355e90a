------------------------------ MODULE CondVar ------------------------------
(***************************************************************************)
(* The operations of lcos::local::detail::condition_variable, for the      *)
(* objects that own some.  They run under the spinlock of the owner.  A    *)
(* critical section that starts a call is one step, as is one that ends in *)
(* a wait; a thread that comes back from wait has taken the spinlock, and  *)
(* goes on with its call in a later step.  The set_thread_state calls of a *)
(* notification are under way in the sense of Waits: notify_one makes its  *)
(* call after it released the spinlock, and the calls of notify_all may    *)
(* leave helper threads behind.                                            *)
(***************************************************************************)
EXTENDS Waits, Sequences

CONSTANTS Conds,    \* the condition variables of the owner
          NoThread

VARIABLES queue,    \* condition_variable::queue_
          mtx       \* the thread that came back from wait with the spinlock

condVars == << waitVars, queue, mtx >>

InQueue(c) == {queue[c][i] : i \in 1..Len(queue[c])}

InitCondVar ==
    /\ queue = [c \in Conds |-> << >>]
    /\ mtx = NoThread

\* The thread starts a call and finds the spinlock free, or is back from wait.
Calls(t) == at[t] = "run" /\ mtx = NoThread
Back(t) == mtx = t

\* wait and wait_until: push_back, unlock, suspend.
wait(c, t, deadline) ==
    /\ Suspend(t, deadline)
    /\ queue' = [queue EXCEPT ![c] = Append(@, t)]
    /\ mtx' = NoThread

leave_keeps_entry(t) ==
    /\ mtx = NoThread
    /\ Resume(t)
    /\ mtx' = t
    /\ UNCHANGED queue

\* The rest of wait: reset_queue_entry erases an entry that is still valid from
\* the queue that it is in.
leave(t) ==
    /\ mtx = NoThread
    /\ Resume(t)
    /\ mtx' = t
    /\ queue' = [c \in Conds |-> SelectSeq(queue[c], LAMBDA u : u # t)]

\* What wait returns; an entry that was not taken out means a timeout.
reason(t) == IF registered[t] THEN "timeout" ELSE why[t]

notify_one(c) ==
    /\ Notify(IF queue[c] = << >> THEN {} ELSE {Head(queue[c])}, "signaled")
    /\ queue' = [queue EXCEPT ![c] = IF @ = << >> THEN @ ELSE Tail(@)]
    /\ mtx' = NoThread
    /\ UNCHANGED << at, why, timed, timers >>

notify_all(c) ==
    /\ Notify(InQueue(c), "signaled")
    /\ queue' = [queue EXCEPT ![c] = << >>]
    /\ mtx' = NoThread
    /\ UNCHANGED << at, why, timed, timers >>

\* A round of abort_all: the next entry of the local queue, which is filled from
\* queue_ when it is empty; it unlocks to wake the thread.
abort_next(c, local) ==
    LET q == IF queue[local] # << >> THEN queue[local] ELSE queue[c]
    IN  /\ q # << >>
        /\ Notify({Head(q)}, "abort")
        /\ queue' = [queue EXCEPT ![c] = IF queue[local] # << >> THEN @ ELSE << >>,
                                  ![local] = Tail(q)]
        /\ mtx' = NoThread
        /\ UNCHANGED << at, why, timed, timers >>

\* The call ends with nothing but the release of the spinlock.
release == mtx' = NoThread /\ UNCHANGED << waitVars, queue >>
=============================================================================
