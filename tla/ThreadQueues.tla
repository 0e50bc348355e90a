---------------------------- MODULE ThreadQueues ----------------------------
(***************************************************************************)
(* The queues of the scheduler and the way its OS threads stop             *)
(* (hpx/runtime/threads/policies/thread_queue.hpp, local_queue_scheduler   *)
(* and static_queue_scheduler, the idle part of detail/scheduling_loop).   *)
(* A task is staged, converted into a thread of the converting queue,      *)
(* scheduled, run, put on the list of terminated threads of its queue and  *)
(* erased from the map.  The queues are counted, not listed: tasks and     *)
(* threads only differ in the queue they belong to.  The counters that     *)
(* lag behind their list, new_tasks_count_ and terminated_items_count_,    *)
(* are kept apart from it.                                                 *)
(***************************************************************************)
EXTENDS Integers, FiniteSetsExt

CONSTANTS Q,               \* the number of queues and of OS threads
          MaxCreated,      \* the tasks and threads ever created
          MaxTerminated,   \* HPX_MAX_TERMINATED_THREADS
          MinSteal,        \* min_tasks_to_steal_staged
          Schedulers       \* "local" steals, "static" does not

VARIABLES scheduler,
          delay_exit,       \* a mode: sweep twice before the exit
          new_tasks, new_tasks_count,
          work_items,
          thread_map,
          terminated_items, terminated_items_count,
          mtx,              \* who holds a queue's mutex, 0 for nobody
          created,
          running,          \* what an OS thread has read of its own state
          pc, at,           \* where an OS thread is, and which queue it looks at
          home,             \* the queue of the thread it runs
          added, result, sweep

taskVars == << new_tasks, new_tasks_count >>
threadVars == << work_items, thread_map >>
deadVars == << terminated_items, terminated_items_count >>
modeVars == << scheduler, delay_exit >>
queueVars == << modeVars, taskVars, threadVars, deadVars, mtx, created, running, pc, at,
                home, added, result, sweep >>

Queues == 1..Q
Total(f) == MapThenSumSet(LAMBDA q : f[q], Queues)

Init ==
    /\ scheduler \in Schedulers /\ delay_exit \in BOOLEAN
    /\ new_tasks \in {f \in [Queues -> 0..1] : Total(f) > 0}
    /\ new_tasks_count = new_tasks
    /\ created = Total(new_tasks)
    /\ work_items = [q \in Queues |-> 0] /\ thread_map = [q \in Queues |-> 0]
    /\ terminated_items = [q \in Queues |-> 0]
    /\ terminated_items_count = [q \in Queues |-> 0]
    /\ mtx = [q \in Queues |-> 0]
    /\ running = [w \in Queues |-> TRUE]
    /\ pc = [w \in Queues |-> "loop"] /\ at = [w \in Queues |-> w]
    /\ home = [w \in Queues |-> w]
    /\ added = [w \in Queues |-> FALSE] /\ result = [w \in Queues |-> FALSE]
    /\ sweep = [w \in Queues |-> 0]

Add(f, q, n) == [f EXCEPT ![q] = @ + n]
GoTo(w, place) == pc' = [pc EXCEPT ![w] = place]
Look(w, q) == at' = [at EXCEPT ![w] = q]

-----------------------------------------------------------------------------
(***************************************************************************)
(* get_next_thread, and the thread it returns: it creates tasks and        *)
(* threads on any queue, and ends.                                         *)
(***************************************************************************)
loopRest == << modeVars, taskVars, thread_map, deadVars, mtx, created, added >>

\* The state is set to stopping before this round of the loop.
stop(w) ==
    /\ pc[w] = "loop" /\ running[w]
    /\ running' = [running EXCEPT ![w] = FALSE]
    /\ UNCHANGED << loopRest, work_items, pc, at, home, result, sweep >>

get_next_thread(w, q) ==
    /\ pc[w] = "loop"
    /\ work_items[q] > 0
    /\ q # w => scheduler = "local" /\ work_items[w] = 0 /\ new_tasks_count[w] = 0
    /\ work_items' = Add(work_items, q, -1)
    /\ home' = [home EXCEPT ![w] = q]
    /\ GoTo(w, "run")
    /\ UNCHANGED << loopRest, running, at, result, sweep >>

no_next_thread(w) ==
    /\ pc[w] = "loop"
    /\ work_items[w] = 0
    /\ scheduler = "static" \/ new_tasks_count[w] # 0 \/ \A q \in Queues : work_items[q] = 0
    /\ GoTo(w, "look") /\ Look(w, w)
    /\ result' = [result EXCEPT ![w] = TRUE]
    /\ UNCHANGED << loopRest, work_items, running, home, sweep >>

runRest == << modeVars, running, home, added, result >>

\* create_thread: count the task, then push it ...
create_staged(w, q) ==
    /\ pc[w] = "run" /\ created < MaxCreated
    /\ created' = created + 1
    /\ new_tasks_count' = Add(new_tasks_count, q, 1)
    /\ GoTo(w, "push") /\ Look(w, q)
    /\ UNCHANGED << runRest, new_tasks, threadVars, deadVars, mtx, sweep >>

push_staged(w) ==
    /\ pc[w] = "push"
    /\ new_tasks' = Add(new_tasks, at[w], 1)
    /\ GoTo(w, "run") /\ Look(w, w)
    /\ UNCHANGED << runRest, new_tasks_count, threadVars, deadVars, mtx, created, sweep >>

\* ... or, with run_now, make the thread at once.
create_now(w, q) ==
    /\ pc[w] = "run" /\ created < MaxCreated
    /\ mtx[q] = 0
    /\ created' = created + 1
    /\ thread_map' = Add(thread_map, q, 1) /\ work_items' = Add(work_items, q, 1)
    /\ UNCHANGED << runRest, taskVars, deadVars, mtx, pc, at, sweep >>

\* destroy_thread: push, count, and clean up when there are too many.
destroy_thread(w) ==
    /\ pc[w] = "run"
    /\ terminated_items' = Add(terminated_items, home[w], 1)
    /\ GoTo(w, "count")
    /\ UNCHANGED << runRest, taskVars, threadVars, terminated_items_count, mtx, created, at, sweep >>

count_destroyed(w) ==
    /\ pc[w] = "count"
    /\ terminated_items_count' = Add(terminated_items_count, home[w], 1)
    /\ GoTo(w, IF terminated_items_count'[home[w]] > MaxTerminated THEN "sweep" ELSE "loop")
    /\ Look(w, IF terminated_items_count'[home[w]] > MaxTerminated THEN home[w] ELSE w)
    /\ home' = [home EXCEPT ![w] = w]
    /\ UNCHANGED << modeVars, running, added, result, taskVars, threadVars, terminated_items,
                    mtx, created, sweep >>

-----------------------------------------------------------------------------
(***************************************************************************)
(* wait_or_add_new: from the own queue, then from the others, while        *)
(* nothing was added.                                                      *)
(***************************************************************************)
Succ(q) == (q % Q) + 1

\* Mutant: the other queues are not looked at.
Continue_own(w, r) ==
    LET ok == result[w] /\ r
    IN /\ result' = [result EXCEPT ![w] = ok]
       /\ GoTo(w, IF ok THEN "sweep" ELSE "loop")
       /\ Look(w, IF ok THEN 1 ELSE w)
       /\ sweep' = [sweep EXCEPT ![w] = IF ok THEN 1 ELSE 0]

\* What is left to do when this queue gave nothing, and said r.
Continue(w, r) ==
    LET ok == result[w] /\ r
        last == scheduler = "static" \/ Succ(at[w]) = w
    IN /\ result' = [result EXCEPT ![w] = ok]
       /\ GoTo(w, CASE ~last -> "look" [] last /\ ok -> "sweep" [] OTHER -> "loop")
       /\ Look(w, CASE ~last -> Succ(at[w]) [] last /\ ok -> 1 [] OTHER -> w)
       /\ sweep' = [sweep EXCEPT ![w] = IF last /\ ok THEN 1 ELSE 0]

waitRest == << modeVars, created, running, home >>

\* Not worth stealing: only while running.
FewStaged(w) ==
    running[w] /\ new_tasks_count[at[w]] < (IF at[w] = w THEN 1 ELSE MinSteal)

give_up(w) ==
    /\ pc[w] = "look"
    /\ work_items[w] # 0 \/ FewStaged(w) \/ mtx[w] # 0
    /\ Continue(w, FALSE)
    /\ UNCHANGED << waitRest, taskVars, threadVars, deadVars, mtx, added >>

try_lock(w) ==
    /\ pc[w] = "look"
    /\ work_items[w] = 0 /\ ~FewStaged(w) /\ mtx[w] = 0
    /\ mtx' = [mtx EXCEPT ![w] = w]
    /\ GoTo(w, "add")
    /\ UNCHANGED << waitRest, taskVars, threadVars, deadVars, at, added, result, sweep >>

\* add_new: a task is taken off, and the mutex released while its thread is allocated.
take_staged(w) ==
    /\ pc[w] = "add"
    /\ new_tasks[at[w]] > 0
    /\ new_tasks' = Add(new_tasks, at[w], -1)
    /\ new_tasks_count' = Add(new_tasks_count, at[w], -1)
    /\ mtx' = [mtx EXCEPT ![w] = 0]
    /\ GoTo(w, "insert")
    /\ UNCHANGED << waitRest, threadVars, deadVars, at, added, result, sweep >>

insert(w) ==
    /\ pc[w] = "insert"
    /\ mtx[w] = 0
    /\ mtx' = [mtx EXCEPT ![w] = w]
    /\ thread_map' = Add(thread_map, w, 1) /\ work_items' = Add(work_items, w, 1)
    /\ added' = [added EXCEPT ![w] = TRUE]
    /\ GoTo(w, "add")
    /\ UNCHANGED << waitRest, taskVars, deadVars, at, result, sweep >>

\* cleanup_terminated_locked_helper: erase what is on the list.
Erase(q) ==
    /\ thread_map' = Add(thread_map, q, -terminated_items[q])
    /\ terminated_items_count' = Add(terminated_items_count, q, -terminated_items[q])
    /\ terminated_items' = [terminated_items EXCEPT ![q] = 0]

nothing_left(w) ==
    /\ pc[w] = "add"
    /\ new_tasks[at[w]] = 0
    /\ Erase(w)
    /\ mtx' = [mtx EXCEPT ![w] = 0]
    /\ added' = [added EXCEPT ![w] = FALSE]
    /\ IF added[w]
       THEN GoTo(w, "loop") /\ Look(w, w) /\ result' = [result EXCEPT ![w] = FALSE] /\ UNCHANGED sweep
       ELSE Continue(w, ~running[w] /\ thread_map'[w] = 0 /\ terminated_items_count'[w] = 0)
    /\ UNCHANGED << waitRest, taskVars, work_items >>

-----------------------------------------------------------------------------
(***************************************************************************)
(* cleanup_terminated(true), of one queue (sweep is 0) or of all; the      *)
(* second time after a delay.                                              *)
(***************************************************************************)
sweepRest == << modeVars, taskVars, work_items, mtx, created, running, home, added >>

Swept(w, empty) ==
    LET ok == result[w] /\ empty
        more == sweep[w] # 0 /\ at[w] < Q
        again == ~more /\ ok /\ sweep[w] = 1 /\ delay_exit
        done == ~more /\ ~again
    IN /\ result' = [result EXCEPT ![w] = ok]
       /\ Look(w, CASE more -> at[w] + 1 [] again -> 1 [] done -> w)
       /\ sweep' = [sweep EXCEPT ![w] = CASE more -> @ [] again -> 2 [] done -> 0]
       /\ GoTo(w, IF ~done THEN "sweep" ELSE IF ok THEN "stopped" ELSE "loop")

nothing_terminated(w) ==
    /\ pc[w] = "sweep"
    /\ terminated_items_count[at[w]] = 0
    /\ Swept(w, thread_map[at[w]] = 0)
    /\ UNCHANGED << sweepRest, thread_map, deadVars >>

cleanup_terminated(w) ==
    /\ pc[w] = "sweep"
    /\ terminated_items_count[at[w]] # 0
    /\ mtx[at[w]] = 0
    /\ Erase(at[w])
    /\ IF terminated_items_count'[at[w]] = 0
       THEN Swept(w, thread_map'[at[w]] = 0 /\ new_tasks_count[at[w]] = 0)
       ELSE UNCHANGED << pc, at, result, sweep >>
    /\ UNCHANGED sweepRest

-----------------------------------------------------------------------------
Work(w) ==
    \/ \E q \in Queues : get_next_thread(w, q)
    \/ no_next_thread(w) \/ push_staged(w) \/ destroy_thread(w) \/ count_destroyed(w)
    \/ give_up(w) \/ try_lock(w) \/ take_staged(w) \/ insert(w) \/ nothing_left(w)
    \/ nothing_terminated(w) \/ cleanup_terminated(w)

Create(w) == \E q \in Queues : create_staged(w, q) \/ create_now(w, q)

Next == \E w \in Queues : Work(w) \/ Create(w) \/ stop(w)

\* An OS thread goes on while it is not stopped, and is told to stop; the thread it
\* runs ends.
Fairness == \A w \in Queues : WF_queueVars(Work(w)) /\ SF_queueVars(stop(w))

Spec == Init /\ [][Next]_queueVars
FairSpec == Spec /\ Fairness

-----------------------------------------------------------------------------
\* Every variable has its type; only the count of terminated threads may be below 0, by one for each OS thread.
TypeOK ==
    /\ \A f \in {new_tasks, new_tasks_count, work_items, thread_map, terminated_items} :
         f \in [Queues -> 0..MaxCreated]
    /\ terminated_items_count \in [Queues -> -Q..MaxCreated]
    /\ mtx \in [Queues -> 0..Q] /\ at \in [Queues -> Queues] /\ home \in [Queues -> Queues]
    /\ sweep \in [Queues -> 0..2] /\ created \in 0..MaxCreated
    /\ pc \in [Queues -> {"loop", "look", "run", "push", "count", "add", "insert", "sweep",
                          "stopped"}]

AllStopped == \A w \in Queues : pc[w] = "stopped"

\* When every OS thread of a scheduler that steals has left its loop, no task and no
\* thread is left behind: wait_or_add_new says that no more work has to be done.
NoWorkLeftBehind ==
    AllStopped /\ scheduler = "local" =>
        \A q \in Queues : new_tasks[q] = 0 /\ work_items[q] = 0 /\ thread_map[q] = 0

RunningOn(w) == IF pc[w] \in {"run", "push"} THEN 1 ELSE 0

\* The OS threads of a scheduler that steals all leave the loop.
WorkersStop == <>(AllStopped \/ scheduler = "static")
=============================================================================
