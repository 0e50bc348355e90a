------------------------------ MODULE Barrier ------------------------------
(***************************************************************************)
(* lcos::local::barrier (src/lcos/local/local_barrier.cpp): a counter that *)
(* counts the threads on their way in below barrier_flag, and those on     *)
(* their way out above it.                                                 *)
(***************************************************************************)
EXTENDS CondVar, FiniteSets

CONSTANTS number_of_threads,
          barrier_flag,   \* the top bit of a std::size_t
          Strays,         \* threads that bring an armed timer of an earlier wait
          MaxWaits        \* how often a thread uses the barrier

ASSUME BarrierAssumption ==
    /\ number_of_threads \in Nat \ {0}
    /\ barrier_flag \in Nat /\ number_of_threads < barrier_flag
    /\ MaxWaits \in Nat
    /\ IsFiniteSet(Threads) /\ NoThread \notin Threads

VARIABLES total,   \* total_
          pc,      \* the loop of wait, or of the destructor, that a thread is in
          waits,   \* how often a thread called wait
          group,   \* threads counted in that wait for the others
          going    \* threads of a complete group that have not returned

objectVars == << queue, mtx, total, pc, waits, group, going >>
barrierVars == << waitVars, objectVars >>

Init ==
    /\ InitWaits([t \in Threads |-> IF t \in Strays THEN 1 ELSE 0])
    /\ InitCondVar
    /\ total = barrier_flag
    /\ pc = [t \in Threads |-> "out"]
    /\ waits = [t \in Threads |-> 0]
    /\ group = {}
    /\ going = {}

Destroying == \E t \in Threads : pc[t] \in {"destroying", "destroyed"}

wait_call(t) ==
    /\ Calls(t)
    /\ pc[t] = "out"
    /\ ~Destroying
    /\ waits[t] < MaxWaits
    /\ waits' = [waits EXCEPT ![t] = @ + 1]

\* The thread is at the test of the first loop, for the first time or again.
AtEntry(t) ==
    \/ wait_call(t)
    \/ Back(t) /\ pc[t] = "entering" /\ UNCHANGED waits

\* Are we the first to enter?
Entered_no_reset == total + 1

Entered == (IF total = barrier_flag THEN 0 ELSE total) + 1

\* wait until everyone exits the barrier
WaitForExit(t) ==
    /\ AtEntry(t)
    /\ total > barrier_flag
    /\ wait("cond", t, FALSE)
    /\ pc' = [pc EXCEPT ![t] = "entering"]
    /\ UNCHANGED << total, group, going >>

Enter(t) ==
    /\ AtEntry(t)
    /\ total <= barrier_flag
    /\ Entered # number_of_threads
    /\ total' = Entered
    /\ wait("cond", t, FALSE)
    /\ pc' = [pc EXCEPT ![t] = "inside"]
    /\ group' = group \cup {t}
    /\ UNCHANGED going

EnterLast_no_notify(t) ==
    /\ AtEntry(t)
    /\ total <= barrier_flag
    /\ Entered = number_of_threads
    /\ total' = Entered + barrier_flag - 1
    /\ release
    /\ pc' = [pc EXCEPT ![t] = "out"]
    /\ group' = {}
    /\ going' = going \cup group

EnterLast(t) ==
    /\ AtEntry(t)
    /\ total <= barrier_flag
    /\ Entered = number_of_threads
    /\ total' = Entered + barrier_flag - 1
    /\ notify_all("cond")
    /\ pc' = [pc EXCEPT ![t] = "out"]
    /\ group' = {}
    /\ going' = going \cup group

\* wait comes back to one of the three loops.
WaitReturns(t) ==
    /\ leave(t)
    /\ UNCHANGED << total, pc, waits, group, going >>

\* wait until enough threads enter the barrier
WaitAgain(t) ==
    /\ Back(t)
    /\ pc[t] = "inside"
    /\ total < barrier_flag
    /\ wait("cond", t, FALSE)
    /\ UNCHANGED << total, pc, waits, group, going >>

Exit_no_notify(t) ==
    /\ Back(t)
    /\ pc[t] = "inside"
    /\ total >= barrier_flag
    /\ total' = total - 1
    /\ release
    /\ pc' = [pc EXCEPT ![t] = "out"]
    /\ going' = going \ {t}
    /\ UNCHANGED << waits, group >>

\* The last to exit gets entering threads to wake up.
Exit(t) ==
    /\ Back(t)
    /\ pc[t] = "inside"
    /\ total >= barrier_flag
    /\ total' = total - 1
    /\ IF total' = barrier_flag THEN notify_all("cond") ELSE release
    /\ pc' = [pc EXCEPT ![t] = "out"]
    /\ going' = going \ {t}
    /\ UNCHANGED << waits, group >>

\* The destructor runs when the last call of wait has been made and its group
\* is complete; other threads may still be on their way out.
MayDestroy(t) ==
    /\ Calls(t)
    /\ ~Destroying
    /\ total >= barrier_flag
    /\ pc[t] = "out"
    /\ \A u \in Threads : waits[u] = MaxWaits /\ pc[u] # "entering"

DestroyWaits(t) ==
    /\ MayDestroy(t) \/ (Back(t) /\ pc[t] = "destroying")
    /\ total > barrier_flag
    /\ wait("cond", t, FALSE)
    /\ pc' = [pc EXCEPT ![t] = "destroying"]
    /\ UNCHANGED << total, waits, group, going >>

Destroy_at_once(t) ==
    /\ MayDestroy(t)
    /\ release
    /\ pc' = [pc EXCEPT ![t] = "destroyed"]
    /\ UNCHANGED << total, waits, group, going >>

Destroy(t) ==
    /\ MayDestroy(t) \/ (Back(t) /\ pc[t] = "destroying")
    /\ total <= barrier_flag
    /\ release
    /\ pc' = [pc EXCEPT ![t] = "destroyed"]
    /\ UNCHANGED << total, waits, group, going >>

ThreadStep(t) ==
    \/ WaitForExit(t) \/ Enter(t) \/ EnterLast(t) \/ WaitReturns(t) \/ WaitAgain(t)
    \/ Exit(t) \/ DestroyWaits(t) \/ Destroy(t)

Next ==
    \/ \E t \in Threads : ThreadStep(t)
    \/ Delivery /\ UNCHANGED objectVars

Fairness == \A t \in Threads :
    /\ WF_barrierVars(~Calls(t) /\ ThreadStep(t))
    /\ WF_barrierVars((\E x \in Reasons : Wake(t, x)) /\ UNCHANGED objectVars)

Spec == Init /\ [][Next]_barrierVars
FairSpec == Spec /\ Fairness
-----------------------------------------------------------------------------
\* Every variable has its type; total_ never leaves the two ranges it is used in.
TypeOK ==
    /\ total \in 1..(number_of_threads - 1)
                 \cup barrier_flag..(barrier_flag + number_of_threads - 1)
    /\ pc \in [Threads -> {"out", "entering", "inside", "destroying", "destroyed"}]
    /\ waits \in [Threads -> 0..MaxWaits]
    /\ InQueue("cond") = {t \in Threads : registered[t]}

\* total_ counts the waiting threads of the group that forms, or, above
\* barrier_flag, those of the complete group that have not returned; never both.
TotalCountsInside ==
    /\ {t \in Threads : pc[t] = "inside"} = group \cup going
    /\ IF total < barrier_flag
       THEN Cardinality(group) = total /\ going = {}
       ELSE Cardinality(going) = total - barrier_flag /\ group = {}

\* The destructor returns only when no thread is left in a loop of wait.
DestroyedWhenEmpty ==
    \A t, u \in Threads : pc[t] = "destroyed" => pc[u] \in {"out", "destroyed"}

Promise == INSTANCE BarrierPromise WITH N <- number_of_threads

\* wait lets threads through in groups, releases nobody before its group is
\* complete, and then everybody, also with wake-ups meant for earlier waits.
KeepsPromise == Promise!Spec

\* A thread held up at the entry, while an earlier group leaves, gets in.
EntryIsReached ==
    \A t \in Threads : pc[t] = "entering" ~> pc[t] # "entering"
=============================================================================
