---------------------------- MODULE RoundsProof -----------------------------
(***************************************************************************)
(* Two protocols that go in rounds.  The barrier, for any number of        *)
(* threads and any size of the group: what total_ counts, when the         *)
(* destructor may return, and that wait keeps the safety part of the       *)
(* promise.  The detection of termination, for any number of localities    *)
(* and parcels: it announces the end only when there is nothing left, as   *)
(* long as no locality let the token pass with a parcel of its own under   *)
(* way.                                                                    *)
(***************************************************************************)
EXTENDS Barrier, FiniteSetTheorems, TLAPS

\* Only one thread destroys the barrier, after the last group was complete.
Destruction ==
    /\ \A t, u \in Threads :
         pc[t] \in {"destroying", "destroyed"} /\ pc[u] \in {"destroying", "destroyed"} => t = u
    /\ Destroying => total >= barrier_flag /\ \A u \in Threads : pc[u] # "entering"
    /\ \A t \in Threads : pc[t] = "destroyed" => total = barrier_flag

Types ==
    /\ total \in 1..(number_of_threads - 1)
                 \cup barrier_flag..(barrier_flag + number_of_threads - 1)
    /\ pc \in [Threads -> {"out", "entering", "inside", "destroying", "destroyed"}]
    /\ group \in SUBSET Threads
    /\ going \in SUBSET Threads

IInv == Types /\ TotalCountsInside /\ Destruction

counted == << total, pc, group, going >>

-----------------------------------------------------------------------------
\* One more, and one less, member of a set of threads.
LEMMA CountOne ==
    ASSUME NEW S \in SUBSET Threads, NEW t \in Threads
    PROVE  /\ Cardinality(S) \in Nat
           /\ t \notin S => Cardinality(S \cup {t}) = Cardinality(S) + 1
           /\ t \in S => Cardinality(S \ {t}) = Cardinality(S) - 1
           /\ Cardinality(S) = 0 => S = {}
<1>1. IsFiniteSet(S)
  BY BarrierAssumption, FS_Subset
<1> QED
  BY <1>1, FS_CardinalityType, FS_AddElement, FS_RemoveElement, FS_EmptySet, Zenon

\* The counters and sets only change in four actions; the others move pc alone.
LEMMA InitCounts == Init => IInv
<1> SUFFICES ASSUME Init PROVE IInv
  OBVIOUS
<1>1. Cardinality({}) = 0
  BY FS_EmptySet
<1> QED
  BY <1>1, BarrierAssumption DEF Init, IInv, Types, TotalCountsInside, Destruction, Destroying

\* A thread at the entry is in no group.
LEMMA EntryIsOutside ==
    ASSUME IInv, NEW t \in Threads, AtEntry(t)
    PROVE  /\ pc[t] \in {"out", "entering"}
           /\ t \notin group /\ t \notin going
           /\ ~Destroying
<1>1. pc[t] \in {"out", "entering"}
  BY Zenon DEF AtEntry, wait_call
<1>2. t \notin group /\ t \notin going
  BY <1>1, Zenon DEF IInv, Types, TotalCountsInside
<1>3. ~Destroying
  BY Zenon DEF AtEntry, wait_call, IInv, Destruction
<1> QED
  BY <1>1, <1>2, <1>3

\* total_ at the entry, before and after the thread is counted in.
LEMMA EntryCounts ==
    ASSUME IInv, NEW t \in Threads, AtEntry(t), total <= barrier_flag
    PROVE  /\ going = {}
           /\ Entered = Cardinality(group) + 1
           /\ Entered \in 1..number_of_threads
<1> USE BarrierAssumption
<1>1. CASE total = barrier_flag
  <2>1. Cardinality(going) = 0 /\ group = {}
    BY <1>1 DEF IInv, Types, TotalCountsInside
  <2>2. going = {}
    BY <2>1, CountOne, Zenon DEF IInv, Types
  <2>3. Cardinality({}) = 0
    BY FS_EmptySet
  <2> QED
    BY <1>1, <2>1, <2>2, <2>3 DEF IInv, Types, Entered
<1>2. CASE total < barrier_flag
  <2>1. Cardinality(group) = total /\ going = {}
    BY <1>2, Zenon DEF IInv, TotalCountsInside
  <2> QED
    BY <1>2, <2>1 DEF IInv, Types, Entered
<1> QED
  BY <1>1, <1>2 DEF IInv, Types

-----------------------------------------------------------------------------
LEMMA CountsStep == IInv /\ [Next]_barrierVars => IInv'
<1> SUFFICES ASSUME IInv, [Next]_barrierVars PROVE IInv'
  OBVIOUS
<1> USE BarrierAssumption
<1>0. ASSUME UNCHANGED counted PROVE IInv'
  BY <1>0, Zenon DEF counted, IInv, Types, TotalCountsInside, Destruction, Destroying
<1>1. ASSUME NEW t \in Threads, WaitForExit(t) PROVE IInv'
  <2>1. pc[t] \in {"out", "entering"} /\ ~Destroying
    BY <1>1, EntryIsOutside, Zenon DEF WaitForExit
  <2>2. pc' = [pc EXCEPT ![t] = "entering"] /\ UNCHANGED << total, group, going >>
    BY <1>1 DEF WaitForExit
  <2>3. Types' /\ TotalCountsInside'
    BY <2>1, <2>2, Zenon DEF IInv, Types, TotalCountsInside
  <2>4. Destruction'
    BY <2>1, <2>2, Zenon DEF IInv, Types, Destruction, Destroying
  <2> QED
    BY <2>3, <2>4 DEF IInv
<1>2. ASSUME NEW t \in Threads, Enter(t) PROVE IInv'
  <2>1. pc[t] \in {"out", "entering"} /\ t \notin group /\ ~Destroying
    BY <1>2, EntryIsOutside, Zenon DEF Enter
  <2>2. going = {} /\ Entered = Cardinality(group) + 1 /\ Entered \in 1..number_of_threads
    BY <1>2, EntryCounts, Zenon DEF Enter
  <2>3. /\ pc' = [pc EXCEPT ![t] = "inside"]
        /\ total' = Entered /\ Entered # number_of_threads
        /\ group' = group \cup {t} /\ going' = going
    BY <1>2, Zenon DEF Enter
  <2>4. Cardinality(group') = Cardinality(group) + 1
    BY <2>1, <2>3, CountOne, Zenon DEF IInv, Types
  <2>5. Types' /\ total' < barrier_flag
    BY <2>2, <2>3 DEF IInv, Types
  <2>6. {u \in Threads : pc'[u] = "inside"} = group' \cup going'
    BY <2>3 DEF IInv, Types, TotalCountsInside
  <2>7. TotalCountsInside'
    BY <2>2, <2>3, <2>4, <2>5, <2>6, Zenon DEF TotalCountsInside
  <2>8. Destruction'
    BY <2>1, <2>3 DEF IInv, Types, Destruction, Destroying
  <2> QED
    BY <2>5, <2>7, <2>8 DEF IInv
<1>3. ASSUME NEW t \in Threads, EnterLast(t) PROVE IInv'
  <2>1. pc[t] \in {"out", "entering"} /\ ~Destroying
    BY <1>3, EntryIsOutside, Zenon DEF EnterLast
  <2>2. going = {} /\ Entered = Cardinality(group) + 1
    BY <1>3, EntryCounts, Zenon DEF EnterLast
  <2>3. /\ pc' = [pc EXCEPT ![t] = "out"]
        /\ total' = number_of_threads + barrier_flag - 1 /\ Entered = number_of_threads
        /\ group' = {} /\ going' = group
    BY <1>3, <2>2, Zenon DEF EnterLast
  <2>4. Types' /\ ~(total' < barrier_flag)
    BY <2>3 DEF IInv, Types
  <2>5. Cardinality(going') = total' - barrier_flag
    <3>1. Cardinality(group) \in Nat
      BY CountOne, Zenon DEF IInv, Types
    <3> QED
      BY <2>2, <2>3, <3>1
  <2>6. {u \in Threads : pc'[u] = "inside"} = group' \cup going'
    BY <2>1, <2>2, <2>3, Zenon DEF IInv, Types, TotalCountsInside
  <2>7. TotalCountsInside'
    BY <2>3, <2>4, <2>5, <2>6, Zenon DEF TotalCountsInside
  <2>8. Destruction'
    BY <2>1, <2>3 DEF IInv, Types, Destruction, Destroying
  <2> QED
    BY <2>4, <2>7, <2>8 DEF IInv
<1>4. ASSUME NEW t \in Threads, Exit(t) PROVE IInv'
  <2>1. /\ pc[t] = "inside" /\ total >= barrier_flag
        /\ total' = total - 1 /\ pc' = [pc EXCEPT ![t] = "out"]
        /\ going' = going \ {t} /\ group' = group
    BY <1>4, Zenon DEF Exit
  <2>2. group = {} /\ Cardinality(going) = total - barrier_flag /\ t \in going
    BY <2>1 DEF IInv, Types, TotalCountsInside
  <2>3. Cardinality(going') = Cardinality(going) - 1 /\ Cardinality(going') \in Nat
    BY <2>1, <2>2, CountOne, Zenon DEF IInv, Types
  <2>4. Types' /\ total' >= barrier_flag /\ total # barrier_flag
    BY <2>1, <2>2, <2>3 DEF IInv, Types
  <2>5. {u \in Threads : pc'[u] = "inside"} = group' \cup going'
    BY <2>1 DEF IInv, Types, TotalCountsInside
  <2>6. TotalCountsInside'
    BY <2>1, <2>2, <2>3, <2>4, <2>5 DEF TotalCountsInside, IInv, Types
  <2>7. Destruction'
    BY <2>1, <2>4 DEF IInv, Types, Destruction, Destroying
  <2> QED
    BY <2>4, <2>6, <2>7 DEF IInv
<1>5. ASSUME NEW t \in Threads, DestroyWaits(t) \/ Destroy(t) PROVE IInv'
  <2>1. PICK new \in {"destroying", "destroyed"} :
          /\ pc' = [pc EXCEPT ![t] = new] /\ UNCHANGED << total, group, going >>
          /\ new = "destroyed" => total <= barrier_flag
    BY <1>5, Zenon DEF DestroyWaits, Destroy
  <2>2. MayDestroy(t) \/ pc[t] = "destroying"
    BY <1>5, Zenon DEF DestroyWaits, Destroy
  <2>3. pc[t] # "inside" /\ pc[t] \in {"out", "destroying"}
    BY <2>2, Zenon DEF MayDestroy
  <2>4. Types' /\ TotalCountsInside'
    BY <2>1, <2>3, Zenon DEF IInv, Types, TotalCountsInside
  <2>5. total >= barrier_flag /\ \A u \in Threads : pc[u] # "entering"
    BY <2>2, Zenon DEF MayDestroy, IInv, Destruction, Destroying
  <2>6. \A u \in Threads : pc[u] \in {"destroying", "destroyed"} => u = t
    BY <2>2, Zenon DEF MayDestroy, IInv, Destruction, Destroying
  <2>7. Destruction'
    BY <2>1, <2>5, <2>6 DEF IInv, Types, Destruction, Destroying
  <2> QED
    BY <2>4, <2>7 DEF IInv
<1> QED
  BY <1>0, <1>1, <1>2, <1>3, <1>4, <1>5, Zenon
     DEF Next, ThreadStep, WaitReturns, WaitAgain, counted, barrierVars, objectVars
-----------------------------------------------------------------------------
\* barrier::wait keeps total_ equal to the number of threads that wait for their
\* group, or that have yet to leave it, whatever wakes them.
THEOREM BarrierCounts == Spec => []TotalCountsInside
<1>1. IInv => TotalCountsInside
  BY DEF IInv
<1> QED
  BY <1>1, InitCounts, CountsStep, PTL DEF Spec

\* barrier::~barrier returns only when every thread has left wait.
THEOREM DestructorIsLast == Spec => []DestroyedWhenEmpty
<1>1. IInv => DestroyedWhenEmpty
  <2> SUFFICES ASSUME IInv, NEW t \in Threads, NEW u \in Threads, pc[t] = "destroyed"
               PROVE  pc[u] \in {"out", "destroyed"}
    BY DEF DestroyedWhenEmpty
  <2>1. total = barrier_flag /\ pc[u] # "entering" /\ (pc[u] = "destroying" => u = t)
    BY Zenon DEF IInv, Destruction, Destroying
  <2>2. Cardinality(going) = 0 /\ group = {}
    BY <2>1, BarrierAssumption DEF IInv, TotalCountsInside
  <2>3. pc[u] # "inside"
    BY <2>2, CountOne, Zenon DEF IInv, Types, TotalCountsInside
  <2> QED
    BY <2>1, <2>3, Zenon DEF IInv, Types
<1> QED
  BY <1>1, InitCounts, CountsStep, PTL DEF Spec

\* Every step of the barrier is a step of the promise, or none: threads pass in
\* groups of number_of_threads and none before its group is complete.
THEOREM BarrierKeepsGroups == Spec => Promise!SafeSpec
<1>0. \A S : Promise!Cardinality(S) = Cardinality(S)
  BY DEF Promise!Cardinality, Cardinality
<1>1. Init => Promise!Init
  BY DEF Init, Promise!Init
<1>2. IInv /\ [Next]_barrierVars => [Promise!Next]_<< group, going >>
  <2> SUFFICES ASSUME IInv, [Next]_barrierVars PROVE [Promise!Next]_<< group, going >>
    OBVIOUS
  <2>1. ASSUME NEW t \in Threads, Enter(t) PROVE Promise!Come(t)
    <3>1. t \notin group /\ t \notin going
      BY <2>1, EntryIsOutside, Zenon DEF Enter
    <3>2. Entered = Cardinality(group) + 1 /\ Entered \in 1..number_of_threads
      BY <2>1, EntryCounts, Zenon DEF Enter
    <3>3. Cardinality(group) \in Nat
      BY CountOne, Zenon DEF IInv, Types
    <3>4. Cardinality(group) < number_of_threads - 1
      BY <2>1, <3>2, <3>3, BarrierAssumption DEF Enter
    <3> QED
      BY <1>0, <2>1, <3>1, <3>4, Zenon DEF Enter, Promise!Come
  <2>2. ASSUME NEW t \in Threads, EnterLast(t) PROVE Promise!Complete(t)
    <3>1. t \notin group /\ t \notin going
      BY <2>2, EntryIsOutside, Zenon DEF EnterLast
    <3>2. Entered = Cardinality(group) + 1
      BY <2>2, EntryCounts, Zenon DEF EnterLast
    <3>3. Cardinality(group) \in Nat
      BY CountOne, Zenon DEF IInv, Types
    <3>4. Cardinality(group) = number_of_threads - 1
      BY <2>2, <3>2, <3>3, BarrierAssumption DEF EnterLast
    <3> QED
      BY <1>0, <2>2, <3>1, <3>4, Zenon DEF EnterLast, Promise!Complete
  <2>3. ASSUME NEW t \in Threads, Exit(t) PROVE Promise!Return(t)
    <3>1. group = {} /\ t \in group \cup going
      BY <2>3, BarrierAssumption DEF Exit, IInv, Types, TotalCountsInside
    <3> QED
      BY <2>3, <3>1 DEF Exit, Promise!Return
  <2>4. ASSUME NEW t \in Threads,
               WaitForExit(t) \/ WaitReturns(t) \/ WaitAgain(t) \/ DestroyWaits(t) \/ Destroy(t)
        PROVE  UNCHANGED << group, going >>
    BY <2>4, Zenon DEF WaitForExit, WaitReturns, WaitAgain, DestroyWaits, Destroy
  <2> QED
    BY <2>1, <2>2, <2>3, <2>4, Zenon DEF Next, ThreadStep, Promise!Next, barrierVars,
       objectVars
<1> QED
  BY <1>1, <1>2, InitCounts, CountsStep, PTL DEF Spec, Promise!SafeSpec

-----------------------------------------------------------------------------
(* The detection of termination.                                           *)

CONSTANTS N, Parcels
VARIABLES active, dijkstra_color, parcel, from, to, token, holder, black, root, missed,
          overlooked
T == INSTANCE Termination

\* i has let the token of this probe pass.
Visited(i) == root \notin {"probe", "send"} /\ (i = 0 \/ i > holder)

\* i has, or had in this probe, no threads.
Seen(i) == Visited(i) \/ (token = "passing" /\ i = holder)

Dirty(i) == dijkstra_color[i] \/ T!UnderWay(i)

\* Where the token and the root are.
TokenPlaces ==
    /\ root = "probe" => token = "none"
    /\ root = "send" => holder = 0 /\ token \in {"held", "passing"}
    /\ root \in {"sent", "waiting"} /\ token \in {"held", "passing"} => holder # 0
    /\ root \in {"woken", "done"} => token = "none" /\ holder = 0
    /\ root = "woken" /\ black => dijkstra_color[0]

\* A parcel has two ends, and its report made the sender black: the root has
\* since been whitened at most at the start of the probe.
Reported ==
    /\ \A p \in Parcels : parcel[p] # "none" => from[p] # to[p]
    /\ \A p \in Parcels :
         parcel[p] = "reported" =>
            dijkstra_color[from[p]] \/ (root = "send" /\ from[p] = 0) \/ overlooked

\* A locality the token has not passed tells of a parcel.
Told == \E j \in T!Localities : ~Visited(j) /\ Dirty(j) /\ (root = "send" => j # 0)

AllSeenAreDone ==
    /\ \A i \in T!Localities : Seen(i) => ~active[i]
    /\ \A i \in T!Localities : Visited(i) => ~T!UnderWay(i)

\* The probe will fail, or what the token has passed is done.
Probing == root # "done" => black \/ Told \/ AllSeenAreDone

Finished == root = "done" => AllSeenAreDone

DetectionInv == T!TypeOK /\ TokenPlaces /\ Reported /\ (~overlooked => Probing /\ Finished)

-----------------------------------------------------------------------------
LEMMA DetectionInit == ASSUME N \in Nat \ {0, 1} PROVE T!Init => DetectionInv
<1> SUFFICES ASSUME N \in Nat \ {0, 1}, T!Init PROVE DetectionInv
  OBVIOUS
<1>1. 0 \in T!Localities
  BY DEF T!Localities
<1>2. T!TypeOK
  BY <1>1, Zenon DEF T!Init, T!TypeOK
<1>3. TokenPlaces /\ Reported
  BY Zenon DEF T!Init, TokenPlaces, Reported
<1>4. \A i \in T!Localities : ~Visited(i) /\ ~Seen(i)
  BY DEF T!Init, Visited, Seen
<1>5. AllSeenAreDone
  BY <1>4 DEF AllSeenAreDone
<1> QED
  BY <1>2, <1>3, <1>5 DEF DetectionInv, Probing, Finished

\* What the steps of the application leave as it is.
LEMMA AppKeeps ==
    ASSUME UNCHANGED T!appRest
    PROVE  /\ \A i : Visited(i)' <=> Visited(i)
           /\ \A i : Seen(i)' <=> Seen(i)
           /\ TokenPlaces /\ (dijkstra_color'[0] = dijkstra_color[0] \/ dijkstra_color'[0])
                => TokenPlaces'
BY Zenon DEF T!appRest, Visited, Seen, TokenPlaces

LEMMA PutStep ==
    ASSUME N \in Nat \ {0, 1}, DetectionInv, NEW p \in Parcels, NEW i \in T!Localities,
           NEW j \in T!Localities, T!put_parcel(p, i, j)
    PROVE  DetectionInv'
<1> USE DEF DetectionInv
<1>0. UNCHANGED << active, dijkstra_color, T!appRest >> /\ UNCHANGED << root, overlooked, black >>
  BY Zenon DEF T!put_parcel, T!appRest
<1>1. T!TypeOK'
  BY <1>0 DEF T!TypeOK, T!put_parcel, T!appRest
<1>2. TokenPlaces'
  BY <1>0, AppKeeps, Zenon
<1>3. Reported'
  BY <1>0 DEF Reported, T!put_parcel, T!TypeOK
<1>4. T!UnderWay(i)' /\ \A k \in T!Localities : T!UnderWay(k) => T!UnderWay(k)'
  BY Zenon DEF T!put_parcel, T!UnderWay, T!TypeOK
<1>5. \A k \in T!Localities : k # i => (T!UnderWay(k)' => T!UnderWay(k))
  BY Zenon DEF T!put_parcel, T!UnderWay, T!TypeOK
<1>6. Told => Told'
  BY <1>0, <1>4, AppKeeps, Zenon DEF Told, Dirty
<1>7. AllSeenAreDone => Told' \/ AllSeenAreDone'
  <2> SUFFICES ASSUME AllSeenAreDone PROVE Told' \/ AllSeenAreDone'
    OBVIOUS
  <2>1. active[i] /\ ~Seen(i) /\ ~Visited(i)
    BY Zenon DEF T!put_parcel, AllSeenAreDone, Seen
  <2>2. AllSeenAreDone'
    BY <2>1, <1>0, <1>5, AppKeeps, Zenon DEF AllSeenAreDone
  <2> QED
    BY <2>2
<1>8. root = "done" => (AllSeenAreDone => AllSeenAreDone')
  <2> SUFFICES ASSUME AllSeenAreDone PROVE AllSeenAreDone'
    OBVIOUS
  <2>1. active[i] /\ ~Seen(i) /\ ~Visited(i)
    BY Zenon DEF T!put_parcel, AllSeenAreDone, Seen
  <2> QED
    BY <2>1, <1>0, <1>5, AppKeeps, Zenon DEF AllSeenAreDone
<1> QED
  BY <1>0, <1>1, <1>2, <1>3, <1>6, <1>7, <1>8, Zenon DEF Probing, Finished

LEMMA WriteStep ==
    ASSUME DetectionInv, NEW p \in Parcels, T!write(p)
    PROVE  DetectionInv'
<1> USE DEF DetectionInv
<1>0. UNCHANGED << active, dijkstra_color, T!appRest >> /\ UNCHANGED << root, overlooked, black >>
  BY DEF T!write, T!appRest
<1>1. T!TypeOK'
  BY <1>0 DEF T!TypeOK, T!write, T!appRest
<1>2. TokenPlaces'
  BY <1>0, AppKeeps, Zenon
<1>3. Reported'
  BY <1>0, Zenon DEF Reported, T!write, T!TypeOK
<1>4. \A k \in T!Localities : T!UnderWay(k)' <=> T!UnderWay(k)
  BY Zenon DEF T!write, T!UnderWay, T!TypeOK
<1>5. (Told' <=> Told) /\ (AllSeenAreDone' <=> AllSeenAreDone)
  BY <1>0, <1>4, AppKeeps, Zenon DEF Told, Dirty, AllSeenAreDone
<1> QED
  BY <1>0, <1>1, <1>2, <1>3, <1>5, Zenon DEF Probing, Finished

LEMMA ReportStep ==
    ASSUME DetectionInv, NEW p \in Parcels, T!parcel_sent_handler(p)
    PROVE  DetectionInv'
<1> USE DEF DetectionInv
<1>0. UNCHANGED << active, from, T!appRest >> /\ UNCHANGED << root, overlooked, black >>
  BY Zenon DEF T!parcel_sent_handler, T!appRest
<1>1. T!TypeOK'
  BY <1>0 DEF T!TypeOK, T!parcel_sent_handler, T!appRest
<1>2. /\ dijkstra_color'[from[p]]
      /\ \A k \in T!Localities : dijkstra_color[k] => dijkstra_color'[k]
  BY Zenon DEF T!parcel_sent_handler, T!TypeOK
<1>3. TokenPlaces'
  BY <1>0, <1>2 DEF TokenPlaces, T!appRest, T!parcel_sent_handler, T!TypeOK
<1>4. Reported'
  BY <1>0, <1>2, Zenon DEF Reported, T!parcel_sent_handler, T!TypeOK
<1>5. /\ \A k \in T!Localities : T!UnderWay(k)' => T!UnderWay(k)
      /\ \A k \in T!Localities : k # from[p] => (T!UnderWay(k) => T!UnderWay(k)')
  BY Zenon DEF T!parcel_sent_handler, T!UnderWay, T!TypeOK
<1>6. \A k \in T!Localities : Dirty(k) => Dirty(k)'
  BY <1>2, <1>5, Zenon DEF Dirty
<1>7. Told => Told'
  BY <1>0, <1>6, AppKeeps, Zenon DEF Told
<1>8. AllSeenAreDone => AllSeenAreDone'
  BY <1>0, <1>5, AppKeeps, Zenon DEF AllSeenAreDone
<1> QED
  BY <1>0, <1>1, <1>3, <1>4, <1>7, <1>8, Zenon DEF Probing, Finished

LEMMA ReceiveStep ==
    ASSUME DetectionInv, NEW p \in Parcels, T!receive(p)
    PROVE  DetectionInv'
<1> USE DEF DetectionInv
<1> DEFINE k == from[p]
<1>0. UNCHANGED << dijkstra_color, from, to, T!appRest >> /\ UNCHANGED << root, overlooked, black >>
  BY Zenon DEF T!receive, T!appRest
<1>1. T!TypeOK'
  BY <1>0 DEF T!TypeOK, T!receive, T!appRest
<1>2. TokenPlaces'
  BY <1>0, AppKeeps, Zenon
<1>3. Reported'
  BY <1>0, Zenon DEF Reported, T!receive, T!TypeOK
<1>4. /\ \A i \in T!Localities : T!UnderWay(i)' => T!UnderWay(i)
      /\ \A i \in T!Localities : i # k => (T!UnderWay(i) => T!UnderWay(i)')
      /\ T!UnderWay(k) /\ k \in T!Localities /\ to[p] # k
  BY Zenon DEF T!receive, T!UnderWay, T!TypeOK, Reported
<1>5. parcel[p] # "reported" => T!UnderWay(k)'
  BY <1>0, Zenon DEF T!receive, T!UnderWay, T!TypeOK
<1>6. ~overlooked /\ ~(root = "send" /\ k = 0) => Dirty(k)'
  BY <1>0, <1>5, <1>4, Zenon DEF Reported, Dirty, T!TypeOK
<1>7. ~overlooked /\ Told => Told'
  BY <1>0, <1>4, <1>6, AppKeeps, Zenon DEF Told, Dirty
<1>8. ASSUME ~overlooked, AllSeenAreDone PROVE AllSeenAreDone' \/ (Told' /\ root # "done")
  <2>1. ~Visited(k)
    BY <1>4, <1>8, Zenon DEF AllSeenAreDone
  <2>2. CASE root = "send" /\ k = 0
    <3>1. \A i \in T!Localities : Seen(i) => i # to[p]
      BY <2>2, <1>4, Zenon DEF Seen, Visited, TokenPlaces
    <3> QED
      BY <3>1, <1>0, <1>4, <1>8, AppKeeps, Zenon DEF AllSeenAreDone, T!receive, T!TypeOK
  <2>3. CASE ~(root = "send" /\ k = 0)
    <3>1. Told'
      BY <2>1, <2>3, <1>0, <1>4, <1>6, <1>8, AppKeeps, Zenon DEF Told
    <3>2. root # "done"
      BY <2>1, <1>4 DEF Visited, TokenPlaces, T!TypeOK, T!Localities
    <3> QED
      BY <3>1, <3>2
  <2> QED
    BY <2>2, <2>3
<1> QED
  BY <1>0, <1>1, <1>2, <1>3, <1>7, <1>8, Zenon DEF Probing, Finished

LEMMA PassiveStep ==
    ASSUME DetectionInv, NEW i \in T!Localities, T!become_passive(i)
    PROVE  DetectionInv'
<1> USE DEF DetectionInv
<1>0. /\ UNCHANGED << dijkstra_color, parcel, from, to, T!appRest >>
      /\ UNCHANGED << root, overlooked, black >>
  BY Zenon DEF T!become_passive, T!appRest, T!parcelVars
<1>1. T!TypeOK'
  BY <1>0, Zenon DEF T!TypeOK, T!become_passive, T!appRest
<1>2. TokenPlaces' /\ Reported'
  BY <1>0, AppKeeps, Zenon DEF Reported
<1>3. \A k \in T!Localities : T!UnderWay(k)' <=> T!UnderWay(k)
  BY <1>0 DEF T!UnderWay
<1>4. Told' <=> Told
  BY <1>0, <1>3, AppKeeps, Zenon DEF Told, Dirty
<1>5. AllSeenAreDone => AllSeenAreDone'
  BY <1>0, <1>3, AppKeeps, Zenon DEF AllSeenAreDone, T!become_passive, T!TypeOK
<1> QED
  BY <1>0, <1>1, <1>2, <1>4, <1>5, Zenon DEF Probing, Finished

-----------------------------------------------------------------------------
LEMMA StartStep ==
    ASSUME N \in Nat \ {0, 1}, DetectionInv, T!start_probe
    PROVE  DetectionInv'
<1> USE DEF DetectionInv
<1>0. 0 \in T!Localities
  BY DEF T!Localities
<1>1. T!TypeOK'
  BY <1>0, Zenon DEF T!TypeOK, T!start_probe, T!parcelVars
<1>2. TokenPlaces'
  BY Zenon DEF TokenPlaces, T!start_probe
<1>3. Reported'
  BY <1>0, Zenon DEF Reported, T!start_probe, T!parcelVars, T!TypeOK
<1>4. \A i \in T!Localities : ~Visited(i)' /\ ~Seen(i)'
  BY DEF T!start_probe, Visited, Seen
<1>5. AllSeenAreDone'
  BY <1>4 DEF AllSeenAreDone
<1> QED
  BY <1>1, <1>2, <1>3, <1>5 DEF Probing, Finished

LEMMA IsPassiveStep ==
    ASSUME N \in Nat \ {0, 1}, DetectionInv, T!is_passive
    PROVE  DetectionInv'
<1> USE DEF DetectionInv
<1>0. UNCHANGED << active, dijkstra_color, parcel, from, to, holder, black, root, missed,
                   overlooked >>
  BY DEF T!is_passive, T!parcelVars
<1>1. T!TypeOK' /\ TokenPlaces' /\ Reported'
  BY <1>0 DEF T!TypeOK, TokenPlaces, Reported, T!is_passive
<1>2. \A i \in T!Localities : (T!UnderWay(i)' <=> T!UnderWay(i)) /\ (Visited(i)' <=> Visited(i))
  BY <1>0, Zenon DEF T!UnderWay, Visited
<1>3. \A i \in T!Localities : Seen(i)' => Seen(i) \/ ~active[i]
  BY <1>0, <1>2, Zenon DEF Seen, T!is_passive
<1>4. Told' <=> Told
  BY <1>0, <1>2, Zenon DEF Told, Dirty
<1>5. AllSeenAreDone => AllSeenAreDone'
  BY <1>0, <1>2, <1>3, Zenon DEF AllSeenAreDone
<1>6. root # "done"
  BY Zenon DEF T!is_passive, TokenPlaces
<1> QED
  BY <1>0, <1>1, <1>4, <1>5, <1>6, Zenon DEF Probing, Finished

LEMMA SendStep ==
    ASSUME N \in Nat \ {0, 1}, DetectionInv, T!send_dijkstra_termination_token
    PROVE  DetectionInv'
<1> USE DEF DetectionInv, T!send_dijkstra_termination_token, T!HandOver
<1>0. UNCHANGED << active, parcel, from, to, missed >>
  BY Zenon DEF T!parcelVars
<1>1. T!Target(holder) \in T!Localities /\ (holder # 0 => T!Target(holder) = holder - 1)
        /\ (holder = 0 => T!Target(holder) = N - 1)
  BY DEF T!Target, T!Localities, T!TypeOK
<1>2. root \in {"send", "sent", "waiting"} /\ root' \in {"sent", "waiting"}
        /\ (root = "send" <=> holder = 0)
  BY Zenon DEF TokenPlaces, T!TypeOK
<1>3. T!TypeOK'
  BY <1>0, <1>1, <1>2, Zenon DEF T!TypeOK
<1>4. TokenPlaces'
  BY <1>2, Zenon DEF TokenPlaces
<1>5. \A i \in T!Localities : T!UnderWay(i)' <=> T!UnderWay(i)
  BY <1>0, Zenon DEF T!UnderWay
<1>6. \A i \in T!Localities : Visited(i)' <=> Visited(i) \/ i = holder
  <2>1. CASE holder = 0
    BY <2>1, <1>1, <1>2 DEF Visited, T!Localities, T!TypeOK
  <2>2. CASE holder # 0
    BY <2>2, <1>1, <1>2 DEF Visited, T!Localities, T!TypeOK
  <2> QED
    BY <2>1, <2>2, Zenon
<1>7. \A i \in T!Localities : Seen(i)' <=> Seen(i)
  BY <1>6, Zenon DEF Seen
<1>8. Reported'
  <2> SUFFICES ASSUME NEW p \in Parcels, parcel[p] = "reported", ~overlooked'
               PROVE  dijkstra_color'[from[p]]
    BY <1>0, Zenon DEF Reported
  <2>1. ~overlooked /\ ~T!UnderWay(holder)
    BY Zenon DEF T!TypeOK
  <2>2. from[p] # holder /\ from[p] \in T!Localities
    BY <2>1, Zenon DEF T!UnderWay, T!TypeOK
  <2> QED
    BY <2>1, <2>2, <1>2, Zenon DEF Reported, T!TypeOK
<1>9. ASSUME ~overlooked' PROVE Probing' /\ Finished'
  <2>1. ~overlooked /\ ~T!UnderWay(holder) /\ root # "done"
    BY <1>2, <1>9, Zenon DEF T!TypeOK
  <2>2. CASE black \/ dijkstra_color[holder]
    BY <2>2, <1>2, Zenon DEF Probing, Finished
  <2>3. CASE ~dijkstra_color[holder] /\ Told
    <3>1. PICK j \in T!Localities : ~Visited(j) /\ Dirty(j)
      BY <2>3, Zenon DEF Told
    <3>2. j # holder
      BY <3>1, <2>1, <2>3, Zenon DEF Dirty
    <3>3. ~Visited(j)' /\ Dirty(j)'
      BY <3>1, <3>2, <1>5, <1>6, Zenon DEF Dirty, T!TypeOK
    <3>4. Told'
      BY <3>3, <1>2, Zenon DEF Told
    <3> QED
      BY <3>4, <1>2, Zenon DEF Probing, Finished
  <2>4. CASE AllSeenAreDone
    <3>1. AllSeenAreDone'
      BY <2>1, <2>4, <1>0, <1>5, <1>6, <1>7, Zenon DEF AllSeenAreDone
    <3> QED
      BY <3>1, Zenon DEF Probing, Finished
  <2> QED
    BY <2>1, <2>2, <2>3, <2>4, Zenon DEF Probing
<1> QED
  BY <1>3, <1>4, <1>8, <1>9, Zenon

LEMMA ArrivalStep ==
    ASSUME N \in Nat \ {0, 1}, DetectionInv, T!dijkstra_termination \/ T!token_returns
    PROVE  DetectionInv'
<1> USE DEF DetectionInv
<1>0. UNCHANGED << active, parcel, from, to, holder, black, overlooked >> /\ token = "sent"
  BY Zenon DEF T!dijkstra_termination, T!token_returns, T!parcelVars
<1>1. 0 \in T!Localities
  BY DEF T!Localities
<1>2. root \in {"sent", "waiting"} /\ root' \in {"sent", "waiting", "woken"}
  BY Zenon DEF TokenPlaces, T!TypeOK, T!dijkstra_termination, T!token_returns
<1>3. T!TypeOK'
  BY <1>0, <1>1, <1>2, Zenon DEF T!TypeOK, T!dijkstra_termination, T!token_returns
<1>4. \A i \in T!Localities : dijkstra_color[i] => dijkstra_color'[i]
  BY <1>1, Zenon DEF T!TypeOK, T!dijkstra_termination, T!token_returns
<1>5. TokenPlaces'
  BY <1>1, <1>2 DEF TokenPlaces, T!TypeOK, T!dijkstra_termination, T!token_returns
<1>6. Reported'
  BY <1>0, <1>2, <1>4, Zenon DEF Reported, T!TypeOK
<1>7. \A i \in T!Localities : (T!UnderWay(i)' <=> T!UnderWay(i)) /\ (Visited(i)' <=> Visited(i))
  BY <1>0, <1>2, Zenon DEF T!UnderWay, Visited
<1>8. \A i \in T!Localities : Seen(i)' => Seen(i)
  BY <1>0, <1>7, Zenon DEF Seen, T!dijkstra_termination, T!token_returns
<1>9. (Told => Told') /\ (AllSeenAreDone => AllSeenAreDone')
  BY <1>0, <1>2, <1>4, <1>7, <1>8, Zenon DEF Told, Dirty, AllSeenAreDone
<1> QED
  BY <1>0, <1>2, <1>3, <1>5, <1>6, <1>9, Zenon DEF Probing, Finished

LEMMA WaitStep ==
    ASSUME N \in Nat \ {0, 1}, DetectionInv, T!wait \/ T!wait_returns
    PROVE  DetectionInv'
<1> USE DEF DetectionInv
<1>0. UNCHANGED << active, dijkstra_color, parcel, from, to, token, holder, black, missed,
                   overlooked >>
  BY Zenon DEF T!wait, T!wait_returns, T!parcelVars
<1>1. T!TypeOK' /\ TokenPlaces' /\ Reported'
  BY <1>0, Zenon DEF T!TypeOK, TokenPlaces, Reported, T!wait, T!wait_returns
<1>2. \A i \in T!Localities : T!UnderWay(i)' <=> T!UnderWay(i)
  BY <1>0 DEF T!UnderWay
<1>3. CASE root' # "probe"
  <2>1. root \notin {"probe", "send", "done"} /\ root' \notin {"probe", "send"}
    BY <1>3, Zenon DEF T!wait, T!wait_returns
  <2>2. \A i \in T!Localities : (Visited(i)' <=> Visited(i)) /\ (Seen(i)' <=> Seen(i))
    BY <2>1, <1>0, Zenon DEF Visited, Seen
  <2>3. (Told' <=> Told) /\ (AllSeenAreDone' <=> AllSeenAreDone)
    BY <2>1, <2>2, <1>0, <1>2, Zenon DEF Told, Dirty, AllSeenAreDone
  <2>4. root' = "done" => ~black /\ \A i \in T!Localities : Visited(i)
    BY <2>1 DEF T!wait, T!wait_returns, TokenPlaces, Visited, T!Localities, T!TypeOK
  <2>5. root' = "done" => ~Told
    BY <2>4 DEF Told
  <2> QED
    BY <2>1, <2>3, <2>4, <2>5, <1>0, <1>1, Zenon DEF Probing, Finished
<1>4. CASE root' = "probe"
  <2>1. \A i \in T!Localities : ~Visited(i)' /\ ~Seen(i)'
    BY <1>4, <1>1, Zenon DEF Visited, Seen, TokenPlaces
  <2>2. AllSeenAreDone'
    BY <2>1 DEF AllSeenAreDone
  <2> QED
    BY <2>2, <1>1 DEF Probing, Finished
<1> QED
  BY <1>3, <1>4, Zenon

LEMMA DetectionStep ==
    ASSUME N \in Nat \ {0, 1}, DetectionInv, [T!Next]_(T!terminationVars)
    PROVE  DetectionInv'
<1>1. CASE UNCHANGED T!terminationVars
  BY <1>1 DEF T!terminationVars, T!parcelVars, DetectionInv, T!TypeOK, TokenPlaces, Reported,
                  Probing, Finished,
              Told, Dirty, AllSeenAreDone, Visited, Seen, T!UnderWay
<1>2. CASE T!Probe
  BY <1>2, StartStep, IsPassiveStep, SendStep, ArrivalStep, WaitStep, Zenon DEF T!Probe
<1>3. CASE \E p \in Parcels : T!Delivery(p)
  BY <1>3, WriteStep, ReportStep, ReceiveStep DEF T!Delivery
<1>4. CASE \E p \in Parcels : \E i, j \in T!Localities : T!put_parcel(p, i, j)
  BY <1>4, PutStep
<1>5. CASE \E i \in T!Localities : T!become_passive(i)
  BY <1>5, PassiveStep
<1> QED
  BY <1>1, <1>2, <1>3, <1>4, <1>5, Zenon DEF T!Next

\* dijkstra_termination_detection returns only when no locality has threads and no
\* parcel is under way, whatever the number of localities and parcels, as long as
\* each locality's parcels were received and reported when it let the token pass.
THEOREM DetectionIsRightIfReported ==
    ASSUME N \in Nat \ {0, 1}
    PROVE  T!Spec => []T!DetectedIfReported
<1>1. T!Init => DetectionInv
  BY DetectionInit
<1>2. DetectionInv /\ [T!Next]_(T!terminationVars) => DetectionInv'
  BY DetectionStep
<1>3. DetectionInv => T!DetectedIfReported
  <2> SUFFICES ASSUME DetectionInv, root = "done", ~overlooked PROVE T!Quiescent
    BY DEF T!DetectedIfReported
  <2>1. \A i \in T!Localities : Visited(i) /\ Seen(i)
    BY DEF DetectionInv, TokenPlaces, Visited, Seen, T!Localities, T!TypeOK
  <2>2. \A i \in T!Localities : ~active[i] /\ ~T!UnderWay(i)
    BY <2>1 DEF DetectionInv, Finished, AllSeenAreDone
  <2>3. \A p \in Parcels : parcel[p] \in {"none", "done"}
    BY <2>2, Zenon DEF DetectionInv, T!TypeOK, T!UnderWay
  <2> QED
    BY <2>2, <2>3 DEF T!Quiescent
<1> QED
  BY <1>1, <1>2, <1>3, PTL DEF T!Spec
=============================================================================
