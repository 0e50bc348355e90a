---------------------------- MODULE RuntimeParts ----------------------------
(***************************************************************************)
(* The parts of the runtime that do not share an object with each other:   *)
(* the detection of termination over all localities, the queues of a       *)
(* scheduler, the parcelport with its cache of connections, the counting   *)
(* of references to global objects, and on top of them parallel loops,     *)
(* reductions and the weights of the learned models.  A behaviour is about *)
(* one of them.                                                            *)
(***************************************************************************)
EXTENDS Integers, FiniteSetsExt, SequencesExt

CONSTANTS Parts,                                        \* the parts considered
          N, Parcels,                                   \* see the modules of the parts
          Q, MaxCreated, MaxTerminated, MinSteal, Schedulers,
          Dests, Putters, MaxParcels, MaxConnections, PerLocality, MaxFaults, SizeT,
          Slots, Hosts, Splitters, LogInitial, MaxRequests, MaxSends,
          Sizes, Strides, CoreCounts, TaskCounts, Parameters, ChunkSizes, Share, Spread,
          Workers, Invocations, Suspending,
          Loops, Classes, MaxScore, MaxLoops

ASSUME RuntimeAssumption ==
    /\ Parts \subseteq {"termination", "queues", "port", "credits", "loop", "views", "weights"}
    /\ N \in Nat \ {0, 1}
    /\ Q \in 1..2 /\ {MaxCreated, MaxTerminated, MinSteal} \subseteq Nat
    /\ Schedulers \subseteq {"local", "static"}
    /\ {MaxParcels, MaxConnections, PerLocality, MaxFaults} \subseteq Nat
    /\ MaxParcels + MaxConnections < SizeT
    /\ LogInitial \in Nat \ {0} /\ MaxRequests \in Nat \ {0} /\ MaxSends \in Nat
    /\ 0 \in Sizes /\ Sizes \cup ChunkSizes \subseteq Nat
    /\ Strides \cup CoreCounts \cup TaskCounts \cup {Share, Spread} \subseteq Nat \ {0}
    /\ Parameters \subseteq {"auto", "static", "dynamic", "guided", "seq"}
    /\ Suspending \subseteq Invocations
    /\ Classes \in Nat \ {0} /\ {MaxScore, MaxLoops} \subseteq Nat

VARIABLES part,
          active, dijkstra_color, parcel, from, to, token, holder, black,          \* Termination
          root, missed, overlooked,
          scheduler, delay_exit, new_tasks, new_tasks_count, work_items,           \* ThreadQueues
          thread_map, terminated_items, terminated_items_count, mtx, created,
          running, pc, at, home, added, result, sweep,
          pending, parcel_destinations, num_parcel_destinations, cache, flight,    \* ParcelPort
          place, dest, held, put, faults, lost, stray, dangling,
          log2credit, was_split, locality, status, op, requests, request_count,    \* Credits
          decrements, refcnt, frees, sends,
          size, stride, cores, num_tasks, params, given_size, stage, begin,        \* ForLoop
          count, base_idx, chunk_size, shape, spawns, results, finished, calls,
          data, phase, worker, view, local, sum, met,                              \* ReductionViews
          weights, scores, step, line, class, loops, early, first                  \* LearnedWeights

terminationOwn == << active, dijkstra_color, parcel, from, to, token, holder, black,
                     root, missed, overlooked >>
queueOwn == << scheduler, delay_exit, new_tasks, new_tasks_count, work_items,
               thread_map, terminated_items, terminated_items_count, mtx, created,
               running, pc, at, home, added, result, sweep >>
portOwn == << pending, parcel_destinations, num_parcel_destinations, cache, flight,
              place, dest, held, put, faults, lost, stray, dangling >>
creditOwn == << log2credit, was_split, locality, status, op, requests, request_count,
                decrements, refcnt, frees, sends >>
loopOwn == << size, stride, cores, num_tasks, params, given_size, stage, begin, count, base_idx,
              chunk_size, shape, spawns, results, finished, calls >>
viewOwn == << data, phase, worker, view, local, sum, met >>
weightOwn == << weights, scores, step, line, class, loops, early, first >>
vars == << part, terminationOwn, queueOwn, portOwn, creditOwn, loopOwn, viewOwn, weightOwn >>

T == INSTANCE Termination
Z == INSTANCE ThreadQueues
P == INSTANCE ParcelPort
C == INSTANCE Credits
L == INSTANCE ForLoop
V == INSTANCE ReductionViews
W == INSTANCE LearnedWeights

\* The choices of the parts that a behaviour is not about are fixed.
Init ==
    /\ part \in Parts
    /\ part # "termination" => active = [i \in T!Localities |-> FALSE]
    /\ part # "queues" => /\ scheduler = "local" /\ delay_exit = FALSE
                          /\ new_tasks = [q \in Z!Queues |-> 1]
    /\ part # "port" => cache = P!Idle(0)
    /\ part # "loop" => /\ size = 0 /\ params = "seq"
                        /\ stride = Max(Strides) /\ cores = Max(CoreCounts)
                        /\ num_tasks = Max(TaskCounts) /\ given_size = Max(ChunkSizes)
    /\ part # "weights" => scores = [c \in 1..Classes |-> 0]
    /\ T!Init /\ Z!Init /\ P!Init /\ C!Init /\ L!Init /\ V!Init /\ W!Init

ToolOnly(x) == part = x /\ UNCHANGED << part, terminationOwn, queueOwn, portOwn, creditOwn >>
RuntimeOnly(x) == part = x /\ UNCHANGED << part, loopOwn, viewOwn, weightOwn >>
TerminationOnly == RuntimeOnly("termination") /\ UNCHANGED << queueOwn, portOwn, creditOwn >>
QueuesOnly == RuntimeOnly("queues") /\ UNCHANGED << terminationOwn, portOwn, creditOwn >>
PortOnly == RuntimeOnly("port") /\ UNCHANGED << terminationOwn, queueOwn, creditOwn >>
CreditsOnly == RuntimeOnly("credits") /\ UNCHANGED << terminationOwn, queueOwn, portOwn >>
LoopOnly == ToolOnly("loop") /\ UNCHANGED << viewOwn, weightOwn >>
ViewsOnly == ToolOnly("views") /\ UNCHANGED << loopOwn, weightOwn >>
WeightsOnly == ToolOnly("weights") /\ UNCHANGED << loopOwn, viewOwn >>

Next ==
    \/ TerminationOnly /\ T!Next
    \/ QueuesOnly /\ Z!Next
    \/ PortOnly /\ P!Next
    \/ CreditsOnly /\ C!Next
    \/ LoopOnly /\ L!Next
    \/ ViewsOnly /\ V!Next
    \/ WeightsOnly /\ W!Next

\* What goes on, in three groups.  The probe of termination, threads that end and parcels
\* that are delivered; the OS threads; a thread that puts parcels, the writes and their
\* handler, the background thread; messages about credits.
Proceed(k) ==
    \/ TerminationOnly /\ k = 0 /\ T!Probe
    \/ TerminationOnly /\ k = 1 /\ (\/ \E p \in Parcels : T!Delivery(p)
                                    \/ \E i \in T!Localities : T!become_passive(i))
    \/ QueuesOnly /\ k \in Z!Queues /\ Z!Work(k)
    \/ PortOnly /\ k = 0 /\ \E t \in Putters : P!GoOn(t)
    \/ PortOnly /\ k = 1 /\ (P!GoOn("io") \/ P!return_connection \/ P!check_pending
                              \/ \E d \in Dests : P!written(d))
    \/ PortOnly /\ k = 2 /\ (\/ P!GoOn("background")
                             \/ \E d \in Dests : P!trigger_pending_work("background", d))
    \/ CreditsOnly /\ k = 0 /\ C!GoOn

\* OS threads are told to stop, and the background thread gets the mutex now and then.
Insist ==
    \/ QueuesOnly /\ \E w \in Z!Queues : Z!stop(w)
    \/ PortOnly /\ P!dequeue_parcels("background")

Fairness == (\A k \in 0..2 : WF_vars(Proceed(k))) /\ SF_vars(Insist)

Spec == Init /\ [][Next]_vars
FairSpec == Spec /\ Fairness
-----------------------------------------------------------------------------
\* Every variable of the part has its type.
TypeOK ==
    /\ part = "termination" => T!TypeOK
    /\ part = "queues" => Z!TypeOK
    /\ part = "port" => P!TypeOK
    /\ part = "credits" => C!TypeOK
    /\ part = "loop" => L!TypeOK
    /\ part = "views" => V!TypeOK
    /\ part = "weights" => W!TypeOK

\* Termination is announced only when no locality has threads or parcels left, as long
\* as every locality had its parcels received and reported when it let the token pass.
DetectedIfReported == part = "termination" => T!DetectedIfReported

\* When every OS thread of a scheduler that steals has left its loop, no task and no
\* thread is left behind: wait_or_add_new says that no more work has to be done.
NoWorkLeftBehind == part = "queues" => Z!NoWorkLeftBehind

\* Every connection the cache counts is in it, in use, or the place of one that could
\* not be made (check_invariants): unless an entry was cleared while in use, or an
\* erased one was used.
ConnectionsAreCounted == part = "port" => P!ConnectionsAreCounted

\* The count of AGAS is exactly what is carried by ids, assigned to splits
\* under way, cached as a decrement on some locality or sent to AGAS as one,
\* as long as the object lives: concurrent splits of one exhausted id, cached
\* decrements that pay for an increment and messages that overtake each other
\* neither lose nor make up a credit (name.cpp, addressing_service.cpp,
\* primary_namespace_server.cpp).
CreditsAreConserved == part = "credits" => C!CreditsAreConserved

\* The object is destroyed once, and only when no id, held or on its way,
\* refers to it and no split of an id is under way: the comment in
\* split_gid_if_needed_locked, "An early decref can't happen ...".
NoEarlyFree == part = "credits" => C!NoEarlyFree

\* However a loop is cut, rounded and spawned, each stride-th element has the function applied
\* exactly once and no other element has; in a loop of stride 1 with its position as the
\* induction value; and chunking divides by zero only where the stride reaches over a whole
\* range that is long enough for auto_chunk_size to test.
LoopIsComplete ==
    part = "loop" => L!AppliedOnce /\ L!UnitInductionIsPosition /\ L!TrapsOnWideStridesOnly

\* What an invocation adds is missing from a reduction only when two of them shared a view
\* while under way, and they do so only when one of them suspends.
ReductionIsComplete == part = "views" => V!SumIsComplete /\ V!SharedBySuspendedOnly


\* What the parts still owe.  The detection of termination ends, unless the token came
\* back before the root waited for it; the OS threads of a scheduler that steals leave
\* their loop; pending parcels are sent, unless the places of failed connections are
\* lost or the cache was broken; an object nobody refers to any more is destroyed.
Owed ==
    CASE part = "termination" -> root # "done" /\ ~missed
      [] part = "queues" -> ~Z!AllStopped /\ scheduler = "local"
      [] part = "port" -> /\ P!Total(pending) + P!Total(held) # 0
                          /\ P!Total(lost) = 0 /\ ~stray /\ ~dangling
      [] part = "credits" -> C!Used = {} /\ frees = 0
      [] OTHER -> FALSE

\* What is owed comes: with messages that overtake each other, OS threads that look for
\* work in turn, connections that are all in use and decrements that are cached.
EverythingSettles == []<>~Owed
=============================================================================
