------------------------- MODULE ThreadStateCustody -------------------------
(***************************************************************************)
(* Mutual exclusion and custody in ThreadState.  They hold as long as no   *)
(* thread yields with pending_boost and abort_all_suspended_threads is not *)
(* called: both set the state without comparing it first, and the runs     *)
(* that allow them show how two workers then execute one thread.  Timers   *)
(* and interrupts may wake any thread at any time.                         *)
(*                                                                         *)
(* A step moves at most one thread from one place to another.  The proof   *)
(* says so once: WorkerMoves and OthersMove reduce the invariant to the    *)
(* thread that moves and the worker that moves it.  Here the steps of the  *)
(* threads and of set_thread_state are shown to preserve it; those of the  *)
(* scheduling loop, and what follows, are in ThreadStateExclusion.         *)
(***************************************************************************)
EXTENDS ThreadStateTypes, TLAPS

ComparesBeforeSetting == Yields \subseteq {"pending"} /\ AbortSuspended = FALSE

Schedules(r, t) == rpc[r] = "schedule" /\ target[r] = t

\* The places where a thread may be, each to the exclusion of the others.
Nowhere(t) ==
    /\ queued[t] = 0
    /\ \A v \in Workers : ~Carries(v, t) /\ ~KeepsNext(v, t)
    /\ \A q \in Requests : ~Schedules(q, t)
InQueue(t) ==
    /\ queued[t] = 1
    /\ \A v \in Workers : ~Carries(v, t) /\ ~KeepsNext(v, t)
    /\ \A q \in Requests : ~Schedules(q, t)
InHand(w, t) ==
    /\ queued[t] = 0
    /\ \A v \in Workers : (Carries(v, t) <=> v = w) /\ ~KeepsNext(v, t)
    /\ \A q \in Requests : ~Schedules(q, t)
KeptNext(w, t) ==
    /\ queued[t] = 0
    /\ \A v \in Workers : ~Carries(v, t) /\ (KeepsNext(v, t) <=> v = w)
    /\ \A q \in Requests : ~Schedules(q, t)
InRequest(r, t) ==
    /\ queued[t] = 0
    /\ \A v \in Workers : ~Carries(v, t) /\ ~KeepsNext(v, t)
    /\ \A q \in Requests : Schedules(q, t) <=> q = r

\* A pending thread is in one place, any other thread is nowhere.
Held(t) ==
    IF word[t].state = "pending"
      THEN \/ InQueue(t)
           \/ \E w \in Workers : InHand(w, t) \/ KeptNext(w, t)
           \/ \E r \in Requests : InRequest(r, t)
      ELSE Nowhere(t)

\* A thread object that waits to be recycled is terminated.
DeadIsTerminated(t) ==
    /\ word[t].state # "pending_boost"
    /\ terminated_items[t] <= 1
    /\ terminated_items[t] > 0 => t \notin heap
    /\ t \in heap \/ terminated_items[t] > 0 => word[t].state = "terminated"

\* What a worker knows: it claims the word it saw, and the thread it executes
\* is active, in the phase it started.
WorkerKnows(w) ==
    /\ wpc[w] = "idle" \/ thrd[w] \in Threads
    /\ wpc[w] \notin {"boost", "boosted"} /\ result[w] # "pending_boost"
    /\ fork[w] # NoThread => wpc[w] = "store" /\ result[w] = "pending"
    /\ wpc[w] = "claim" => word[thrd[w]] = orig[w]
    /\ wpc[w] \in {"enter", "run", "store"} =>
         /\ word[thrd[w]].state = "active" /\ orig[w].state = "active"
         /\ word[thrd[w]].tag = orig[w].tag

\* What a request knows: it exchanges only the word of a suspended thread.
RequestKnows(r) ==
    rpc[r] # "abort" /\ (rpc[r] = "exchange" => seen[r].state = "suspended")

Custody ==
    /\ \A t \in Threads : Held(t) /\ DeadIsTerminated(t)
    /\ \A w \in Workers : WorkerKnows(w)
    /\ \A r \in Requests : RequestKnows(r)
    /\ ExecutedOnce

\* The part of the type invariant that the proof uses, with the sets folded.
Shape ==
    /\ word \in [Threads -> Words] /\ queued \in [Threads -> Nat]
    /\ terminated_items \in [Threads -> Nat] /\ heap \in SUBSET Threads
    /\ wpc \in [Workers -> WorkerPCs] /\ thrd \in [Workers -> Threads \cup {NoThread}]
    /\ orig \in [Workers -> Words] /\ result \in [Workers -> States]
    /\ fork \in [Workers -> Threads \cup {NoThread}]
    /\ next_thrd \in [Workers -> Threads \cup {NoThread}]
    /\ rpc \in [Requests -> RequestPCs]
    /\ target \in [Requests -> Threads \cup {NoThread}]
    /\ seen \in [Requests -> Words]

\* The folded form follows from the type invariant.
LEMMA ShapeOfType == TypeOK => Shape
  BY DEF TypeOK, Shape

\* Initially every object is recycled and nobody does anything.
LEMMA CustodyInit == Init => Custody
<1> SUFFICES ASSUME Init PROVE Custody
  OBVIOUS
<1>1. ASSUME NEW t \in Threads
      PROVE  Held(t) /\ DeadIsTerminated(t)
  <2>1. word[t].state = "terminated" /\ terminated_items[t] = 0
    BY SMTT(40) DEF Init, Word
  <2>2. Nowhere(t)
    BY ConstantsAssumption, SMTT(40) DEF Init, Nowhere, Carries, KeepsNext, Schedules
  <2>3. QED
    BY <2>1, <2>2, SMTT(40) DEF Held, DeadIsTerminated
<1>2. ExecutedOnce /\ \A w \in Workers : WorkerKnows(w)
  BY SMTT(40) DEF Init, WorkerKnows, ExecutedOnce, Executing
<1>3. \A r \in Requests : RequestKnows(r)
  BY SMTT(40) DEF Init, RequestKnows
<1>4. QED
  BY <1>1, <1>2, <1>3, Zenon DEF Custody

-----------------------------------------------------------------------------
(* What a step leaves alone.                                               *)

\* Of the threads, all but t ...
ThreadsKept(t) ==
    \A u \in Threads \ {t} :
        /\ word'[u] = word[u] /\ queued'[u] = queued[u]
        /\ terminated_items'[u] = terminated_items[u] /\ (u \in heap' <=> u \in heap)
\* ... of the workers, all but w ...
WorkersKept(w) ==
    \A v \in Workers \ {w} :
        /\ wpc'[v] = wpc[v] /\ thrd'[v] = thrd[v] /\ orig'[v] = orig[v]
        /\ result'[v] = result[v] /\ fork'[v] = fork[v] /\ next_thrd'[v] = next_thrd[v]
\* ... and worker w, all but t.
HandsKept(w, t) ==
    \A u \in Threads \ {t} :
        /\ Carries(w, u)' <=> Carries(w, u)
        /\ KeepsNext(w, u)' <=> KeepsNext(w, u)
        /\ Executing(w, u)' => Executing(w, u)

\* Worker v neither executes thread t nor is about to.
Apart(v, t) == thrd[v] = t => wpc[v] \notin {"fetched", "claim", "enter", "run", "store", "requeue"}

\* A thread whose places are the same is held as before.
LEMMA HeldKept ==
  ASSUME NEW u \in Threads, Held(u), DeadIsTerminated(u),
         word'[u] = word[u], queued'[u] = queued[u],
         terminated_items'[u] = terminated_items[u], u \in heap' <=> u \in heap,
         \A v \in Workers : (Carries(v, u)' <=> Carries(v, u))
                              /\ (KeepsNext(v, u)' <=> KeepsNext(v, u)),
         \A q \in Requests : Schedules(q, u)' <=> Schedules(q, u)
  PROVE  Held(u)' /\ DeadIsTerminated(u)'
<1>1. DeadIsTerminated(u)'
  BY Zenon DEF DeadIsTerminated
<1>2. /\ Nowhere(u) => Nowhere(u)'
      /\ InQueue(u) => InQueue(u)'
      /\ \A w \in Workers : InHand(w, u) => InHand(w, u)'
      /\ \A w \in Workers : KeptNext(w, u) => KeptNext(w, u)'
      /\ \A r \in Requests : InRequest(r, u) => InRequest(r, u)'
  BY Zenon DEF Nowhere, InQueue, InHand, KeptNext, InRequest
<1>3. Held(u)'
  BY <1>2, Zenon DEF Held
<1>4. QED
  BY <1>1, <1>3

\* What a worker knows stays true if neither it nor the word of its thread changes.
LEMMA WorkerKept ==
  ASSUME NEW v \in Workers, NEW t \in Threads, WorkerKnows(v), ThreadsKept(t), Apart(v, t),
         wpc'[v] = wpc[v], thrd'[v] = thrd[v], orig'[v] = orig[v],
         result'[v] = result[v], fork'[v] = fork[v]
  PROVE  WorkerKnows(v)'
<1>1. CASE thrd[v] = t
  BY <1>1, SMTT(40) DEF WorkerKnows, Apart
<1>2. CASE thrd[v] # t
  BY <1>2, SMTT(40) DEF WorkerKnows, ThreadsKept
<1>3. QED
  BY <1>1, <1>2

\* A step of worker w that moves thread t preserves custody if both are well
\* afterwards and nobody else was about to execute the thread.
LEMMA WorkerMoves ==
  ASSUME Custody, NEW w \in Workers, NEW t \in Threads,
         UNCHANGED << rpc, target, seen >>,
         ThreadsKept(t), WorkersKept(w), HandsKept(w, t),
         \A v \in Workers \ {w} : Apart(v, t),
         Held(t)', DeadIsTerminated(t)', WorkerKnows(w)'
  PROVE  Custody'
<1>0. /\ \A u \in Threads : Held(u) /\ DeadIsTerminated(u)
      /\ \A v \in Workers : WorkerKnows(v)
      /\ \A q \in Requests : RequestKnows(q)
      /\ ExecutedOnce
  BY Zenon DEF Custody
<1>1. ASSUME NEW v \in Workers \ {w}, NEW u \in Threads
      PROVE  /\ Carries(v, u)' <=> Carries(v, u)
             /\ KeepsNext(v, u)' <=> KeepsNext(v, u)
             /\ Executing(v, u)' <=> Executing(v, u)
  BY Zenon DEF WorkersKept, Carries, KeepsNext, Executing
<1>2. ASSUME NEW u \in Threads
      PROVE  Held(u)' /\ DeadIsTerminated(u)'
  <2>1. CASE u = t
    BY <2>1, Zenon
  <2>2. CASE u # t
    <3>1. u \in Threads \ {t}
      BY <2>2, Zenon
    <3>2. /\ word'[u] = word[u] /\ queued'[u] = queued[u]
          /\ terminated_items'[u] = terminated_items[u] /\ (u \in heap' <=> u \in heap)
      BY <3>1, Zenon DEF ThreadsKept
    <3>3. \A v \in Workers : (Carries(v, u)' <=> Carries(v, u))
                               /\ (KeepsNext(v, u)' <=> KeepsNext(v, u))
      BY <1>1, <3>1, Zenon DEF HandsKept
    <3>4. \A q \in Requests : Schedules(q, u)' <=> Schedules(q, u)
      BY Zenon DEF Schedules
    <3>5. QED
      BY <1>0, <3>2, <3>3, <3>4, HeldKept, Zenon
  <2>3. QED
    BY <2>1, <2>2, Zenon
<1>3. ASSUME NEW v \in Workers
      PROVE  WorkerKnows(v)'
  <2>1. CASE v = w
    BY <2>1, Zenon
  <2>2. CASE v # w
    <3>1. v \in Workers \ {w}
      BY <2>2, Zenon
    <3>2. /\ wpc'[v] = wpc[v] /\ thrd'[v] = thrd[v] /\ orig'[v] = orig[v]
          /\ result'[v] = result[v] /\ fork'[v] = fork[v]
      BY <3>1, Zenon DEF WorkersKept
    <3>3. Apart(v, t)
      BY <3>1, Zenon
    <3>4. QED
      BY <1>0, <3>2, WorkerKept, Zenon
  <2>3. QED
    BY <2>1, <2>2, Zenon
<1>4. \A q \in Requests : RequestKnows(q)'
  BY <1>0, Zenon DEF RequestKnows
<1>5. ExecutedOnce'
  <2>1. \A v \in Workers \ {w} : ~Executing(v, t)
    BY SMTT(40) DEF Apart, Executing
  <2>2. \A v \in Workers \ {w}, u \in Threads : Executing(v, u)' => Executing(v, u)
    BY <1>1, Zenon
  <2>3. \A u \in Threads : Executing(w, u)' => Executing(w, u) \/ u = t
    BY Zenon DEF HandsKept
  <2>4. QED
    BY <1>0, <2>1, <2>2, <2>3, SMTT(40) DEF ExecutedOnce
<1>6. QED
  BY <1>2, <1>3, <1>4, <1>5, Zenon DEF Custody

\* A step of somebody else that moves thread t preserves custody if the thread is
\* well afterwards and no worker was about to execute it.
LEMMA OthersMove ==
  ASSUME Custody, NEW t \in Threads, UNCHANGED workerVars, ThreadsKept(t),
         \A q \in Requests, u \in Threads \ {t} : Schedules(q, u)' <=> Schedules(q, u),
         \A q \in Requests : RequestKnows(q)',
         \A v \in Workers : Apart(v, t),
         Held(t)', DeadIsTerminated(t)'
  PROVE  Custody'
<1>0. /\ \A u \in Threads : Held(u) /\ DeadIsTerminated(u)
      /\ \A v \in Workers : WorkerKnows(v)
      /\ ExecutedOnce
  BY Zenon DEF Custody
<1>1. \A v \in Workers, u \in Threads : (Carries(v, u)' <=> Carries(v, u))
                                          /\ (KeepsNext(v, u)' <=> KeepsNext(v, u))
  BY Zenon DEF workerVars, Carries, KeepsNext
<1>2. ASSUME NEW u \in Threads
      PROVE  Held(u)' /\ DeadIsTerminated(u)'
  <2>1. CASE u = t
    BY <2>1, Zenon
  <2>2. CASE u # t
    <3>1. u \in Threads \ {t}
      BY <2>2, Zenon
    <3>2. /\ word'[u] = word[u] /\ queued'[u] = queued[u]
          /\ terminated_items'[u] = terminated_items[u] /\ (u \in heap' <=> u \in heap)
      BY <3>1, Zenon DEF ThreadsKept
    <3>3. QED
      BY <1>0, <1>1, <3>2, HeldKept, Zenon
  <2>3. QED
    BY <2>1, <2>2, Zenon
<1>3. ASSUME NEW v \in Workers
      PROVE  WorkerKnows(v)'
  <2>1. /\ wpc'[v] = wpc[v] /\ thrd'[v] = thrd[v] /\ orig'[v] = orig[v]
        /\ result'[v] = result[v] /\ fork'[v] = fork[v]
    BY Zenon DEF workerVars
  <2>2. QED
    BY <1>0, <2>1, WorkerKept, Zenon
<1>4. ExecutedOnce'
  BY <1>0, Zenon DEF workerVars, ExecutedOnce, Executing
<1>5. QED
  BY <1>2, <1>3, <1>4, Zenon DEF Custody

-----------------------------------------------------------------------------
(* Where a thread is, seen from those who have it.                         *)

\* No worker is about to execute a thread that is not active and in no hands.
LEMMA NobodyNear ==
  ASSUME Custody, NEW t \in Threads, word[t].state # "active",
         NEW v \in Workers, ~Carries(v, t)
  PROVE  Apart(v, t)
<1>1. WorkerKnows(v)
  BY Zenon DEF Custody
<1>2. QED
  BY <1>1, SMTT(40) DEF WorkerKnows, Carries, Apart

\* A worker that carries a thread has it alone.
LEMMA CarrierAlone ==
  ASSUME Custody, NEW w \in Workers, NEW t \in Threads, Carries(w, t)
  PROVE  /\ word[t].state = "pending" /\ InHand(w, t)
         /\ \A v \in Workers \ {w} : Apart(v, t)
<1>1. Held(t)
  BY Zenon DEF Custody
<1>2. word[t].state = "pending" /\ InHand(w, t)
  BY <1>1, ZenonT(30) DEF Held, Nowhere, InQueue, InHand, KeptNext, InRequest
<1>3. \A v \in Workers \ {w} : ~Carries(v, t)
  BY <1>2, Zenon DEF InHand
<1>4. word[t].state # "active"
  BY <1>2
<1>5. QED
  BY <1>2, <1>3, NobodyNear, Zenon

\* A worker that executes a thread has it alone.
LEMMA ExecutorAlone ==
  ASSUME Custody, NEW w \in Workers, NEW t \in Threads, Executing(w, t)
  PROVE  /\ word[t].state = "active" /\ Nowhere(t) /\ fork[w] # t
         /\ \A v \in Workers \ {w} : Apart(v, t)
<1>1. Held(t) /\ ExecutedOnce /\ \A v \in Workers : WorkerKnows(v)
  BY Zenon DEF Custody
<1>2. word[t].state = "active"
  BY <1>1, Zenon DEF WorkerKnows, Executing
<1>3. Nowhere(t)
  BY <1>1, <1>2 DEF Held
<1>4. ASSUME NEW v \in Workers \ {w}
      PROVE  Apart(v, t)
  <2>1. ~Carries(v, t) /\ ~Executing(v, t)
    BY <1>1, <1>3, Zenon DEF Nowhere, ExecutedOnce
  <2>2. QED
    BY <2>1, SMTT(40) DEF Carries, Executing, Apart
<1>5. QED
  BY <1>2, <1>3, <1>4, Zenon DEF Nowhere, KeepsNext

\* A thread that is neither pending nor active is nowhere, and no worker is near it.
LEMMA AsleepAlone ==
  ASSUME Custody, NEW t \in Threads, word[t].state \in {"suspended", "terminated"}
  PROVE  Nowhere(t) /\ \A v \in Workers : Apart(v, t)
<1>1. Held(t) /\ word[t].state # "pending" /\ word[t].state # "active"
  BY Zenon DEF Custody
<1>2. Nowhere(t)
  BY <1>1, Zenon DEF Held
<1>3. QED
  BY <1>2, NobodyNear, Zenon DEF Nowhere

\* A step that leaves the threads and the workers alone and schedules nothing
\* preserves custody.
LEMMA CustodyKept ==
  ASSUME Custody, UNCHANGED << word, queued, terminated_items, heap, workerVars >>,
         \A q \in Requests, u \in Threads : Schedules(q, u)' <=> Schedules(q, u),
         \A q \in Requests : RequestKnows(q)'
  PROVE  Custody'
<1>0. /\ \A t \in Threads : Held(t) /\ DeadIsTerminated(t)
      /\ \A w \in Workers : WorkerKnows(w)
  BY Zenon DEF Custody
<1>1. \A v \in Workers, u \in Threads : (Carries(v, u)' <=> Carries(v, u))
                                          /\ (KeepsNext(v, u)' <=> KeepsNext(v, u))
  BY Zenon DEF workerVars, Carries, KeepsNext
<1>2. \A u \in Threads : Held(u)' /\ DeadIsTerminated(u)'
  BY <1>0, <1>1, HeldKept, Zenon
<1>3. \A v \in Workers : WorkerKnows(v)'
  BY <1>0, Zenon DEF workerVars, WorkerKnows
<1>4. ExecutedOnce'
  BY Zenon DEF Custody, ExecutedOnce, Executing, workerVars
<1>5. QED
  BY <1>2, <1>3, <1>4, Zenon DEF Custody

\* What a thread does of its own free will preserves custody: it begins to wait, or
\* forks a child, which the worker that executes it keeps for later.
LEMMA CustodyThread ==
  ASSUME Shape, Custody, NEW x \in Workers, NEW y \in Threads, ThreadStep(x, y)
  PROVE  Custody'
<1>o. /\ word \in [Threads -> Words] /\ queued \in [Threads -> Nat]
      /\ terminated_items \in [Threads -> Nat] /\ heap \in SUBSET Threads
  BY Zenon DEF Shape
<1>w. /\ wpc \in [Workers -> WorkerPCs] /\ thrd \in [Workers -> Threads \cup {NoThread}]
      /\ orig \in [Workers -> Words] /\ result \in [Workers -> States]
      /\ fork \in [Workers -> Threads \cup {NoThread}]
      /\ next_thrd \in [Workers -> Threads \cup {NoThread}]
  BY Zenon DEF Shape
<1>c. /\ \A t \in Threads : Held(t) /\ DeadIsTerminated(t)
      /\ \A w \in Workers : WorkerKnows(w)
      /\ \A r \in Requests : RequestKnows(r)
  BY Zenon DEF Custody
<1>0. NoThread \notin Threads
  BY ConstantsAssumption, Zenon
<1>1. ASSUME NEW w \in Workers, NEW t \in Threads, NEW u \in Threads, Fork(w, t, u)
      PROVE  Custody'
  <2>1. word[t].state = "active" /\ word[u].state = "terminated" /\ Nowhere(u) /\ \A v \in Workers : Apart(v, u)
    <3>1. word[t].state = "active" /\ word[u].state = "terminated"
      BY <1>1, <1>c, Zenon DEF Fork, Running, Rebind, WorkerKnows, DeadIsTerminated
    <3>2. QED
      BY <3>1, AsleepAlone, Zenon
  <2>2. UNCHANGED << rpc, target, seen >> /\ ThreadsKept(u) /\ WorkersKept(w)
    BY <1>1, SMTT(40) DEF Fork, Rebind, ThreadsKept, WorkersKept, requestVars
  <2>3. HandsKept(w, u)
    BY <1>0, <1>c, <1>1, SMTT(40) DEF Fork, Running, HandsKept, Carries, KeepsNext, Executing,
       WorkerKnows
  <2>4. Held(u)'
    <3>1. KeptNext(w, u)'
      BY <1>w, <1>1, <2>1, <2>2, SMTT(40) DEF Fork, Running, Nowhere, KeptNext, Carries,
         KeepsNext, Schedules
    <3>2. word'[u].state = "pending"
      BY <1>o, <1>1, SMTT(40) DEF Fork, Rebind, Word
    <3>3. QED
      BY <3>1, <3>2, Zenon DEF Held
  <2>5. DeadIsTerminated(u)'
    BY <1>c, <1>1, SMTT(40) DEF Fork, Rebind, Word, DeadIsTerminated
  <2>6. WorkerKnows(w)'
    BY <1>w, <1>c, <1>1, <2>1, SMTT(40) DEF Fork, Running, Rebind, ComparesBeforeSetting,
       WorkerKnows
  <2>7. QED
    BY <2>1, <2>2, <2>3, <2>4, <2>5, <2>6, WorkerMoves, Zenon
<1>2. ASSUME NEW w \in Workers, NEW t \in Threads, NEW b \in BOOLEAN, BeginWait(w, t, b)
      PROVE  Custody'
  BY <1>c, CustodyKept, <1>2, Zenon DEF BeginWait, Schedules, RequestKnows,
     objectVars, requestVars
<1>3. QED
  BY <1>1, <1>2, Zenon DEF ThreadStep

\* The steps of others than the workers preserve custody: a thread is created or
\* recycled, or set_thread_state takes it from its suspension and schedules it.
LEMMA CustodyElsewhere ==
  ASSUME Shape, Custody,
         \/ \E t \in Threads : create_thread(t) \/ cleanup_terminated(t)
         \/ \E r \in Requests, t \in Threads :
              (RequestStep(r, t) \/ NewRequest(r, t)) /\ ~AbortTest(r, t) /\ ~AbortSet(r, t)
  PROVE  Custody'
<1>o. /\ word \in [Threads -> Words] /\ queued \in [Threads -> Nat]
      /\ terminated_items \in [Threads -> Nat] /\ heap \in SUBSET Threads
  BY Zenon DEF Shape
<1>q. /\ rpc \in [Requests -> RequestPCs] /\ target \in [Requests -> Threads \cup {NoThread}]
      /\ seen \in [Requests -> Words]
  BY Zenon DEF Shape
<1>c. /\ \A t \in Threads : Held(t) /\ DeadIsTerminated(t)
      /\ \A r \in Requests : RequestKnows(r)
  BY Zenon DEF Custody
<1>1. ASSUME NEW t \in Threads, create_thread(t)
      PROVE  Custody'
  <2>1. Nowhere(t) /\ \A v \in Workers : Apart(v, t)
    BY <1>1, <1>c, AsleepAlone, Zenon DEF create_thread, Rebind, DeadIsTerminated
  <2>2. ThreadsKept(t)
    BY <1>1, SMTT(40) DEF create_thread, Rebind, ThreadsKept
  <2>3. /\ UNCHANGED workerVars /\ \A q \in Requests : RequestKnows(q)'
        /\ \A q \in Requests, u \in Threads : Schedules(q, u)' <=> Schedules(q, u)
    BY <1>c, <1>1, Zenon DEF create_thread, requestVars, RequestKnows, Schedules
  <2>4. Held(t)'
    <3>1. \A v \in Workers : ~Carries(v, t)' /\ ~KeepsNext(v, t)'
      BY <2>1, <2>3, Zenon DEF Nowhere, workerVars, Carries, KeepsNext
    <3>2. queued'[t] = 1 /\ word'[t].state = "pending"
      BY <1>o, <1>1, <2>1, SMTT(40) DEF create_thread, Rebind, Word, Nowhere
    <3>3. InQueue(t)'
      BY <2>1, <2>3, <3>1, <3>2, Zenon DEF Nowhere, InQueue
    <3>4. QED
      BY <3>2, <3>3, Zenon DEF Held
  <2>5. DeadIsTerminated(t)'
    BY <1>c, <1>1, SMTT(40) DEF create_thread, Rebind, Word, DeadIsTerminated
  <2>6. QED
    BY <2>1, <2>2, <2>3, <2>4, <2>5, OthersMove, Zenon
<1>2. ASSUME NEW t \in Threads, cleanup_terminated(t)
      PROVE  Custody'
  <2>1. Nowhere(t) /\ \A v \in Workers : Apart(v, t)
    BY <1>2, <1>c, AsleepAlone, Zenon DEF cleanup_terminated, DeadIsTerminated
  <2>2. ThreadsKept(t)
    BY <1>2, SMTT(40) DEF cleanup_terminated, ThreadsKept
  <2>3. /\ UNCHANGED workerVars /\ \A q \in Requests : RequestKnows(q)'
        /\ \A q \in Requests, u \in Threads : Schedules(q, u)' <=> Schedules(q, u)
    BY <1>c, <1>2, Zenon DEF cleanup_terminated, requestVars, RequestKnows, Schedules
  <2>4. Held(t)'
    <3>1. Nowhere(t)'
      BY <1>2, <2>1, <2>3, Zenon DEF cleanup_terminated, Nowhere, workerVars, Carries,
         KeepsNext
    <3>2. word'[t].state = "terminated"
      BY <1>2, <1>c, Zenon DEF cleanup_terminated, DeadIsTerminated
    <3>3. QED
      BY <3>1, <3>2 DEF Held
  <2>5. DeadIsTerminated(t)'
    BY <1>o, <1>c, <1>2, SMTT(40) DEF cleanup_terminated, DeadIsTerminated
  <2>6. QED
    BY <2>1, <2>2, <2>3, <2>4, <2>5, OthersMove, Zenon
<1>3. ASSUME NEW r \in Requests, NEW t \in Threads, Exchange(r, t)
      PROVE  Custody'
  <2>1. Nowhere(t) /\ word[t].state = "suspended" /\ \A v \in Workers : Apart(v, t)
    BY <1>3, <1>c, AsleepAlone, Zenon DEF Exchange, RequestKnows
  <2>2. UNCHANGED workerVars /\ ThreadsKept(t)
    BY <1>3, SMTT(40) DEF Exchange, objectVars, ThreadsKept
  <2>3. /\ \A q \in Requests, u \in Threads \ {t} : Schedules(q, u)' <=> Schedules(q, u)
        /\ \A q \in Requests : Schedules(q, t)' <=> Schedules(q, t) \/ q = r
    BY <1>q, <1>3, SMTT(40) DEF Exchange, Schedules
  <2>4. \A q \in Requests : RequestKnows(q)'
    BY <1>c, <1>3, SMTT(40) DEF Exchange, RequestKnows
  <2>5. Held(t)'
    <3>1. \A v \in Workers : ~Carries(v, t)' /\ ~KeepsNext(v, t)'
      BY <2>1, <2>2, Zenon DEF Nowhere, workerVars, Carries, KeepsNext
    <3>2. queued'[t] = 0 /\ word'[t].state = "pending"
      BY <1>o, <1>3, <2>1, SMTT(40) DEF Exchange, set_state, Word, Nowhere
    <3>3. InRequest(r, t)'
      BY <2>1, <2>3, <3>1, <3>2, Zenon DEF Nowhere, InRequest
    <3>4. QED
      BY <3>2, <3>3, Zenon DEF Held
  <2>6. DeadIsTerminated(t)'
    BY <1>c, <1>3, <2>1, SMTT(40) DEF Exchange, objectVars, set_state, Word, DeadIsTerminated
  <2>7. QED
    BY <2>1, <2>2, <2>3, <2>4, <2>5, <2>6, OthersMove, Zenon
<1>4. ASSUME NEW r \in Requests, NEW t \in Threads, schedule_thread(r, t)
      PROVE  Custody'
  <2>1. word[t].state = "pending" /\ InRequest(r, t)
    <3>1. Schedules(r, t) /\ Held(t)
      BY <1>4, <1>c, Zenon DEF schedule_thread, Schedules
    <3>2. QED
      BY <3>1, ZenonT(30) DEF Held, Nowhere, InQueue, InHand, KeptNext, InRequest
  <2>2. UNCHANGED workerVars /\ ThreadsKept(t)
    BY <1>4, SMTT(40) DEF schedule_thread, objectVars, ThreadsKept
  <2>3. /\ \A q \in Requests, u \in Threads \ {t} : Schedules(q, u)' <=> Schedules(q, u)
        /\ \A q \in Requests : Schedules(q, t)' => Schedules(q, t) /\ q # r
    BY <1>q, <1>4, SMTT(40) DEF schedule_thread, Finish, Schedules
  <2>4. \A q \in Requests : RequestKnows(q)'
    BY <1>c, <1>4, SMTT(40) DEF schedule_thread, Finish, RequestKnows
  <2>5. \A v \in Workers : Apart(v, t)
    <3>1. word[t].state # "active" /\ \A v \in Workers : ~Carries(v, t)
      BY <2>1, Zenon DEF InRequest
    <3>2. QED
      BY <3>1, NobodyNear, Zenon
  <2>6. Held(t)'
    <3>1. \A v \in Workers : ~Carries(v, t)' /\ ~KeepsNext(v, t)'
      BY <2>1, <2>2, Zenon DEF InRequest, workerVars, Carries, KeepsNext
    <3>2. queued'[t] = 1 /\ word'[t].state = "pending"
      BY <1>o, <1>4, <2>1, SMTT(40) DEF schedule_thread, InRequest
    <3>3. InQueue(t)'
      BY <2>1, <2>3, <3>1, <3>2, Zenon DEF InRequest, InQueue
    <3>4. QED
      BY <3>2, <3>3, Zenon DEF Held
  <2>7. DeadIsTerminated(t)'
    BY <1>c, <1>4, SMTT(40) DEF schedule_thread, objectVars, DeadIsTerminated
  <2>8. QED
    BY <2>2, <2>3, <2>4, <2>5, <2>6, <2>7, OthersMove, Zenon
<1>5. ASSUME NEW r \in Requests, NEW t \in Threads, LoadUnchangeable(r, t)
      PROVE  Custody'
  BY <1>c, CustodyKept, <1>5, SMTT(40) DEF LoadUnchangeable, Finish, Schedules, RequestKnows,
     objectVars
<1>6. ASSUME NEW r \in Requests, NEW t \in Threads, LoadActive(r, t)
      PROVE  Custody'
  BY <1>c, CustodyKept, <1>6, SMTT(40) DEF LoadActive, Schedules, RequestKnows, objectVars
<1>7. ASSUME NEW r \in Requests, NEW t \in Threads, LoadInactive(r, t)
      PROVE  Custody'
  BY <1>q, <1>c, CustodyKept, <1>7, SMTT(40) DEF LoadInactive, ToExchange, DeadIsTerminated, Schedules, RequestKnows,
     objectVars
<1>8. ASSUME NEW r \in Requests, NEW t \in Threads, set_active_state_gives_up(r, t)
      PROVE  Custody'
  BY <1>c, CustodyKept, <1>8, SMTT(40) DEF set_active_state_gives_up, Finish, Schedules,
     RequestKnows, objectVars
<1>9. ASSUME NEW r \in Requests, NEW t \in Threads, set_active_state(r, t)
      PROVE  Custody'
  BY <1>c, CustodyKept, <1>9, SMTT(40) DEF set_active_state, Schedules, RequestKnows, objectVars
<1>10. ASSUME NEW r \in Requests, NEW t \in Threads, ExchangeFails(r, t)
      PROVE  Custody'
  BY <1>c, CustodyKept, <1>10, SMTT(40) DEF ExchangeFails, Schedules, RequestKnows, objectVars
<1>11. ASSUME NEW r \in Requests, NEW t \in Threads, TimerFires(r, t)
      PROVE  Custody'
  BY <1>q, <1>c, CustodyKept, <1>11, SMTT(40) DEF TimerFires, Call, Schedules, RequestKnows,
     objectVars
<1>12. ASSUME NEW r \in Requests, NEW t \in Threads, interrupt_thread(r, t)
      PROVE  Custody'
  BY <1>c, CustodyKept, <1>12, SMTT(40) DEF interrupt_thread, Call, Schedules, RequestKnows,
     objectVars
<1>13. ASSUME NEW r \in Requests, NEW t \in Threads, NEW x \in {"signaled", "abort"}, Notify(r, t, x)
      PROVE  Custody'
  BY <1>q, <1>c, CustodyKept, <1>13, SMTT(40) DEF Notify, Call, Schedules, RequestKnows,
     objectVars
<1>14. QED
  BY <1>1, <1>2, <1>3, <1>4, <1>5, <1>6, <1>7, <1>8, <1>9, <1>10, <1>11, <1>12, <1>13,
     ZenonT(30) DEF RequestStep, NewRequest
=============================================================================
