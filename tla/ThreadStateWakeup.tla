------------------------- MODULE ThreadStateWakeup --------------------------
(***************************************************************************)
(* Wakeups in ThreadState: none is lost, and, where every waker takes the  *)
(* registration of the thread it wakes, none is spurious.  A notification  *)
(* may find the thread still active, on its way to suspension; then the    *)
(* helper thread carries it, and must not give up before the thread is     *)
(* suspended.                                                              *)
(*                                                                         *)
(* The steps are described once, by what they do to the thread that is     *)
(* about to sleep or asleep (Quiet, Handled, Requested and the kinds of    *)
(* Handled and Requested); both invariants follow from the descriptions.   *)
(***************************************************************************)
EXTENDS ThreadStateExclusion, TLAPS

InRun(w, t) == thrd[w] = t /\ wpc[w] \in {"run", "store"}

\* The thread has announced that it suspends, and is not yet made pending again.
Suspending(t) ==
    /\ at[t] = "suspending"
    /\ word[t].state = "suspended" \/ \E w \in Workers : InRun(w, t)

\* Request r is a set_thread_state call for t that has not made it pending yet ...
Calls(r, t) == target[r] = t /\ rpc[r] \in {"load", "helper", "exchange"}
\* ... and will do so, as its helper thread is not about to give up.
Wakes(r, t) ==
    /\ Calls(r, t)
    /\ rpc[r] = "helper" /\ word[t].state = "active" => prev[r] = word[t]

SuspendedWaits(t) == word[t].state = "suspended" => at[t] = "suspending"
WakeupInFlight(t) == Suspending(t) /\ ~registered[t] => \E r \in Requests : Wakes(r, t)
WillSuspend(w) ==
    wpc[w] = "store" =>
        at[thrd[w]] = IF result[w] = "suspended" THEN "suspending" ELSE "run"
HelperOfActive(r) == rpc[r] = "helper" => prev[r].state = "active"

Wakeup ==
    /\ \A t \in Threads : SuspendedWaits(t) /\ WakeupInFlight(t)
    /\ \A w \in Workers : WillSuspend(w)
    /\ \A r \in Requests : HelperOfActive(r)

\* Only a thread that suspends is registered; the call that wakes it has taken the
\* registration, and is the only one.
SleepsOnce(t) ==
    /\ registered[t] => Suspending(t)
    /\ \A r \in Requests : Calls(r, t) => Suspending(t) /\ ~registered[t]
    /\ \A r, q \in Requests : Calls(r, t) /\ Calls(q, t) => r = q

Sleep == \A t \in Threads : SleepsOnce(t) /\ timers[t] = 0

\* Shape, and what else the wakeup invariant is about.
WakeShape ==
    /\ Shape
    /\ prev \in [Requests -> Words]
    /\ at \in [Threads -> {"run", "suspending", "resumed"}]
    /\ registered \in [Threads -> BOOLEAN]

-----------------------------------------------------------------------------
(* What the steps do.                                                      *)

\* A thread that keeps its state, or is created.
Undisturbed(u) ==
    /\ at'[u] = at[u] /\ registered'[u] = registered[u]
    /\ word'[u] = word[u] \/ (word[u].state = "terminated" /\ word'[u].state = "pending")
    /\ \A v \in Workers : InRun(v, u)' <=> InRun(v, u)

\* A step that concerns no thread that suspends.
Quiet ==
    /\ UNCHANGED << rpc, target, prev >>
    /\ \A u \in Threads : Undisturbed(u)
    /\ \A v \in Workers : wpc'[v] = "store" =>
         wpc[v] = "store" /\ thrd'[v] = thrd[v] /\ result'[v] = result[v]

\* A step of the worker that has thread t, or of the thread itself.
Handled(w, t) ==
    /\ UNCHANGED << rpc, target, prev >>
    /\ \A u \in Threads \ {t} : Undisturbed(u)
    /\ \A v \in Workers \ {w} :
         wpc'[v] = wpc[v] /\ thrd'[v] = thrd[v] /\ result'[v] = result[v] /\ Apart(v, t)
    /\ SuspendedWaits(t)' /\ WillSuspend(w)'

\* The thread is not suspending, or begins to, or goes on.
Passes(t) == ~Suspending(t) /\ ~Suspending(t)' /\ (registered'[t] => registered[t])
Begins(t) == ~Suspending(t) /\ Suspending(t)' /\ registered'[t]
GoesOn(t) ==
    /\ registered'[t] = registered[t] /\ (Suspending(t)' <=> Suspending(t))
    /\ word'[t] = word[t] \/ word'[t].state = "suspended"

\* A step of request r, whose target is or becomes t, that leaves the threads alone.
Requested(r, t) ==
    /\ UNCHANGED << word, at, wpc, thrd, result >>
    /\ \A q \in Requests \ {r} :
         rpc'[q] = rpc[q] /\ target'[q] = target[q] /\ prev'[q] = prev[q]
    /\ \A u \in Threads \ {t} :
         registered'[u] = registered[u] /\ ~Calls(r, u) /\ ~Calls(r, u)'
    /\ HelperOfActive(r)'

\* The call begins by taking the registration, or without it; it goes on, or ends.
Takes(r, t) == registered[t] /\ ~registered'[t] /\ ~Calls(r, t) /\ Wakes(r, t)'
Barges(r, t) == registered'[t] = registered[t] /\ ~Calls(r, t)
Persists(r, t) == registered'[t] = registered[t] /\ Calls(r, t) /\ Wakes(r, t)'
Ends(r, t) ==
    /\ registered'[t] = registered[t] /\ ~Calls(r, t)'
    /\ Wakes(r, t) => ~Suspending(t)

\* The exchange makes a suspended thread pending.
Wakened(r, t) ==
    /\ UNCHANGED << at, registered, wpc, thrd, result, target, prev >>
    /\ \A u \in Threads \ {t} : word'[u] = word[u]
    /\ \A q \in Requests \ {r} : rpc'[q] = rpc[q]
    /\ Calls(r, t) /\ rpc'[r] = "schedule"
    /\ Suspending(t) /\ word'[t].state = "pending" /\ ~Suspending(t)'

-----------------------------------------------------------------------------
(* Both invariants are preserved by such steps.                            *)

\* A thread that is undisturbed suspends as before.
LEMMA SuspendingKept ==
  ASSUME NEW u \in Threads, Undisturbed(u)
  PROVE  /\ Suspending(u)' <=> Suspending(u)
         /\ SuspendedWaits(u) => SuspendedWaits(u)'
<1>1. word'[u].state = "suspended" <=> word[u].state = "suspended"
  BY Zenon DEF Undisturbed
<1>2. QED
  BY <1>1, Zenon DEF Undisturbed, Suspending, SuspendedWaits

\* If no request moves either, its wakeup is in flight as before, and it sleeps once.
LEMMA WakeupKept ==
  ASSUME NEW u \in Threads, Undisturbed(u), UNCHANGED << rpc, target, prev >>
  PROVE  /\ WakeupInFlight(u) => WakeupInFlight(u)'
         /\ SleepsOnce(u) => SleepsOnce(u)'
<1>1. /\ Suspending(u)' <=> Suspending(u)
      /\ registered'[u] = registered[u]
  BY SuspendingKept, Zenon DEF Undisturbed
<1>2. \A r \in Requests : Calls(r, u)' <=> Calls(r, u)
  BY Zenon DEF Calls
<1>3. ASSUME NEW r \in Requests, Wakes(r, u)
      PROVE  Wakes(r, u)'
  BY <1>3, Zenon DEF Undisturbed, Wakes, Calls
<1>4. QED
  BY <1>1, <1>2, <1>3, Zenon DEF WakeupInFlight, SleepsOnce

\* A quiet step preserves them.
LEMMA QuietKeeps ==
  ASSUME Custody, Quiet
  PROVE  /\ Wakeup => Wakeup'
         /\ (\A u \in Threads : SleepsOnce(u)) => \A u \in Threads : SleepsOnce(u)'
<1>1. UNCHANGED << rpc, target, prev >> /\ \A u \in Threads : Undisturbed(u)
  BY Zenon DEF Quiet
<1>2. ASSUME NEW v \in Workers, WillSuspend(v)
      PROVE  WillSuspend(v)'
  <2>1. wpc[v] = "store" => thrd[v] \in Threads
    BY Zenon DEF Custody, WorkerKnows
  <2>2. wpc[v] = "store" => at'[thrd[v]] = at[thrd[v]]
    BY <1>1, <2>1, Zenon DEF Undisturbed
  <2>3. wpc'[v] = "store" => wpc[v] = "store" /\ thrd'[v] = thrd[v] /\ result'[v] = result[v]
    BY Zenon DEF Quiet
  <2>4. QED
    BY <1>2, <2>2, <2>3, Zenon DEF WillSuspend
<1>3. ASSUME NEW r \in Requests, HelperOfActive(r)
      PROVE  HelperOfActive(r)'
  BY <1>1, <1>3, Zenon DEF HelperOfActive
<1>4. QED
  BY <1>1, <1>2, <1>3, SuspendingKept, WakeupKept, Zenon DEF Wakeup

\* So does a step of the worker that has the thread.
LEMMA HandledKeeps ==
  ASSUME Custody, NEW w \in Workers, NEW t \in Threads, Handled(w, t),
         Passes(t) \/ Begins(t) \/ GoesOn(t)
  PROVE  /\ Wakeup => Wakeup'
         /\ (\A u \in Threads : SleepsOnce(u)) => \A u \in Threads : SleepsOnce(u)'
<1>1. /\ UNCHANGED << rpc, target, prev >>
      /\ \A u \in Threads \ {t} : Undisturbed(u)
      /\ SuspendedWaits(t)' /\ WillSuspend(w)'
  BY Zenon DEF Handled
<1>2. ASSUME NEW v \in Workers \ {w}, WillSuspend(v)
      PROVE  WillSuspend(v)'
  <2>1. wpc[v] = "store" => thrd[v] \in Threads
    BY Zenon DEF Custody, WorkerKnows
  <2>2. /\ wpc'[v] = wpc[v] /\ thrd'[v] = thrd[v] /\ result'[v] = result[v]
        /\ wpc[v] = "store" => thrd[v] # t
    BY Zenon DEF Handled, Apart
  <2>3. wpc[v] = "store" => at'[thrd[v]] = at[thrd[v]]
    BY <1>1, <2>1, <2>2, Zenon DEF Undisturbed
  <2>4. QED
    BY <1>2, <2>2, <2>3, Zenon DEF WillSuspend
<1>3. ASSUME NEW r \in Requests, HelperOfActive(r)
      PROVE  HelperOfActive(r)'
  BY <1>1, <1>3, Zenon DEF HelperOfActive
<1>4. \A r \in Requests : Calls(r, t)' <=> Calls(r, t)
  BY <1>1, Zenon DEF Calls
<1>5. WakeupInFlight(t) => WakeupInFlight(t)'
  <2>1. ASSUME GoesOn(t), NEW r \in Requests, Wakes(r, t)
        PROVE  Wakes(r, t)'
    BY <1>1, <2>1, Zenon DEF GoesOn, Wakes, Calls
  <2>2. QED
    BY <2>1, Zenon DEF WakeupInFlight, Passes, Begins, GoesOn
<1>6. SleepsOnce(t) => SleepsOnce(t)'
  BY <1>4, Zenon DEF SleepsOnce, Passes, Begins, GoesOn
<1>7. ASSUME NEW u \in Threads
      PROVE  /\ SuspendedWaits(u) /\ WakeupInFlight(u) => SuspendedWaits(u)' /\ WakeupInFlight(u)'
             /\ SleepsOnce(u) => SleepsOnce(u)'
  <2>1. CASE u = t
    BY <1>1, <1>5, <1>6, <2>1, Zenon
  <2>2. CASE u # t
    <3>1. Undisturbed(u)
      BY <1>1, <2>2, Zenon
    <3>2. QED
      BY <1>1, <3>1, SuspendingKept, WakeupKept, Zenon
  <2>3. QED
    BY <2>1, <2>2, Zenon
<1>8. \A v \in Workers : WillSuspend(v) => WillSuspend(v)'
  BY <1>1, <1>2, Zenon
<1>9. QED
  BY <1>3, <1>7, <1>8, Zenon DEF Wakeup

\* So does a step of a request; but a call that begins without the registration need
\* not find the thread asleep.
LEMMA RequestedKeeps ==
  ASSUME NEW r \in Requests, NEW t \in Threads, Requested(r, t),
         Takes(r, t) \/ Barges(r, t) \/ Persists(r, t) \/ Ends(r, t)
  PROVE  /\ Wakeup => Wakeup'
         /\ /\ Takes(r, t) \/ Persists(r, t) \/ Ends(r, t)
            /\ \A u \in Threads : SleepsOnce(u)
            => \A u \in Threads : SleepsOnce(u)'
<1>1. \A u \in Threads : /\ Suspending(u)' <=> Suspending(u)
                         /\ SuspendedWaits(u)' <=> SuspendedWaits(u)
  BY Zenon DEF Requested, Suspending, SuspendedWaits, InRun
<1>2. ASSUME NEW q \in Requests \ {r}
      PROVE  /\ \A u \in Threads : (Calls(q, u)' <=> Calls(q, u)) /\ (Wakes(q, u)' <=> Wakes(q, u))
             /\ HelperOfActive(q)' <=> HelperOfActive(q)
  BY Zenon DEF Requested, Calls, Wakes, HelperOfActive
<1>3. ASSUME NEW u \in Threads \ {t}
      PROVE  /\ registered'[u] = registered[u]
             /\ ~Calls(r, u) /\ ~Calls(r, u)' /\ ~Wakes(r, u)
  BY Zenon DEF Requested, Wakes
<1>4. ASSUME NEW u \in Threads \ {t}
      PROVE  /\ WakeupInFlight(u) => WakeupInFlight(u)'
             /\ SleepsOnce(u) => SleepsOnce(u)'
  BY <1>1, <1>2, <1>3, Zenon DEF WakeupInFlight, SleepsOnce
<1>5. WakeupInFlight(t) => WakeupInFlight(t)'
  <2>1. CASE Takes(r, t) \/ Persists(r, t)
    BY <2>1, Zenon DEF Takes, Persists, WakeupInFlight
  <2>2. CASE Barges(r, t) \/ Ends(r, t)
    BY <1>1, <1>2, <2>2, Zenon DEF Barges, Ends, Wakes, WakeupInFlight
  <2>3. QED
    BY <2>1, <2>2, Zenon
<1>6. ASSUME Takes(r, t) \/ Persists(r, t) \/ Ends(r, t), SleepsOnce(t)
      PROVE  SleepsOnce(t)'
  <2>1. CASE Takes(r, t)
    BY <1>1, <1>2, <1>6, <2>1, Zenon DEF Takes, SleepsOnce
  <2>2. CASE Persists(r, t)
    BY <1>1, <1>2, <1>6, <2>2, Zenon DEF Persists, SleepsOnce
  <2>3. CASE Ends(r, t)
    BY <1>1, <1>2, <1>6, <2>3, Zenon DEF Ends, SleepsOnce
  <2>4. QED
    BY <1>6, <2>1, <2>2, <2>3, Zenon
<1>7. ASSUME Wakeup
      PROVE  Wakeup'
  <2>1. \A u \in Threads : SuspendedWaits(u)' /\ WakeupInFlight(u)'
    BY <1>1, <1>4, <1>5, <1>7, Zenon DEF Wakeup
  <2>2. \A v \in Workers : WillSuspend(v)'
    BY <1>7, Zenon DEF Wakeup, WillSuspend, Requested
  <2>3. \A q \in Requests : HelperOfActive(q)'
    BY <1>2, <1>7, Zenon DEF Wakeup, Requested
  <2>4. QED
    BY <2>1, <2>2, <2>3, Zenon DEF Wakeup
<1>8. QED
  BY <1>4, <1>6, <1>7, Zenon

\* So does the exchange.
LEMMA WakenedKeeps ==
  ASSUME NEW r \in Requests, NEW t \in Threads, Wakened(r, t)
  PROVE  /\ Wakeup => Wakeup'
         /\ (\A u \in Threads : SleepsOnce(u)) => \A u \in Threads : SleepsOnce(u)'
<1>1. ASSUME NEW u \in Threads \ {t}
      PROVE  /\ registered'[u] = registered[u] /\ ~Calls(r, u) /\ ~Calls(r, u)'
             /\ Suspending(u)' <=> Suspending(u)
             /\ SuspendedWaits(u)' <=> SuspendedWaits(u)
  BY Zenon DEF Wakened, Calls, Suspending, SuspendedWaits, InRun
<1>2. ASSUME NEW q \in Requests \ {r}, NEW u \in Threads
      PROVE  /\ Calls(q, u)' <=> Calls(q, u)
             /\ u # t => (Wakes(q, u)' <=> Wakes(q, u))
  BY Zenon DEF Wakened, Calls, Wakes
<1>3. ASSUME NEW u \in Threads \ {t}
      PROVE  /\ WakeupInFlight(u) => WakeupInFlight(u)'
             /\ SleepsOnce(u) => SleepsOnce(u)'
  BY <1>1, <1>2, Zenon DEF WakeupInFlight, SleepsOnce, Wakes
<1>4. /\ ~Suspending(t)' /\ ~Calls(r, t)' /\ Calls(r, t)
      /\ registered'[t] = registered[t] /\ word'[t].state # "suspended"
  BY Zenon DEF Wakened, Calls
<1>5. SleepsOnce(t) => SleepsOnce(t)'
  BY <1>2, <1>4, Zenon DEF SleepsOnce
<1>6. ASSUME Wakeup
      PROVE  Wakeup'
  <2>1. \A u \in Threads : SuspendedWaits(u)' /\ WakeupInFlight(u)'
    BY <1>1, <1>3, <1>4, <1>6, Zenon DEF Wakeup, SuspendedWaits, WakeupInFlight
  <2>2. \A v \in Workers : WillSuspend(v)'
    BY <1>6, Zenon DEF Wakeup, WillSuspend, Wakened
  <2>3. \A q \in Requests : HelperOfActive(q)'
    BY <1>6, Zenon DEF Wakeup, Wakened, HelperOfActive
  <2>4. QED
    BY <2>1, <2>2, <2>3, Zenon DEF Wakeup
<1>7. QED
  BY <1>3, <1>5, <1>6, Zenon

-----------------------------------------------------------------------------
(* Every step is one of them.                                              *)

\* Most steps of a worker that has no thread running are quiet.
LEMMA QuietStep ==
  ASSUME WakeShape, Custody
  PROVE  /\ \A w \in Workers, t \in Threads :
              take_next_thrd(w, t) \/ get_next_thread(w, t) \/ FoundPending(w, t)
              \/ schedule_thread_last(w, t) => Quiet
         /\ \A t \in Threads : create_thread(t) \/ cleanup_terminated(t) => Quiet
         /\ UNCHANGED vars => Quiet
<1> USE DEF objectVars, workerVars, requestVars, progVars
<1>0. word \in [Threads -> Words] /\ wpc \in [Workers -> WorkerPCs]
      /\ thrd \in [Workers -> Threads \cup {NoThread}]
  BY Zenon DEF WakeShape, Shape
<1>1. ASSUME NEW w \in Workers, NEW t \in Threads, take_next_thrd(w, t)
      PROVE  Quiet
  BY <1>0, <1>1, Zenon DEF take_next_thrd, Quiet, Undisturbed, InRun
<1>2. ASSUME NEW w \in Workers, NEW t \in Threads, get_next_thread(w, t)
      PROVE  Quiet
  BY <1>0, <1>2, Zenon DEF get_next_thread, Quiet, Undisturbed, InRun
<1>3. ASSUME NEW w \in Workers, NEW t \in Threads, FoundPending(w, t)
      PROVE  Quiet
  BY <1>0, <1>3, Zenon DEF FoundPending, Quiet, Undisturbed, InRun
<1>4. ASSUME NEW w \in Workers, NEW t \in Threads, schedule_thread_last(w, t)
      PROVE  Quiet
  BY <1>0, <1>4, SMTT(40) DEF schedule_thread_last, GoIdle, Quiet, Undisturbed, InRun
<1>5. ASSUME NEW t \in Threads, create_thread(t)
      PROVE  Quiet
  <2>1. word[t].state = "terminated"
    BY <1>5, Zenon DEF create_thread, Rebind, Custody, DeadIsTerminated
  <2>2. QED
    BY <1>0, <1>5, <2>1, Zenon DEF create_thread, Rebind, Word, Quiet, Undisturbed, InRun
<1>6. ASSUME NEW t \in Threads, cleanup_terminated(t)
      PROVE  Quiet
  BY <1>6, Zenon DEF cleanup_terminated, Quiet, Undisturbed, InRun
<1>7. CASE UNCHANGED vars
  BY <1>7, Zenon DEF vars, Quiet, Undisturbed, InRun
<1>8. QED
  BY <1>1, <1>2, <1>3, <1>4, <1>5, <1>6, <1>7, Zenon

\* The other steps of a worker or a thread handle one thread, of which no other worker
\* is near.
LEMMA HandledStep ==
  ASSUME ComparesBeforeSetting, WakeShape, Custody, Wakeup, NEW w \in Workers, NEW t \in Threads
  PROVE  /\ \/ Claim(w, t) \/ Enter(w, t) \/ EndWait(w, t) \/ StorePending(w, t)
            \/ StoreTerminated(w, t) \/ \E u \in Threads : Fork(w, t, u)
            => Handled(w, t) /\ Passes(t)
         /\ (\E b \in BOOLEAN : BeginWait(w, t, b)) => Handled(w, t) /\ Begins(t)
         /\ (\E s \in States : Return(w, t, s)) \/ StoreSuspended(w, t)
            => Handled(w, t) /\ GoesOn(t)
<1> USE DEF objectVars, workerVars, requestVars, progVars
<1>o. word \in [Threads -> Words] /\ wpc \in [Workers -> WorkerPCs]
      /\ thrd \in [Workers -> Threads \cup {NoThread}] /\ result \in [Workers -> States]
  BY Zenon DEF WakeShape, Shape
<1>p. /\ at \in [Threads -> {"run", "suspending", "resumed"}]
      /\ registered \in [Threads -> BOOLEAN]
  BY Zenon DEF WakeShape
<1>w. WillSuspend(w) /\ WorkerKnows(w)
  BY Zenon DEF Wakeup, Custody
<1>e. ASSUME Executing(w, t)
      PROVE  word[t].state = "active" /\ \A v \in Workers \ {w} : Apart(v, t)
  BY <1>e, ExecutorAlone, Zenon
<1>s. ASSUME word[t].state # "suspended", \A v \in Workers \ {w} : Apart(v, t)
      PROVE  Suspending(t) => at[t] = "suspending" /\ InRun(w, t)
  BY <1>s, Zenon DEF Suspending, InRun, Apart
<1>1. ASSUME Claim(w, t)
      PROVE  Handled(w, t) /\ Passes(t)
  <2>1. word[t].state = "pending" /\ \A v \in Workers \ {w} : Apart(v, t)
    <3>1. Carries(w, t)
      BY <1>1, Zenon DEF Claim, Carries
    <3>2. QED
      BY <3>1, CarrierAlone, Zenon
  <2>2. \A x \in Threads \ {t} : Undisturbed(x)
    BY <1>1, SMTT(40) DEF Claim, Undisturbed, InRun
  <2>3. SuspendedWaits(t)' /\ WillSuspend(w)'
    BY <1>1, <2>1, SMTT(40) DEF Claim, set_state_tagged, Word, SuspendedWaits, WillSuspend
  <2>4. \A v \in Workers \ {w} : wpc'[v] = wpc[v] /\ thrd'[v] = thrd[v] /\ result'[v] = result[v]
    BY <1>1, SMTT(40) DEF Claim
  <2>5. Passes(t)
    BY <1>s, <1>1, <2>1, SMTT(40) DEF Claim, set_state_tagged, Word, Passes, Suspending, InRun
  <2>6. QED
    BY <1>1, <2>1, <2>2, <2>3, <2>4, <2>5, Zenon DEF Claim, Handled
<1>2. ASSUME Enter(w, t)
      PROVE  Handled(w, t) /\ Passes(t)
  <2>1. word[t].state = "active" /\ \A v \in Workers \ {w} : Apart(v, t)
    BY <1>e, <1>2, Zenon DEF Enter, Executing
  <2>2. \A x \in Threads \ {t} : Undisturbed(x)
    BY <1>2, SMTT(40) DEF Enter, Undisturbed, InRun
  <2>3. SuspendedWaits(t)' /\ WillSuspend(w)'
    BY <1>2, <2>1, SMTT(40) DEF Enter, Word, SuspendedWaits, WillSuspend
  <2>4. \A v \in Workers \ {w} : wpc'[v] = wpc[v] /\ thrd'[v] = thrd[v] /\ result'[v] = result[v]
    BY <1>2, SMTT(40) DEF Enter
  <2>5. Passes(t)
    BY <1>p, <1>s, <1>2, <2>1, Zenon DEF Enter, Passes, Suspending, InRun
  <2>6. QED
    BY <1>2, <2>1, <2>2, <2>3, <2>4, <2>5, Zenon DEF Enter, Handled
<1>3. ASSUME EndWait(w, t)
      PROVE  Handled(w, t) /\ Passes(t)
  <2>1. word[t].state = "active" /\ \A v \in Workers \ {w} : Apart(v, t)
    BY <1>e, <1>3, Zenon DEF EndWait, Running, Executing
  <2>2. \A x \in Threads \ {t} : Undisturbed(x)
    BY <1>3, SMTT(40) DEF EndWait, Undisturbed, InRun
  <2>3. SuspendedWaits(t)' /\ WillSuspend(w)'
    BY <1>3, <2>1, Zenon DEF EndWait, Running, SuspendedWaits, WillSuspend
  <2>4. \A v \in Workers \ {w} : wpc'[v] = wpc[v] /\ thrd'[v] = thrd[v] /\ result'[v] = result[v]
    BY <1>3, Zenon DEF EndWait
  <2>5. Passes(t)
    BY <1>3, SMTT(40) DEF EndWait, Running, Passes, Suspending
  <2>6. QED
    BY <1>3, <2>1, <2>2, <2>3, <2>5, Zenon DEF EndWait, Handled
<1>4. ASSUME StorePending(w, t)
      PROVE  Handled(w, t) /\ Passes(t)
  <2>1. word[t].state = "active" /\ \A v \in Workers \ {w} : Apart(v, t)
    BY <1>e, <1>4, Zenon DEF StorePending, Executing
  <2>2. \A x \in Threads \ {t} : Undisturbed(x)
    BY <1>4, SMTT(40) DEF StorePending, restore_state, Word, Undisturbed, InRun
  <2>3. SuspendedWaits(t)' /\ WillSuspend(w)'
    BY <1>w, <1>4, <2>1, SMTT(40) DEF StorePending, restore_state, Word, SuspendedWaits,
       WillSuspend
  <2>4. \A v \in Workers \ {w} : wpc'[v] = wpc[v] /\ thrd'[v] = thrd[v] /\ result'[v] = result[v]
    BY <1>4, SMTT(40) DEF StorePending
  <2>5. Passes(t)
    BY <1>w, <1>4, Zenon DEF StorePending, Passes, Suspending, WillSuspend
  <2>6. QED
    BY <1>4, <2>1, <2>2, <2>3, <2>4, <2>5, Zenon DEF StorePending, Handled
<1>5. ASSUME StoreTerminated(w, t)
      PROVE  Handled(w, t) /\ Passes(t)
  <2>1. word[t].state = "active" /\ \A v \in Workers \ {w} : Apart(v, t)
    BY <1>e, <1>5, Zenon DEF StoreTerminated, Executing
  <2>2. \A x \in Threads \ {t} : Undisturbed(x)
    BY <1>o, <1>5, Zenon DEF StoreTerminated, GoIdle, Undisturbed, InRun
  <2>3. SuspendedWaits(t)' /\ WillSuspend(w)'
    BY <1>o, <1>p, <1>5, Zenon DEF StoreTerminated, GoIdle, restore_state, Word,
       SuspendedWaits, WillSuspend
  <2>4. \A v \in Workers \ {w} : wpc'[v] = wpc[v] /\ thrd'[v] = thrd[v] /\ result'[v] = result[v]
    BY <1>5, SMTT(40) DEF StoreTerminated, GoIdle
  <2>5. Passes(t)
    BY <1>p, <1>w, <1>5, Zenon DEF StoreTerminated, Passes, Suspending, Apart, WillSuspend
  <2>6. QED
    BY <1>5, <2>1, <2>2, <2>3, <2>4, <2>5, Zenon DEF StoreTerminated, Handled
<1>6. ASSUME NEW u \in Threads, Fork(w, t, u)
      PROVE  Handled(w, t) /\ Passes(t)
  <2>1. word[t].state = "active" /\ \A v \in Workers \ {w} : Apart(v, t)
    BY <1>e, <1>6, Zenon DEF Fork, Running, Executing
  <2>u. u # t /\ word[u].state = "terminated"
    BY <1>6, <2>1, Zenon DEF Fork, Rebind, Custody, DeadIsTerminated
  <2>2. \A x \in Threads \ {t} : Undisturbed(x)
    BY <1>6, <2>u, SMTT(40) DEF Fork, Running, Rebind, Word, Undisturbed, InRun
  <2>3. SuspendedWaits(t)' /\ WillSuspend(w)'
    BY <1>o, <1>6, <2>1, Zenon DEF Fork, Running, Rebind, Word, SuspendedWaits, WillSuspend
  <2>4. \A v \in Workers \ {w} : wpc'[v] = wpc[v] /\ thrd'[v] = thrd[v] /\ result'[v] = result[v]
    BY <1>6, SMTT(40) DEF Fork
  <2>5. Passes(t)
    BY <1>6, Zenon DEF Fork, Running, Passes, Suspending
  <2>6. QED
    BY <1>6, <2>1, <2>2, <2>3, <2>4, <2>5, Zenon DEF Fork, Handled
<1>7. ASSUME NEW b \in BOOLEAN, BeginWait(w, t, b)
      PROVE  Handled(w, t) /\ Begins(t)
  <2>1. word[t].state = "active" /\ \A v \in Workers \ {w} : Apart(v, t)
    BY <1>e, <1>7, Zenon DEF BeginWait, Running, Executing
  <2>2. \A x \in Threads \ {t} : Undisturbed(x)
    BY <1>7, SMTT(40) DEF BeginWait, Undisturbed, InRun
  <2>3. SuspendedWaits(t)' /\ WillSuspend(w)'
    BY <1>7, <2>1, Zenon DEF BeginWait, Running, SuspendedWaits, WillSuspend
  <2>4. \A v \in Workers \ {w} : wpc'[v] = wpc[v] /\ thrd'[v] = thrd[v] /\ result'[v] = result[v]
    BY <1>7, Zenon DEF BeginWait
  <2>5. Begins(t)
    BY <1>p, <1>7, Zenon DEF BeginWait, Running, Begins, Suspending, InRun
  <2>6. QED
    BY <1>7, <2>1, <2>2, <2>3, <2>5, Zenon DEF BeginWait, Handled
<1>8. ASSUME NEW s \in States, Return(w, t, s)
      PROVE  Handled(w, t) /\ GoesOn(t)
  <2>1. word[t].state = "active" /\ \A v \in Workers \ {w} : Apart(v, t)
    BY <1>e, <1>8, Zenon DEF Return, Running, Executing
  <2>2. \A x \in Threads \ {t} : Undisturbed(x)
    BY <1>8, SMTT(40) DEF Return, Running, Undisturbed, InRun
  <2>3. SuspendedWaits(t)' /\ WillSuspend(w)'
    BY <1>o, <1>8, <2>1, Zenon DEF Return, Running, SuspendedWaits, WillSuspend,
       ComparesBeforeSetting
  <2>4. \A v \in Workers \ {w} : wpc'[v] = wpc[v] /\ thrd'[v] = thrd[v] /\ result'[v] = result[v]
    BY <1>8, SMTT(40) DEF Return
  <2>5. GoesOn(t)
    BY <1>8, SMTT(40) DEF Return, Running, GoesOn, Suspending, InRun
  <2>6. QED
    BY <1>8, <2>1, <2>2, <2>3, <2>4, <2>5, Zenon DEF Return, Handled
<1>9. ASSUME StoreSuspended(w, t)
      PROVE  Handled(w, t) /\ GoesOn(t)
  <2>1. word[t].state = "active" /\ \A v \in Workers \ {w} : Apart(v, t)
    BY <1>e, <1>9, Zenon DEF StoreSuspended, Executing
  <2>2. \A x \in Threads \ {t} : Undisturbed(x)
    BY <1>o, <1>9, Zenon DEF StoreSuspended, GoIdle, Undisturbed, InRun
  <2>3. SuspendedWaits(t)' /\ WillSuspend(w)'
    BY <1>o, <1>w, <1>9, Zenon DEF StoreSuspended, GoIdle, SuspendedWaits, WillSuspend
  <2>4. \A v \in Workers \ {w} : wpc'[v] = wpc[v] /\ thrd'[v] = thrd[v] /\ result'[v] = result[v]
    BY <1>9, SMTT(40) DEF StoreSuspended, GoIdle
  <2>5. GoesOn(t)
    BY <1>o, <1>9, Zenon DEF StoreSuspended, restore_state, Word, GoesOn, Suspending, InRun
  <2>6. QED
    BY <1>9, <2>1, <2>2, <2>3, <2>4, <2>5, Zenon DEF StoreSuspended, Handled
<1>10. QED
  BY <1>1, <1>2, <1>3, <1>4, <1>5, <1>6, <1>7, <1>8, <1>9, Zenon

\* The steps of a request leave the threads alone, except for the exchange.
LEMMA RequestedStep ==
  ASSUME ComparesBeforeSetting, WakeShape, Custody, Wakeup, NEW r \in Requests, NEW t \in Threads
  PROVE  /\ (\E x \in {"signaled", "abort"} : Notify(r, t, x)) => Requested(r, t) /\ Takes(r, t)
         /\ TimerFires(r, t) \/ interrupt_thread(r, t) => Requested(r, t) /\ Barges(r, t)
         /\ LoadActive(r, t) \/ LoadInactive(r, t) \/ set_active_state(r, t) \/ ExchangeFails(r, t)
            => Requested(r, t) /\ Persists(r, t)
         /\ LoadUnchangeable(r, t) \/ set_active_state_gives_up(r, t) \/ schedule_thread(r, t)
            => Requested(r, t) /\ Ends(r, t)
         /\ Exchange(r, t) => Wakened(r, t)
<1> USE DEF objectVars, workerVars, requestVars, progVars
<1>o. word \in [Threads -> Words] /\ registered \in [Threads -> BOOLEAN]
  BY Zenon DEF WakeShape, Shape
<1>q. /\ rpc \in [Requests -> RequestPCs] /\ target \in [Requests -> Threads \cup {NoThread}]
      /\ prev \in [Requests -> Words]
  BY Zenon DEF WakeShape, Shape
<1>h. HelperOfActive(r) /\ SuspendedWaits(t)
  BY Zenon DEF Wakeup
<1>a. ASSUME word[t].state \in {"suspended", "terminated", "pending"}
      PROVE  \A v \in Workers : ~InRun(v, t)
  BY <1>a, Zenon DEF Custody, WorkerKnows, InRun
<1>0. NoThread \notin Threads
  BY ConstantsAssumption, Zenon
<1>1. ASSUME NEW x \in {"signaled", "abort"}, Notify(r, t, x)
      PROVE  Requested(r, t) /\ Takes(r, t)
  <2>1. Requested(r, t)
    BY <1>q, <1>1, SMTT(40) DEF Notify, Call, Requested, Calls, HelperOfActive
  <2>2. Takes(r, t)
    BY <1>o, <1>q, <1>1, Zenon DEF Notify, Call, Takes, Calls, Wakes, HelperOfActive
  <2>3. QED
    BY <2>1, <2>2
<1>2. ASSUME TimerFires(r, t)
      PROVE  Requested(r, t) /\ Barges(r, t)
  <2>1. Requested(r, t)
    BY <1>q, <1>2, Zenon DEF TimerFires, Call, Requested, Calls, HelperOfActive
  <2>2. Barges(r, t)
    BY <1>2, Zenon DEF TimerFires, Call, Barges, Calls, HelperOfActive
  <2>3. QED
    BY <2>1, <2>2
<1>3. ASSUME interrupt_thread(r, t)
      PROVE  Requested(r, t) /\ Barges(r, t)
  <2>1. Requested(r, t)
    BY <1>q, <1>3, Zenon DEF interrupt_thread, Call, Requested, Calls, HelperOfActive
  <2>2. Barges(r, t)
    BY <1>3, Zenon DEF interrupt_thread, Call, Barges, Calls, Wakes, HelperOfActive
  <2>3. QED
    BY <2>1, <2>2
<1>4. ASSUME LoadActive(r, t)
      PROVE  Requested(r, t) /\ Persists(r, t)
  <2>1. Requested(r, t)
    BY <1>q, <1>4, Zenon DEF LoadActive, Requested, Calls, HelperOfActive
  <2>2. Persists(r, t)
    BY <1>q, <1>4, Zenon DEF LoadActive, Persists, Calls, Wakes, HelperOfActive
  <2>3. QED
    BY <2>1, <2>2
<1>5. ASSUME LoadInactive(r, t)
      PROVE  Requested(r, t) /\ Persists(r, t)
  <2>1. Requested(r, t)
    BY <1>5, SMTT(40) DEF LoadInactive, ToExchange, Requested, Calls, HelperOfActive
  <2>2. Persists(r, t)
    BY <1>o, <1>a, <1>5, SMTT(40) DEF LoadInactive, ToExchange, Persists, Calls, Wakes,
       HelperOfActive
  <2>3. QED
    BY <2>1, <2>2
<1>6. ASSUME set_active_state(r, t)
      PROVE  Requested(r, t) /\ Persists(r, t)
  <2>1. Requested(r, t)
    BY <1>h, <1>6, SMTT(40) DEF set_active_state, Requested, Calls, HelperOfActive
  <2>2. Persists(r, t)
    BY <1>q, <1>6, Zenon DEF set_active_state, Persists, Calls, Wakes
  <2>3. QED
    BY <2>1, <2>2
<1>7. ASSUME ExchangeFails(r, t)
      PROVE  Requested(r, t) /\ Persists(r, t)
  <2>1. Requested(r, t)
    BY <1>7, SMTT(40) DEF ExchangeFails, Requested, Calls, HelperOfActive
  <2>2. Persists(r, t)
    BY <1>7, SMTT(40) DEF ExchangeFails, Persists, Calls, Wakes, HelperOfActive
  <2>3. QED
    BY <2>1, <2>2
<1>8. ASSUME LoadUnchangeable(r, t)
      PROVE  Requested(r, t) /\ Ends(r, t)
  <2>1. Requested(r, t)
    BY <1>q, <1>8, Zenon DEF LoadUnchangeable, Finish, Requested, Calls, HelperOfActive
  <2>2. Ends(r, t)
    BY <1>q, <1>a, <1>8, Zenon DEF LoadUnchangeable, Finish, Ends, Calls, HelperOfActive,
       Suspending
  <2>3. QED
    BY <2>1, <2>2
<1>9. ASSUME set_active_state_gives_up(r, t)
      PROVE  Requested(r, t) /\ Ends(r, t)
  <2>1. Requested(r, t)
    BY <1>q, <1>9, Zenon DEF set_active_state_gives_up, Finish, Requested, Calls,
       HelperOfActive
  <2>2. Ends(r, t)
    BY <1>q, <1>h, <1>9, Zenon DEF set_active_state_gives_up, ReactivatedSince, Finish, Ends,
       Calls, Wakes, HelperOfActive
  <2>3. QED
    BY <2>1, <2>2
<1>10. ASSUME schedule_thread(r, t)
      PROVE  Requested(r, t) /\ Ends(r, t)
  <2>1. Requested(r, t)
    BY <1>0, <1>q, <1>h, <1>10, Zenon DEF schedule_thread, Finish, Requested, Calls,
       HelperOfActive
  <2>2. Ends(r, t)
    BY <1>10, SMTT(40) DEF schedule_thread, Finish, Ends, Calls, Wakes, HelperOfActive
  <2>3. QED
    BY <2>1, <2>2
<1>11. ASSUME Exchange(r, t)
      PROVE  Wakened(r, t)
  <2>1. word[t].state = "suspended"
    BY <1>11, Zenon DEF Exchange, Custody, RequestKnows
  <2>2. word'[t].state = "pending" /\ \A u \in Threads \ {t} : word'[u] = word[u]
    BY <1>o, <1>11, Zenon DEF Exchange, set_state, Word
  <2>3. Suspending(t) /\ ~Suspending(t)'
    BY <1>h, <1>a, <1>11, <2>1, <2>2, Zenon DEF Exchange, Suspending, SuspendedWaits, InRun
  <2>4. /\ Calls(r, t) /\ rpc'[r] = "schedule"
        /\ \A q \in Requests \ {r} : rpc'[q] = rpc[q]
    BY <1>q, <1>11, Zenon DEF Exchange, Calls
  <2>5. QED
    BY <1>11, <2>2, <2>3, <2>4, Zenon DEF Exchange, Wakened
<1>12. QED
  BY <1>1, <1>2, <1>3, <1>4, <1>5, <1>6, <1>7, <1>8, <1>9, <1>10, <1>11, Zenon

-----------------------------------------------------------------------------
\* Initially nothing is suspended and nothing is requested.
LEMMA WakeupInit == Init => Wakeup /\ Sleep
  BY DEF Init, Wakeup, SuspendedWaits, WakeupInFlight, WillSuspend, HelperOfActive, Sleep,
     SleepsOnce, Suspending, InRun, Calls, Word

\* The steps that custody does not exclude, by what they do.
LEMMA StepKinds ==
  ASSUME ComparesBeforeSetting, WakeShape, Custody, Wakeup, [Next]_vars
  PROVE  \/ Quiet
         \/ \E w \in Workers, t \in Threads :
              Handled(w, t) /\ (Passes(t) \/ Begins(t) \/ GoesOn(t))
         \/ \E r \in Requests, t \in Threads :
              Requested(r, t) /\ (Takes(r, t) \/ Persists(r, t) \/ Ends(r, t))
         \/ \E r \in Requests, t \in Threads :
              Requested(r, t) /\ Barges(r, t) /\ (TimerFires(r, t) \/ interrupt_thread(r, t))
         \/ \E r \in Requests, t \in Threads : Wakened(r, t)
<1>1. ASSUME NEW w \in Workers, NEW t \in Threads, WorkerStep(w, t) \/ ThreadStep(w, t)
      PROVE  Quiet \/ (Handled(w, t) /\ (Passes(t) \/ Begins(t) \/ GoesOn(t)))
  BY <1>1, QuietStep, HandledStep, CustodyExcludes, ZenonT(30) DEF WorkerStep, ThreadStep
<1>2. ASSUME NEW r \in Requests, NEW t \in Threads, RequestStep(r, t) \/ NewRequest(r, t)
      PROVE  \/ Requested(r, t) /\ (Takes(r, t) \/ Persists(r, t) \/ Ends(r, t))
             \/ Requested(r, t) /\ Barges(r, t) /\ (TimerFires(r, t) \/ interrupt_thread(r, t))
             \/ Wakened(r, t)
  BY <1>2, RequestedStep, CustodyExcludes, ZenonT(30) DEF RequestStep, NewRequest
<1>3. QED
  BY <1>1, <1>2, QuietStep, ZenonT(30) DEF Next, AllDone

\* Every step preserves the wakeup invariant, given custody.
LEMMA WakeupStep ==
  ASSUME ComparesBeforeSetting, WakeShape, Custody, Wakeup, [Next]_vars
  PROVE  Wakeup'
  BY StepKinds, QuietKeeps, HandledKeeps, RequestedKeeps, WakenedKeeps, Zenon

\* No step arms a timer if there are to be none.
LEMMA TimersStep ==
  ASSUME timers \in [Threads -> Nat], Strays = {}, \A u \in Threads : timers[u] = 0, [Next]_vars
  PROVE  \A u \in Threads : timers'[u] = 0
<1> USE DEF progVars
<1>1. ASSUME NEW w \in Workers, NEW t \in Threads, WorkerStep(w, t)
      PROVE  UNCHANGED timers
  <2>1. CASE EndWait(w, t)
    BY <2>1, SMTT(40) DEF EndWait
  <2>2. CASE ~EndWait(w, t)
    BY <1>1, <2>2, Zenon DEF WorkerStep, take_next_thrd, get_next_thread, FoundPending,
       FoundActive, FoundTerminated, FoundOther, Claim, ClaimFails, Enter, Return, StorePending,
       StoreSuspended, StoreTerminated, StoreFails, schedule_thread_last, BoostToPending,
       BoostSchedule, BoostRunNext
  <2>3. QED
    BY <2>1, <2>2, Zenon
<1>2. ASSUME NEW w \in Workers, NEW t \in Threads, ThreadStep(w, t)
      PROVE  UNCHANGED timers
  <2>1. ASSUME NEW b \in BOOLEAN, BeginWait(w, t, b)
        PROVE  UNCHANGED timers
    BY <2>1, Zenon DEF BeginWait
  <2>2. QED
    BY <1>2, <2>1, Zenon DEF ThreadStep, Fork
<1>3. ASSUME NEW r \in Requests, NEW t \in Threads, RequestStep(r, t) \/ NewRequest(r, t)
      PROVE  UNCHANGED timers
  <2>1. ~TimerFires(r, t)
    BY SMTT(40) DEF TimerFires
  <2>2. QED
    BY <1>3, <2>1, Zenon DEF RequestStep, NewRequest, LoadUnchangeable, LoadActive,
       LoadInactive, set_active_state_gives_up, set_active_state, Exchange, ExchangeFails,
       schedule_thread, AbortSet, Notify, interrupt_thread, AbortTest
<1>4. UNCHANGED timers
  BY <1>1, <1>2, <1>3, Zenon DEF Next, create_thread, cleanup_terminated, AllDone, vars
<1>5. QED
  BY <1>4, Zenon

\* Every step preserves Sleep where every waker takes a registration.
LEMMA SleepStep ==
  ASSUME ComparesBeforeSetting, Strays = {}, WakeShape, timers \in [Threads -> Nat],
         Custody, Wakeup, Sleep, [Next]_vars
  PROVE  Sleep'
<1>1. /\ \A u \in Threads : SleepsOnce(u)
      /\ \A u \in Threads : timers[u] = 0
  BY Zenon DEF Sleep
<1>2. \A r \in Requests, t \in Threads : ~(TimerFires(r, t) \/ interrupt_thread(r, t))
  BY <1>1, SMTT(40) DEF TimerFires, interrupt_thread
<1>3. \A u \in Threads : SleepsOnce(u)'
  BY <1>1, <1>2, StepKinds, QuietKeeps, HandledKeeps, RequestedKeeps, WakenedKeeps, Zenon
<1>4. QED
  BY <1>1, <1>3, TimersStep, Zenon DEF Sleep

\* The wakeup invariant holds, with what it rests on.
LEMMA WakeupInvariant ==
  ASSUME ComparesBeforeSetting
  PROVE  Spec => [](TypeOK /\ Custody /\ Wakeup)
<1>1. ASSUME TypeOK, Custody, Wakeup, [Next]_vars
      PROVE  Wakeup'
  <2>1. WakeShape
    BY <1>1, ShapeOfType, Zenon DEF WakeShape, TypeOK
  <2>2. QED
    BY <1>1, <2>1, WakeupStep, Zenon
<1>2. Init => Wakeup
  BY WakeupInit
<1>3. QED
  BY <1>1, <1>2, TypeCorrect, CustodyInvariant, PTL DEF Spec

\* A thread whose registration was taken does not stay suspended: the
\* set_thread_state call meant for it, or the helper thread that carries it while the
\* target is still active, is in flight.
THEOREM WakeupsAreNotLost ==
  ASSUME ComparesBeforeSetting
  PROVE  Spec => []NoLostWakeup
<1>1. Wakeup => NoLostWakeup
  <2>1. ASSUME Wakeup, NEW t \in Threads, word[t].state = "suspended", ~registered[t]
        PROVE  \E r \in Requests : target[r] = t /\ rpc[r] # "idle"
    <3>1. \E r \in Requests : Wakes(r, t)
      BY <2>1, Zenon DEF Wakeup, SuspendedWaits, WakeupInFlight, Suspending
    <3>2. QED
      BY <3>1, Zenon DEF Wakes, Calls
  <2>2. QED
    BY <2>1, Zenon DEF NoLostWakeup
<1>2. QED
  BY <1>1, WakeupInvariant, PTL

\* Where every waker takes the registration of the thread it wakes (there are no
\* deadlines and no interrupts), a suspension only ends because somebody took it: the
\* set_thread_state call that makes the thread pending is the one that took it.
THEOREM WakeupsAreNotSpurious ==
  ASSUME ComparesBeforeSetting, Strays = {}
  PROVE  Spec => []NoSpuriousWake
<1>1. ASSUME TypeOK, Custody, Wakeup, Sleep, [Next]_vars
      PROVE  Sleep'
  <2>1. WakeShape /\ timers \in [Threads -> Nat]
    BY <1>1, ShapeOfType, Zenon DEF WakeShape, TypeOK
  <2>2. QED
    BY <1>1, <2>1, SleepStep, Zenon
<1>2. Sleep => NoSpuriousWake
  BY Zenon DEF Sleep, SleepsOnce, Suspending, NoSpuriousWake
<1>3. Init => Sleep
  BY WakeupInit
<1>4. QED
  BY <1>1, <1>2, <1>3, WakeupInvariant, PTL DEF Spec
=============================================================================
