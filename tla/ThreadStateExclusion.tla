------------------------ MODULE ThreadStateExclusion ------------------------
(***************************************************************************)
(* Mutual exclusion in ThreadState, and what else follows from custody:    *)
(* each step of a worker takes one thread from one place to the next.      *)
(***************************************************************************)
EXTENDS ThreadStateCustody, TLAPS

\* Steps that custody excludes: a fetched thread is pending, its word is the one seen,
\* and the word of a thread being executed is changed by nobody else.
LEMMA CustodyExcludes ==
  ASSUME ComparesBeforeSetting, Custody
  PROVE  /\ \A w \in Workers, t \in Threads :
              ~(FoundActive(w, t) \/ FoundTerminated(w, t) \/ FoundOther(w, t) \/ ClaimFails(w, t)
                \/ StoreFails(w, t) \/ BoostToPending(w, t) \/ BoostSchedule(w, t)
                \/ BoostRunNext(w, t))
         /\ \A r \in Requests, t \in Threads : ~(AbortTest(r, t) \/ AbortSet(r, t))
<1>0. /\ \A w \in Workers : WorkerKnows(w)
      /\ \A r \in Requests : RequestKnows(r)
  BY Zenon DEF Custody
<1>1. ASSUME NEW w \in Workers, NEW t \in Threads,
             FoundActive(w, t) \/ FoundTerminated(w, t) \/ FoundOther(w, t)
      PROVE  FALSE
  <2>1. Carries(w, t)
    BY <1>1, Zenon DEF FoundActive, FoundTerminated, FoundOther, Carries
  <2>2. QED
    BY <1>1, <2>1, CarrierAlone, Zenon DEF FoundActive, FoundTerminated, FoundOther
<1>2. ASSUME NEW w \in Workers, NEW t \in Threads,
             ClaimFails(w, t) \/ StoreFails(w, t) \/ BoostToPending(w, t)
             \/ BoostSchedule(w, t) \/ BoostRunNext(w, t)
      PROVE  FALSE
  BY <1>0, <1>2, Zenon DEF ClaimFails, StoreFails, BoostToPending, BoostSchedule, BoostRunNext,
     restorable, WorkerKnows
<1>3. ASSUME NEW r \in Requests, NEW t \in Threads, AbortTest(r, t) \/ AbortSet(r, t)
      PROVE  FALSE
  BY <1>0, <1>3, Zenon DEF AbortTest, AbortSet, RequestKnows, ComparesBeforeSetting
<1>4. QED
  BY <1>1, <1>2, <1>3, Zenon

\* Every step preserves the custody invariant: some steps cannot happen at all, most
\* leave the places alone, and the others move one thread to one new place.
LEMMA CustodyStep ==
  ASSUME ComparesBeforeSetting, Shape, Custody
  PROVE  [Next]_vars => Custody'
<1>o. /\ word \in [Threads -> Words] /\ queued \in [Threads -> Nat]
      /\ terminated_items \in [Threads -> Nat] /\ heap \in SUBSET Threads
  BY Zenon DEF Shape
<1>w. /\ wpc \in [Workers -> WorkerPCs] /\ thrd \in [Workers -> Threads \cup {NoThread}]
      /\ orig \in [Workers -> Words] /\ result \in [Workers -> States]
      /\ fork \in [Workers -> Threads \cup {NoThread}]
      /\ next_thrd \in [Workers -> Threads \cup {NoThread}]
  BY Zenon DEF Shape
<1>c. /\ \A t \in Threads : Held(t) /\ DeadIsTerminated(t)
      /\ \A w \in Workers : WorkerKnows(w)
      /\ \A r \in Requests : RequestKnows(r)
  BY Zenon DEF Custody
<1>0. NoThread \notin Threads
  BY ConstantsAssumption, Zenon
<1>1. ASSUME NEW w \in Workers, NEW t \in Threads, take_next_thrd(w, t)
      PROVE  Custody'
  <2>1. word[t].state = "pending" /\ KeptNext(w, t) /\ \A v \in Workers \ {w} : Apart(v, t)
    <3>1. KeepsNext(w, t) /\ Held(t)
      BY <1>1, <1>c, Zenon DEF take_next_thrd, KeepsNext
    <3>2. word[t].state = "pending" /\ KeptNext(w, t)
      BY <3>1, ZenonT(30) DEF Held, Nowhere, InQueue, InHand, KeptNext, InRequest
    <3>3. word[t].state # "active" /\ \A v \in Workers \ {w} : ~Carries(v, t)
      BY <3>2, Zenon DEF KeptNext
    <3>4. QED
      BY <3>2, <3>3, NobodyNear, Zenon
  <2>2. UNCHANGED << rpc, target, seen >> /\ ThreadsKept(t) /\ WorkersKept(w)
    BY <1>1, SMTT(40) DEF take_next_thrd, ThreadsKept, WorkersKept, requestVars, objectVars
  <2>3. HandsKept(w, t)
    BY <1>w, <1>1, Zenon DEF take_next_thrd, HandsKept, Carries, KeepsNext, Executing
  <2>4. Held(t)'
    <3>1. InHand(w, t)'
      BY <1>0, <1>w, <1>c, <1>1, <2>1, <2>2, SMTT(40) DEF take_next_thrd, KeptNext, InHand,
         Carries, KeepsNext, Schedules, WorkerKnows
    <3>2. word'[t].state = "pending"
      BY <1>1, <2>1, Zenon DEF take_next_thrd
    <3>3. QED
      BY <3>1, <3>2, Zenon DEF Held
  <2>5. DeadIsTerminated(t)'
    BY <1>c, <1>1, Zenon DEF take_next_thrd, DeadIsTerminated, objectVars
  <2>6. WorkerKnows(w)'
    BY <1>w, <1>c, <1>1, SMTT(40) DEF take_next_thrd, ComparesBeforeSetting, WorkerKnows
  <2>7. QED
    BY <2>1, <2>2, <2>3, <2>4, <2>5, <2>6, WorkerMoves, Zenon
<1>2. ASSUME NEW w \in Workers, NEW t \in Threads, get_next_thread(w, t)
      PROVE  Custody'
  <2>1. word[t].state = "pending" /\ InQueue(t) /\ \A v \in Workers \ {w} : Apart(v, t)
    <3>1. queued[t] # 0 /\ Held(t)
      BY <1>2, <1>c, SMTT(40) DEF get_next_thread
    <3>2. word[t].state = "pending" /\ InQueue(t)
      BY <3>1, ZenonT(30) DEF Held, Nowhere, InQueue, InHand, KeptNext, InRequest
    <3>3. word[t].state # "active" /\ \A v \in Workers \ {w} : ~Carries(v, t)
      BY <3>2, Zenon DEF InQueue
    <3>4. QED
      BY <3>2, <3>3, NobodyNear, Zenon
  <2>2. UNCHANGED << rpc, target, seen >> /\ ThreadsKept(t) /\ WorkersKept(w)
    BY <1>2, SMTT(40) DEF get_next_thread, ThreadsKept, WorkersKept, requestVars, objectVars
  <2>3. HandsKept(w, t)
    BY <1>0, <1>w, <1>2, Zenon DEF get_next_thread, HandsKept, Carries, KeepsNext, Executing
  <2>4. Held(t)'
    <3>1. InHand(w, t)'
      BY <1>o, <1>w, <1>2, <2>1, <2>2, SMTT(40) DEF get_next_thread, InQueue, InHand, Carries,
         KeepsNext, Schedules
    <3>2. word'[t].state = "pending"
      BY <1>2, <2>1, Zenon DEF get_next_thread
    <3>3. QED
      BY <3>1, <3>2, Zenon DEF Held
  <2>5. DeadIsTerminated(t)'
    BY <1>c, <1>2, Zenon DEF get_next_thread, DeadIsTerminated, objectVars
  <2>6. WorkerKnows(w)'
    BY <1>w, <1>c, <1>2, Zenon DEF get_next_thread, ComparesBeforeSetting, WorkerKnows
  <2>7. QED
    BY <2>1, <2>2, <2>3, <2>4, <2>5, <2>6, WorkerMoves, Zenon
<1>3. ASSUME NEW w \in Workers, NEW t \in Threads, FoundPending(w, t)
      PROVE  Custody'
  <2>1. word[t].state = "pending" /\ InHand(w, t) /\ \A v \in Workers \ {w} : Apart(v, t)
    BY <1>3, CarrierAlone, Zenon DEF FoundPending, Carries
  <2>2. UNCHANGED << rpc, target, seen >> /\ ThreadsKept(t) /\ WorkersKept(w)
    BY <1>3, SMTT(40) DEF FoundPending, ThreadsKept, WorkersKept, requestVars, objectVars
  <2>3. HandsKept(w, t)
    BY <1>3, SMTT(40) DEF FoundPending, HandsKept, Carries, KeepsNext, Executing
  <2>4. Held(t)'
    <3>1. InHand(w, t)'
      BY <1>3, <2>1, <2>2, SMTT(40) DEF FoundPending, InHand, Carries, KeepsNext, Schedules
    <3>2. word'[t].state = "pending"
      BY <1>3, Zenon DEF FoundPending
    <3>3. QED
      BY <3>1, <3>2, Zenon DEF Held
  <2>5. DeadIsTerminated(t)'
    BY <1>c, <1>3, Zenon DEF FoundPending, DeadIsTerminated, objectVars
  <2>6. WorkerKnows(w)'
    BY <1>w, <1>c, <1>3, Zenon DEF FoundPending, WorkerKnows
  <2>7. QED
    BY <2>1, <2>2, <2>3, <2>4, <2>5, <2>6, WorkerMoves, Zenon
<1>4. ASSUME NEW w \in Workers, NEW t \in Threads, Claim(w, t)
      PROVE  Custody'
  <2>1. word[t].state = "pending" /\ InHand(w, t) /\ \A v \in Workers \ {w} : Apart(v, t)
    BY <1>4, CarrierAlone, Zenon DEF Claim, Carries
  <2>2. UNCHANGED << rpc, target, seen >> /\ ThreadsKept(t) /\ WorkersKept(w)
    BY <1>4, SMTT(40) DEF Claim, ThreadsKept, WorkersKept, requestVars, objectVars
  <2>3. HandsKept(w, t)
    BY <1>4, SMTT(40) DEF Claim, HandsKept, Carries, KeepsNext, Executing
  <2>4. Held(t)'
    <3>1. Nowhere(t)'
      BY <1>w, <1>4, <2>1, <2>2, Zenon DEF Claim, InHand, Nowhere, Carries, KeepsNext,
         Schedules
    <3>2. word'[t].state # "pending"
      BY <1>o, <1>4, Zenon DEF Claim, Word, set_state_tagged
    <3>3. QED
      BY <3>1, <3>2, Zenon DEF Held
  <2>5. DeadIsTerminated(t)'
    BY <1>c, <1>4, <2>1, SMTT(40) DEF Claim, Word, set_state_tagged, DeadIsTerminated,
       objectVars
  <2>6. WorkerKnows(w)'
    BY <1>o, <1>w, <1>c, <1>4, Zenon DEF Claim, Word, set_state_tagged, WorkerKnows
  <2>7. QED
    BY <2>1, <2>2, <2>3, <2>4, <2>5, <2>6, WorkerMoves, Zenon
<1>5. ASSUME NEW w \in Workers, NEW t \in Threads, Enter(w, t)
      PROVE  Custody'
  <2>1. word[t].state = "active" /\ Nowhere(t) /\ fork[w] # t /\ \A v \in Workers \ {w} : Apart(v, t)
    BY <1>5, ExecutorAlone, Zenon DEF Enter, Executing
  <2>2. UNCHANGED << rpc, target, seen >> /\ ThreadsKept(t) /\ WorkersKept(w)
    BY <1>5, SMTT(40) DEF Enter, ThreadsKept, WorkersKept, requestVars, objectVars
  <2>3. HandsKept(w, t)
    BY <1>5, SMTT(40) DEF Enter, HandsKept, Carries, KeepsNext, Executing
  <2>4. Held(t)'
    <3>1. Nowhere(t)'
      BY <1>5, <2>1, <2>2, SMTT(40) DEF Enter, Nowhere, Carries, KeepsNext, Schedules
    <3>2. word'[t].state # "pending"
      BY <1>5, <2>1, SMTT(40) DEF Enter, Word
    <3>3. QED
      BY <3>1, <3>2, Zenon DEF Held
  <2>5. DeadIsTerminated(t)'
    BY <1>c, <1>5, SMTT(40) DEF Enter, Word, DeadIsTerminated, objectVars
  <2>6. WorkerKnows(w)'
    BY <1>w, <1>c, <1>5, SMTT(40) DEF Enter, Word, ComparesBeforeSetting, WorkerKnows
  <2>7. QED
    BY <2>1, <2>2, <2>3, <2>4, <2>5, <2>6, WorkerMoves, Zenon
<1>6. ASSUME NEW w \in Workers, NEW t \in Threads, NEW s \in States, Return(w, t, s)
      PROVE  Custody'
  <2>1. word[t].state = "active" /\ Nowhere(t) /\ fork[w] # t /\ \A v \in Workers \ {w} : Apart(v, t)
    BY <1>6, ExecutorAlone, Zenon DEF Return, Running, Executing
  <2>2. UNCHANGED << rpc, target, seen >> /\ ThreadsKept(t) /\ WorkersKept(w)
    BY <1>6, SMTT(40) DEF Return, ThreadsKept, WorkersKept, requestVars, objectVars
  <2>3. HandsKept(w, t)
    BY <1>6, SMTT(40) DEF Return, Running, HandsKept, Carries, KeepsNext, Executing
  <2>4. Held(t)'
    <3>1. Nowhere(t)'
      BY <1>6, <2>1, <2>2, SMTT(40) DEF Return, Running, Nowhere, Carries, KeepsNext, Schedules
    <3>2. word'[t].state # "pending"
      BY <1>6, <2>1, Zenon DEF Return, restore_state, set_state_tagged
    <3>3. QED
      BY <3>1, <3>2, Zenon DEF Held
  <2>5. DeadIsTerminated(t)'
    BY <1>c, <1>6, Zenon DEF Return, DeadIsTerminated, objectVars
  <2>6. WorkerKnows(w)'
    BY <1>c, <1>6, SMTT(40) DEF Return, Running, ComparesBeforeSetting, WorkerKnows
  <2>7. QED
    BY <2>1, <2>2, <2>3, <2>4, <2>5, <2>6, WorkerMoves, Zenon
<1>7. ASSUME NEW w \in Workers, NEW t \in Threads, StorePending(w, t)
      PROVE  Custody'
  <2>1. word[t].state = "active" /\ Nowhere(t) /\ fork[w] # t /\ \A v \in Workers \ {w} : Apart(v, t)
    BY <1>7, ExecutorAlone, Zenon DEF StorePending, Executing
  <2>2. UNCHANGED << rpc, target, seen >> /\ ThreadsKept(t) /\ WorkersKept(w)
    BY <1>7, SMTT(40) DEF StorePending, ThreadsKept, WorkersKept, requestVars, objectVars
  <2>3. HandsKept(w, t)
    BY <1>0, <1>w, <1>7, Zenon DEF StorePending, HandsKept, Carries, KeepsNext, Executing
  <2>4. Held(t)'
    <3>1. InHand(w, t)'
      BY <1>0, <1>w, <1>c, <1>7, <2>1, <2>2, SMTT(40) DEF StorePending, Nowhere, InHand,
         Carries, KeepsNext, Schedules, WorkerKnows
    <3>2. word'[t].state = "pending"
      BY <1>o, <1>c, <1>7, Zenon DEF StorePending, Word, restore_state, WorkerKnows
    <3>3. QED
      BY <3>1, <3>2, Zenon DEF Held
  <2>5. DeadIsTerminated(t)'
    BY <1>c, <1>7, SMTT(40) DEF StorePending, Word, restore_state, DeadIsTerminated,
       objectVars, WorkerKnows
  <2>6. WorkerKnows(w)'
    BY <1>w, <1>c, <1>7, Zenon DEF StorePending, WorkerKnows
  <2>7. QED
    BY <2>1, <2>2, <2>3, <2>4, <2>5, <2>6, WorkerMoves, Zenon
<1>8. ASSUME NEW w \in Workers, NEW t \in Threads, StoreSuspended(w, t)
      PROVE  Custody'
  <2>1. word[t].state = "active" /\ Nowhere(t) /\ fork[w] # t /\ \A v \in Workers \ {w} : Apart(v, t)
    BY <1>8, ExecutorAlone, Zenon DEF StoreSuspended, Executing
  <2>2. UNCHANGED << rpc, target, seen >> /\ ThreadsKept(t) /\ WorkersKept(w)
    BY <1>8, SMTT(40) DEF StoreSuspended, GoIdle, ThreadsKept, WorkersKept, requestVars,
       objectVars
  <2>3. HandsKept(w, t)
    BY <1>0, <1>w, <1>8, Zenon DEF StoreSuspended, GoIdle, HandsKept, Carries, KeepsNext,
       Executing
  <2>4. Held(t)'
    <3>1. Nowhere(t)'
      BY <1>0, <1>w, <1>8, <2>1, <2>2, Zenon DEF StoreSuspended, GoIdle, Nowhere, Carries,
         KeepsNext, Schedules
    <3>2. word'[t].state # "pending"
      BY <1>8, <2>1, SMTT(40) DEF StoreSuspended, Word, restore_state
    <3>3. QED
      BY <3>1, <3>2, Zenon DEF Held
  <2>5. DeadIsTerminated(t)'
    BY <1>c, <1>8, <2>1, SMTT(40) DEF StoreSuspended, Word, restore_state, DeadIsTerminated,
       objectVars
  <2>6. WorkerKnows(w)'
    BY <1>w, <1>8, Zenon DEF StoreSuspended, GoIdle, ComparesBeforeSetting, WorkerKnows
  <2>7. QED
    BY <2>1, <2>2, <2>3, <2>4, <2>5, <2>6, WorkerMoves, Zenon
<1>9. ASSUME NEW w \in Workers, NEW t \in Threads, StoreTerminated(w, t)
      PROVE  Custody'
  <2>1. word[t].state = "active" /\ Nowhere(t) /\ fork[w] # t /\ \A v \in Workers \ {w} : Apart(v, t)
    BY <1>9, ExecutorAlone, Zenon DEF StoreTerminated, Executing
  <2>2. UNCHANGED << rpc, target, seen >> /\ ThreadsKept(t) /\ WorkersKept(w)
    BY <1>9, SMTT(40) DEF StoreTerminated, GoIdle, ThreadsKept, WorkersKept, requestVars
  <2>3. HandsKept(w, t)
    BY <1>0, <1>w, <1>9, Zenon DEF StoreTerminated, GoIdle, HandsKept, Carries, KeepsNext,
       Executing
  <2>4. Held(t)'
    <3>1. Nowhere(t)'
      <4>1. wpc'[w] = "idle" /\ next_thrd'[w] # t /\ fork'[w] # t
        BY <1>0, <1>w, <1>9, <2>1, Zenon DEF StoreTerminated, GoIdle
      <4>2. \A v \in Workers : ~Carries(v, t)' /\ ~KeepsNext(v, t)'
        BY <2>1, <2>2, <4>1, SMTT(40) DEF Nowhere, WorkersKept, Carries, KeepsNext
      <4>3. QED
        BY <1>9, <2>1, <2>2, <4>2, Zenon DEF StoreTerminated, Nowhere, Schedules
    <3>2. word'[t].state # "pending"
      BY <1>9, <2>1, SMTT(40) DEF StoreTerminated, Word, restore_state
    <3>3. QED
      BY <3>1, <3>2, Zenon DEF Held
  <2>5. DeadIsTerminated(t)'
    BY <1>o, <1>c, <1>9, <2>1, SMTT(40) DEF StoreTerminated, Word, restore_state,
       DeadIsTerminated
  <2>6. WorkerKnows(w)'
    BY <1>w, <1>9, Zenon DEF StoreTerminated, GoIdle, ComparesBeforeSetting, WorkerKnows
  <2>7. QED
    BY <2>1, <2>2, <2>3, <2>4, <2>5, <2>6, WorkerMoves, Zenon
<1>10. ASSUME NEW w \in Workers, NEW t \in Threads, schedule_thread_last(w, t)
      PROVE  Custody'
  <2>1. word[t].state = "pending" /\ InHand(w, t) /\ \A v \in Workers \ {w} : Apart(v, t)
    BY <1>10, CarrierAlone, Zenon DEF schedule_thread_last, Carries
  <2>2. UNCHANGED << rpc, target, seen >> /\ ThreadsKept(t) /\ WorkersKept(w)
    BY <1>10, SMTT(40) DEF schedule_thread_last, GoIdle, ThreadsKept, WorkersKept, requestVars,
       objectVars
  <2>3. HandsKept(w, t)
    BY <1>w, <1>c, <1>10, Zenon DEF schedule_thread_last, GoIdle, HandsKept, Carries,
       KeepsNext, Executing, WorkerKnows
  <2>4. Held(t)'
    <3>1. InQueue(t)'
      BY <1>0, <1>o, <1>w, <1>10, <2>1, <2>2, SMTT(40) DEF schedule_thread_last, GoIdle,
         InHand, InQueue, Carries, KeepsNext, Schedules
    <3>2. word'[t].state = "pending"
      BY <1>10, <2>1, Zenon DEF schedule_thread_last
    <3>3. QED
      BY <3>1, <3>2, Zenon DEF Held
  <2>5. DeadIsTerminated(t)'
    BY <1>c, <1>10, Zenon DEF schedule_thread_last, DeadIsTerminated, objectVars
  <2>6. WorkerKnows(w)'
    BY <1>w, <1>10, Zenon DEF schedule_thread_last, GoIdle, WorkerKnows
  <2>7. QED
    BY <2>1, <2>2, <2>3, <2>4, <2>5, <2>6, WorkerMoves, Zenon
<1>11. ASSUME NEW w \in Workers, NEW t \in Threads, EndWait(w, t)
      PROVE  Custody'
  BY <1>c, CustodyKept, <1>11, Zenon DEF EndWait, Schedules, RequestKnows,
     objectVars, requestVars
<1>12. CASE UNCHANGED vars
  BY <1>c, <1>12, CustodyKept, Zenon DEF vars, objectVars, requestVars, Schedules, RequestKnows
<1>13. ASSUME \/ \E w \in Workers, t \in Threads : ThreadStep(w, t)
              \/ \E t \in Threads : create_thread(t) \/ cleanup_terminated(t)
              \/ \E r \in Requests, t \in Threads : RequestStep(r, t) \/ NewRequest(r, t)
       PROVE  Custody'
  BY <1>13, CustodyExcludes, CustodyThread, CustodyElsewhere, Zenon
<1>14. QED
  BY <1>1, <1>2, <1>3, <1>4, <1>5, <1>6, <1>7, <1>8, <1>9, <1>10, <1>11, <1>12, <1>13,
     CustodyExcludes, ZenonT(30) DEF Next, WorkerStep, AllDone

\* Hence custody, for every number of threads, workers and requests.
LEMMA CustodyInvariant ==
  ASSUME ComparesBeforeSetting
  PROVE  Spec => []Custody
<1>1. Init => Custody
  BY CustodyInit
<1>2. TypeOK /\ Custody /\ [Next]_vars => Custody'
  BY CustodyStep, ShapeOfType
<1>3. QED
  BY <1>1, <1>2, TypeCorrect, PTL DEF Spec

\* Custody says of the places of a thread what HeldOnce says of their set.
LEMMA CustodyHeldOnce == Custody => HeldOnce
<1> SUFFICES ASSUME Custody, NEW t \in Threads
             PROVE  IF word[t].state = "pending"
                      THEN \E p \in Places(t) : Places(t) = {p} ELSE Places(t) = {}
  BY ZenonT(30) DEF HeldOnce
<1>0. Held(t)
  BY Zenon DEF Custody
<1>1. \A p : p \in Places(t) <=>
        \/ \E i \in 1..queued[t] : p = <<"queue", i>>
        \/ \E w \in Workers : Carries(w, t) /\ p = <<"worker", w>>
        \/ \E w \in Workers : KeepsNext(w, t) /\ p = <<"next", w>>
        \/ \E r \in Requests : Schedules(r, t) /\ p = <<"request", r>>
  BY Zenon DEF Places, Schedules
<1>2. CASE Nowhere(t)
  BY <1>0, <1>1, <1>2, SMTT(40) DEF Nowhere, Held, InQueue, InHand, KeptNext, InRequest
<1>3. ASSUME InQueue(t)
      PROVE  \E p \in Places(t) : Places(t) = {p}
  <2>1. PICK c : c = <<"queue", 1>>
    BY ZenonT(30)
  <2>2. \A p : p \in Places(t) <=> p = c
    BY <1>1, <1>3, <2>1, SMTT(40) DEF InQueue
  <2>3. Places(t) = {c}
    BY <2>2
  <2>4. QED
    BY <2>3
<1>4. ASSUME NEW w \in Workers, InHand(w, t)
      PROVE  \E p \in Places(t) : Places(t) = {p}
  <2>1. PICK c : c = <<"worker", w>>
    BY ZenonT(30)
  <2>2. \A p : p \in Places(t) <=> p = c
    BY <1>1, <1>4, <2>1, SMTT(40) DEF InHand
  <2>3. Places(t) = {c}
    BY <2>2, Zenon
  <2>4. QED
    BY <2>3
<1>5. ASSUME NEW w \in Workers, KeptNext(w, t)
      PROVE  \E p \in Places(t) : Places(t) = {p}
  <2>1. PICK c : c = <<"next", w>>
    BY ZenonT(30)
  <2>2. \A p : p \in Places(t) <=> p = c
    BY <1>1, <1>5, <2>1, SMTT(40) DEF KeptNext
  <2>3. Places(t) = {c}
    BY <2>2
  <2>4. QED
    BY <2>3
<1>6. ASSUME NEW r \in Requests, InRequest(r, t)
      PROVE  \E p \in Places(t) : Places(t) = {p}
  <2>1. PICK c : c = <<"request", r>>
    BY ZenonT(30)
  <2>2. \A p : p \in Places(t) <=> p = c
    BY <1>1, <1>6, <2>1, SMTT(40) DEF InRequest
  <2>3. Places(t) = {c}
    BY <2>2
  <2>4. QED
    BY <2>3
<1>7. CASE word[t].state = "pending"
  <2>1. \E p \in Places(t) : Places(t) = {p}
    BY <1>0, <1>3, <1>4, <1>5, <1>6, <1>7, Zenon DEF Held
  <2>2. QED
    BY <1>7, <2>1, Zenon
<1>8. CASE word[t].state # "pending"
  BY <1>0, <1>2, <1>8, Zenon DEF Held
<1>9. QED
  BY <1>7, <1>8, Zenon

\* A dead object is terminated, so nobody carries or executes it.
LEMMA CustodyDestroyedOnce == Custody => DestroyedOnce
  BY ZenonT(30) DEF Custody, DestroyedOnce, Held, Nowhere, DeadIsTerminated, WorkerKnows,
     Executing

\* No two workers execute the same thread, whatever timers and interrupts do, provided
\* that every change of the state compares before it sets.
THEOREM MutualExclusion ==
  ASSUME ComparesBeforeSetting
  PROVE  Spec => []ExecutedOnce
  BY CustodyInvariant, PTL DEF Custody

\* Under the same condition a pending thread is in exactly one place.
THEOREM PendingHeldOnce ==
  ASSUME ComparesBeforeSetting
  PROVE  Spec => []HeldOnce
  BY CustodyHeldOnce, CustodyInvariant, PTL

\* Under the same condition a thread object is handed to terminated_items_ once per
\* life and is not recycled while the scheduler holds it.
THEOREM ObjectsDestroyedOnce ==
  ASSUME ComparesBeforeSetting
  PROVE  Spec => []DestroyedOnce
  BY CustodyDestroyedOnce, CustodyInvariant, PTL
=============================================================================
