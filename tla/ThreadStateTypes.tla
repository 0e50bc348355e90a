-------------------------- MODULE ThreadStateTypes --------------------------
(***************************************************************************)
(* The types of ThreadState, and what its tags count.  Everything here     *)
(* holds in every configuration, for any number of threads, workers and    *)
(* requests.                                                               *)
(***************************************************************************)
EXTENDS ThreadState, TLAPS

\* The initial values have the types of the variables.
LEMMA TypeInit == Init => TypeOK
  BY ConstantsAssumption DEF Init, TypeOK, Words, Word, NoWord, States, Exs, WorkerPCs,
     RequestPCs

\* So do the values that any step of a worker, a thread or a request assigns.
LEMMA TypeStep == TypeOK /\ [Next]_vars => TypeOK'
<1> SUFFICES ASSUME TypeOK PROVE [Next]_vars => TypeOK'
  OBVIOUS
<1> USE ConstantsAssumption
         DEF Words, Word, States, Exs, objectVars, workerVars, requestVars, progVars
<1>1. ASSUME NEW t \in Threads, create_thread(t)
      PROVE  TypeOK'
  BY <1>1, SMTT(40) DEF create_thread, Rebind, TypeOK
<1>2. ASSUME NEW t \in Threads, cleanup_terminated(t)
      PROVE  TypeOK'
  BY <1>2, SMTT(40) DEF cleanup_terminated, TypeOK
<1>3. ASSUME NEW w \in Workers, NEW t \in Threads, take_next_thrd(w, t)
      PROVE  TypeOK'
  BY <1>3, SMTT(40) DEF take_next_thrd, WorkerPCs, TypeOK
<1>4. ASSUME NEW w \in Workers, NEW t \in Threads, get_next_thread(w, t)
      PROVE  TypeOK'
  BY <1>4, SMTT(40) DEF get_next_thread, WorkerPCs, TypeOK
<1>5. ASSUME NEW w \in Workers, NEW t \in Threads, FoundPending(w, t)
      PROVE  TypeOK'
  BY <1>5, SMTT(40) DEF FoundPending, WorkerPCs, TypeOK
<1>6. ASSUME NEW w \in Workers, NEW t \in Threads, FoundActive(w, t)
      PROVE  TypeOK'
  BY <1>6, SMTT(40) DEF FoundActive, GoIdle, NoWord, WorkerPCs, TypeOK
<1>7. ASSUME NEW w \in Workers, NEW t \in Threads, FoundTerminated(w, t)
      PROVE  TypeOK'
  BY <1>7, SMTT(40) DEF FoundTerminated, GoIdle, NoWord, WorkerPCs, TypeOK
<1>8. ASSUME NEW w \in Workers, NEW t \in Threads, FoundOther(w, t)
      PROVE  TypeOK'
  BY <1>8, SMTT(40) DEF FoundOther, GoIdle, NoWord, WorkerPCs, TypeOK
<1>9. ASSUME NEW w \in Workers, NEW t \in Threads, Claim(w, t)
      PROVE  TypeOK'
  BY <1>9, SMTT(40) DEF Claim, set_state_tagged, WorkerPCs, TypeOK
<1>10. ASSUME NEW w \in Workers, NEW t \in Threads, ClaimFails(w, t)
      PROVE  TypeOK'
  BY <1>10, SMTT(40) DEF ClaimFails, GoIdle, NoWord, WorkerPCs, TypeOK
<1>11. ASSUME NEW w \in Workers, NEW t \in Threads, Enter(w, t)
      PROVE  TypeOK'
  BY <1>11, SMTT(40) DEF Enter, WorkerPCs, TypeOK
<1>12. ASSUME NEW w \in Workers, NEW t \in Threads, EndWait(w, t)
      PROVE  TypeOK'
  BY <1>12, SMTT(40) DEF EndWait, Running, WorkerPCs, TypeOK
<1>13. ASSUME NEW w \in Workers, NEW t \in Threads, StorePending(w, t)
      PROVE  TypeOK'
  BY <1>13, SMTT(40) DEF StorePending, restore_state, NextTag, WorkerPCs, TypeOK
<1>14. ASSUME NEW w \in Workers, NEW t \in Threads, StoreSuspended(w, t)
      PROVE  TypeOK'
  BY <1>14, SMTT(40) DEF StoreSuspended, GoIdle, NoWord, restore_state, NextTag, WorkerPCs,
     TypeOK
<1>15. ASSUME NEW w \in Workers, NEW t \in Threads, StoreTerminated(w, t)
      PROVE  TypeOK'
  BY <1>15, SMTT(40) DEF StoreTerminated, GoIdle, NoWord, restore_state, NextTag, WorkerPCs,
     TypeOK
<1>16. ASSUME NEW w \in Workers, NEW t \in Threads, StoreFails(w, t)
      PROVE  TypeOK'
  BY <1>16, SMTT(40) DEF StoreFails, GoIdle, NoWord, WorkerPCs, TypeOK
<1>17. ASSUME NEW w \in Workers, NEW t \in Threads, schedule_thread_last(w, t)
      PROVE  TypeOK'
  BY <1>17, SMTT(40) DEF schedule_thread_last, GoIdle, NoWord, WorkerPCs, TypeOK
<1>18. ASSUME NEW w \in Workers, NEW t \in Threads, BoostToPending(w, t)
      PROVE  TypeOK'
  BY <1>18, SMTT(40) DEF BoostToPending, set_state, NextTag, WorkerPCs, TypeOK
<1>19. ASSUME NEW w \in Workers, NEW t \in Threads, BoostSchedule(w, t)
      PROVE  TypeOK'
  BY <1>19, SMTT(40) DEF BoostSchedule, GoIdle, NoWord, WorkerPCs, TypeOK
<1>20. ASSUME NEW w \in Workers, NEW t \in Threads, BoostRunNext(w, t)
      PROVE  TypeOK'
  BY <1>20, SMTT(40) DEF BoostRunNext, GoIdle, NoWord, WorkerPCs, TypeOK
<1>21. ASSUME NEW w \in Workers, NEW t \in Threads, NEW s \in States, Return(w, t, s)
      PROVE  TypeOK'
  BY <1>21, SMTT(40) DEF Return, Running, WorkerPCs, TypeOK
<1>22. ASSUME NEW w \in Workers, NEW t \in Threads, NEW b \in BOOLEAN, BeginWait(w, t, b)
      PROVE  TypeOK'
  BY <1>22, SMTT(40) DEF BeginWait, Running, TypeOK
<1>23. ASSUME NEW w \in Workers, NEW t \in Threads, NEW u \in Threads, Fork(w, t, u)
      PROVE  TypeOK'
  BY <1>23, SMTT(40) DEF Fork, Running, Rebind, WorkerPCs, TypeOK
<1>24. ASSUME NEW r \in Requests, NEW t \in Threads, LoadUnchangeable(r, t)
      PROVE  TypeOK'
  BY <1>24, SMTT(40) DEF LoadUnchangeable, Finish, NoWord, RequestPCs, TypeOK
<1>25. ASSUME NEW r \in Requests, NEW t \in Threads, LoadActive(r, t)
      PROVE  TypeOK'
  BY <1>25, SMTT(40) DEF LoadActive, RequestPCs, TypeOK
<1>26. ASSUME NEW r \in Requests, NEW t \in Threads, LoadInactive(r, t)
      PROVE  TypeOK'
  BY <1>26, SMTT(40) DEF LoadInactive, ToExchange, RequestPCs, TypeOK
<1>27. ASSUME NEW r \in Requests, NEW t \in Threads, set_active_state_gives_up(r, t)
      PROVE  TypeOK'
  BY <1>27, SMTT(40) DEF set_active_state_gives_up, Finish, NoWord, RequestPCs, TypeOK
<1>28. ASSUME NEW r \in Requests, NEW t \in Threads, set_active_state(r, t)
      PROVE  TypeOK'
  BY <1>28, SMTT(40) DEF set_active_state, RequestPCs, TypeOK
<1>29. ASSUME NEW r \in Requests, NEW t \in Threads, Exchange(r, t)
      PROVE  TypeOK'
  BY <1>29, SMTT(40) DEF Exchange, set_state, NextTag, RequestPCs, TypeOK
<1>30. ASSUME NEW r \in Requests, NEW t \in Threads, ExchangeFails(r, t)
      PROVE  TypeOK'
  BY <1>30, SMTT(40) DEF ExchangeFails, RequestPCs, TypeOK
<1>31. ASSUME NEW r \in Requests, NEW t \in Threads, schedule_thread(r, t)
      PROVE  TypeOK'
  BY <1>31, SMTT(40) DEF schedule_thread, Finish, NoWord, RequestPCs, TypeOK
<1>32. ASSUME NEW r \in Requests, NEW t \in Threads, AbortSet(r, t)
      PROVE  TypeOK'
  BY <1>32, SMTT(40) DEF AbortSet, set_state, NextTag, RequestPCs, TypeOK
<1>33. ASSUME NEW r \in Requests, NEW t \in Threads, TimerFires(r, t)
      PROVE  TypeOK'
  BY <1>33, SMTT(40) DEF TimerFires, Call, RequestPCs, TypeOK
<1>34. ASSUME NEW r \in Requests, NEW t \in Threads, interrupt_thread(r, t)
      PROVE  TypeOK'
  BY <1>34, SMTT(40) DEF interrupt_thread, Call, RequestPCs, TypeOK
<1>35. ASSUME NEW r \in Requests, NEW t \in Threads, AbortTest(r, t)
      PROVE  TypeOK'
  BY <1>35, SMTT(40) DEF AbortTest, RequestPCs, TypeOK
<1>36. ASSUME NEW r \in Requests, NEW t \in Threads, NEW x \in {"signaled", "abort"}, Notify(r, t, x)
      PROVE  TypeOK'
  BY <1>36, SMTT(40) DEF Notify, Call, RequestPCs, TypeOK
<1>37. CASE UNCHANGED vars
  BY <1>37, SMTT(40) DEF vars, TypeOK
<1>38. QED
  BY <1>1, <1>2, <1>3, <1>4, <1>5, <1>6, <1>7, <1>8, <1>9, <1>10, <1>11, <1>12, <1>13, <1>14,
     <1>15, <1>16, <1>17, <1>18, <1>19, <1>20, <1>21, <1>22, <1>23, <1>24, <1>25, <1>26, <1>27,
     <1>28, <1>29, <1>30, <1>31, <1>32, <1>33, <1>34, <1>35, <1>36, <1>37, ZenonT(30)
     DEF Next, WorkerStep, ThreadStep, RequestStep, NewRequest, AllDone

\* Every variable of the thread state machine keeps its type.
THEOREM TypeCorrect == Spec => []TypeOK
  BY TypeInit, TypeStep, PTL DEF Spec

-----------------------------------------------------------------------------
\* A worker claims a thread it saw pending.
ClaimsPending == \A w \in Workers : wpc[w] = "claim" => orig[w].state = "pending"

TaggedChange ==
    \A t \in Threads : births'[t] = births[t] =>
        word'[t].tag = word[t].tag + (IF word'[t].state = word[t].state THEN 0 ELSE 1)

\* One word replaced by one with the right tag is a tagged change.
LEMMA OneTaggedChange ==
  ASSUME word \in [Threads -> Words], NEW t \in Threads, NEW wd,
         word' = [word EXCEPT ![t] = wd],
         wd.tag = word[t].tag + (IF wd.state = word[t].state THEN 0 ELSE 1)
  PROVE  TaggedChange
  BY DEF TaggedChange, Words

\* The requests leave the workers alone, and most steps leave the words alone.
LEMMA QuietSteps ==
  /\ \A w \in Workers, t \in Threads :
         take_next_thrd(w, t) \/ get_next_thread(w, t) \/ FoundPending(w, t)
         \/ FoundActive(w, t) \/ FoundTerminated(w, t) \/ FoundOther(w, t)
         \/ ClaimFails(w, t) \/ EndWait(w, t) \/ StoreFails(w, t)
         \/ schedule_thread_last(w, t) \/ BoostSchedule(w, t) \/ BoostRunNext(w, t)
         => UNCHANGED word
  /\ \A w \in Workers, t \in Threads : \A b \in BOOLEAN, s \in States :
         BeginWait(w, t, b) \/ Return(w, t, s) => UNCHANGED word
  /\ \A r \in Requests, t \in Threads : \A x \in {"signaled", "abort"} :
         Notify(r, t, x) \/ TimerFires(r, t) \/ interrupt_thread(r, t) => UNCHANGED word
  /\ \A r \in Requests, t \in Threads :
         LoadUnchangeable(r, t) \/ LoadActive(r, t) \/ LoadInactive(r, t)
         \/ set_active_state_gives_up(r, t) \/ set_active_state(r, t)
         \/ ExchangeFails(r, t) \/ schedule_thread(r, t) \/ AbortTest(r, t)
         => UNCHANGED word
  /\ \A t \in Threads : cleanup_terminated(t) => UNCHANGED word
<1>1. ASSUME NEW w \in Workers, NEW t \in Threads,
             take_next_thrd(w, t) \/ get_next_thread(w, t) \/ FoundPending(w, t)
             \/ FoundActive(w, t) \/ FoundTerminated(w, t) \/ FoundOther(w, t)
             \/ ClaimFails(w, t) \/ EndWait(w, t) \/ StoreFails(w, t)
             \/ schedule_thread_last(w, t) \/ BoostSchedule(w, t) \/ BoostRunNext(w, t)
      PROVE  UNCHANGED word
  BY <1>1 DEF take_next_thrd, get_next_thread, FoundPending, FoundActive, FoundTerminated,
     FoundOther, ClaimFails, EndWait, StoreFails, schedule_thread_last, BoostSchedule,
     BoostRunNext
<1>2. ASSUME NEW r \in Requests, NEW t \in Threads,
             LoadUnchangeable(r, t) \/ LoadActive(r, t) \/ LoadInactive(r, t)
             \/ set_active_state_gives_up(r, t) \/ set_active_state(r, t)
             \/ ExchangeFails(r, t) \/ schedule_thread(r, t) \/ AbortTest(r, t)
      PROVE  UNCHANGED word
  BY <1>2 DEF LoadUnchangeable, LoadActive, LoadInactive, set_active_state_gives_up,
     set_active_state, ExchangeFails, schedule_thread, AbortTest
<1>3. ASSUME NEW w \in Workers, NEW t \in Threads, NEW b \in BOOLEAN, NEW s \in States,
             BeginWait(w, t, b) \/ Return(w, t, s)
      PROVE  UNCHANGED word
  BY <1>3 DEF BeginWait, Return
<1>4. ASSUME NEW r \in Requests, NEW t \in Threads, NEW x \in {"signaled", "abort"},
             Notify(r, t, x) \/ TimerFires(r, t) \/ interrupt_thread(r, t)
      PROVE  UNCHANGED word
  BY <1>4 DEF Notify, TimerFires, interrupt_thread, Call
<1>5. ASSUME NEW t \in Threads, cleanup_terminated(t)
      PROVE  UNCHANGED word
  BY <1>5 DEF cleanup_terminated
<1>6. QED
  BY <1>1, <1>2, <1>3, <1>4, <1>5

\* A step that does not rebind an object moves its tag exactly when it changes its state.
LEMMA TaggedStep == TypeOK /\ ClaimsPending /\ [Next]_vars => TaggedChange
<1> SUFFICES ASSUME TypeOK, ClaimsPending
             PROVE  [Next]_vars => TaggedChange
  OBVIOUS
<1>1. word \in [Threads -> Words] /\ births \in [Threads -> 0..MaxBirths]
      /\ orig \in [Workers -> Words] /\ MaxBirths \in Nat
  BY ConstantsAssumption DEF TypeOK
<1>2. ASSUME UNCHANGED word
      PROVE  TaggedChange
  BY <1>1, <1>2 DEF TaggedChange, Words
<1>3. ASSUME NEW t \in Threads, Rebind(t)
      PROVE  TaggedChange
  BY <1>1, <1>3 DEF Rebind, TaggedChange, Words
<1>4. ASSUME NEW w \in Workers, NEW t \in Threads, Claim(w, t)
      PROVE  TaggedChange
  <2>1. word[t].state = "pending"
    BY <1>4 DEF Claim, ClaimsPending
  <2>2. QED
    BY <1>1, <1>4, <2>1, OneTaggedChange, Zenon DEF Claim, set_state_tagged, Word
<1>5. ASSUME NEW w \in Workers, NEW t \in Threads, Enter(w, t)
      PROVE  TaggedChange
  BY <1>1, <1>5 DEF Enter, TaggedChange, Words, Word
<1>6. ASSUME NEW w \in Workers, NEW t \in Threads,
             StorePending(w, t) \/ StoreSuspended(w, t) \/ StoreTerminated(w, t)
      PROVE  TaggedChange
  <2>1. PICK s : word' = [word EXCEPT ![t] = restore_state(word[t], s)]
    BY <1>6 DEF StorePending, StoreSuspended, StoreTerminated
  <2>2. restore_state(word[t], s).tag
          = word[t].tag + (IF restore_state(word[t], s).state = word[t].state THEN 0 ELSE 1)
    BY <1>1 DEF restore_state, NextTag, Word, Words
  <2>3. QED
    BY <1>1, <2>1, <2>2, OneTaggedChange, Zenon
<1>7. ASSUME NEW t \in Threads, NEW s, NEW x,
             word' = [word EXCEPT ![t] = set_state(word[t], s, x)]
      PROVE  TaggedChange
  <2>1. set_state(word[t], s, x).tag
          = word[t].tag + (IF set_state(word[t], s, x).state = word[t].state THEN 0 ELSE 1)
    BY <1>1 DEF set_state, NextTag, Word, Words
  <2>2. QED
    BY <1>1, <1>7, <2>1, OneTaggedChange, Zenon
<1>8. ASSUME NEW w \in Workers, NEW t \in Threads, WorkerStep(w, t)
      PROVE  TaggedChange
  <2>1. CASE BoostToPending(w, t)
    BY <1>7, <2>1, ZenonT(30) DEF BoostToPending
  <2>2. QED
    BY <1>2, <1>4, <1>5, <1>6, <1>8, <2>1, QuietSteps, Zenon DEF WorkerStep
<1>9. ASSUME NEW w \in Workers, NEW t \in Threads, ThreadStep(w, t)
      PROVE  TaggedChange
  <2>1. CASE \E u \in Threads : Fork(w, t, u)
    BY <1>3, <2>1, ZenonT(30) DEF Fork
  <2>2. QED
    BY <1>2, <1>9, <2>1, QuietSteps, Zenon DEF ThreadStep, BeginWait
<1>10. ASSUME NEW r \in Requests, NEW t \in Threads, RequestStep(r, t) \/ NewRequest(r, t)
       PROVE  TaggedChange
  <2>1. CASE Exchange(r, t)
    BY <1>7, <2>1, Zenon DEF Exchange
  <2>2. CASE AbortSet(r, t)
    BY <1>7, <2>2, ZenonT(30) DEF AbortSet
  <2>3. QED
    BY <1>2, <1>10, <2>1, <2>2, QuietSteps DEF RequestStep, NewRequest
<1>11. ASSUME NEW t \in Threads, create_thread(t) \/ cleanup_terminated(t)
       PROVE  TaggedChange
  BY <1>2, <1>3, <1>11 DEF create_thread, cleanup_terminated
<1>12. CASE UNCHANGED vars
  BY <1>2, <1>12 DEF vars
<1>13. QED
  BY <1>8, <1>9, <1>10, <1>11, <1>12 DEF Next, AllDone

\* A worker keeps the word it claims until it is done with it.
LEMMA ClaimsPendingStep == TypeOK /\ ClaimsPending /\ [Next]_vars => ClaimsPending'
<1> SUFFICES ASSUME TypeOK, ClaimsPending
             PROVE  [Next]_vars => ClaimsPending'
  OBVIOUS
<1>1. wpc \in [Workers -> WorkerPCs] /\ orig \in [Workers -> Words]
  BY DEF TypeOK
<1>2. ASSUME NEW w \in Workers, NEW t \in Threads,
             take_next_thrd(w, t) \/ get_next_thread(w, t)
      PROVE  ClaimsPending'
  BY <1>1, <1>2 DEF take_next_thrd, get_next_thread, ClaimsPending
<1>3. ASSUME NEW w \in Workers, NEW t \in Threads,
             FoundPending(w, t)
      PROVE  ClaimsPending'
  BY <1>1, <1>3 DEF FoundPending, ClaimsPending
<1>4. ASSUME NEW w \in Workers, NEW t \in Threads,
             Claim(w, t) \/ Enter(w, t) \/ StorePending(w, t) \/ BoostToPending(w, t)
      PROVE  ClaimsPending'
  BY <1>1, <1>4 DEF Claim, Enter, StorePending, BoostToPending, ClaimsPending
<1>5. ASSUME NEW w \in Workers,
             GoIdle(w)
      PROVE  ClaimsPending'
  BY <1>1, <1>5 DEF GoIdle, ClaimsPending
<1>6. ASSUME NEW w \in Workers, NEW t \in Threads, NEW s \in States,
             Return(w, t, s)
      PROVE  ClaimsPending'
  BY <1>1, <1>6 DEF Return, ClaimsPending
<1>7. ASSUME NEW w \in Workers, NEW t \in Threads, NEW u \in Threads,
             Fork(w, t, u)
      PROVE  ClaimsPending'
  BY <1>1, <1>7 DEF Fork, ClaimsPending
<1>8. ASSUME UNCHANGED workerVars
      PROVE  ClaimsPending'
  BY <1>8 DEF workerVars, ClaimsPending
<1>9. ASSUME NEW w \in Workers, NEW t \in Threads, WorkerStep(w, t)
      PROVE  ClaimsPending'
  <2>1. CASE EndWait(w, t)
    BY <1>8, <2>1 DEF EndWait
  <2>2. CASE \/ FoundActive(w, t) \/ FoundTerminated(w, t) \/ FoundOther(w, t)
             \/ ClaimFails(w, t) \/ StoreSuspended(w, t) \/ StoreTerminated(w, t)
             \/ StoreFails(w, t) \/ schedule_thread_last(w, t) \/ BoostSchedule(w, t)
             \/ BoostRunNext(w, t)
    BY <1>5, <2>2 DEF FoundActive, FoundTerminated, FoundOther, ClaimFails, StoreSuspended,
       StoreTerminated, StoreFails, schedule_thread_last, BoostSchedule, BoostRunNext
  <2>3. QED
    BY <1>2, <1>3, <1>4, <1>6, <1>9, <2>1, <2>2 DEF WorkerStep
<1>10. ASSUME NEW w \in Workers, NEW t \in Threads, ThreadStep(w, t)
       PROVE  ClaimsPending'
  BY <1>7, <1>8, <1>10 DEF ThreadStep, BeginWait
<1>11. ASSUME NEW r \in Requests, NEW t \in Threads, RequestStep(r, t)
       PROVE  ClaimsPending'
  BY <1>8, <1>11, ZenonT(30) DEF RequestStep, LoadUnchangeable, LoadActive, LoadInactive,
     set_active_state_gives_up, set_active_state, Exchange, ExchangeFails, schedule_thread,
     AbortSet
<1>12. ASSUME NEW r \in Requests, NEW t \in Threads, NewRequest(r, t)
       PROVE  ClaimsPending'
  BY <1>8, <1>12, Zenon DEF NewRequest, Notify, TimerFires, interrupt_thread, AbortTest, Call
<1>13. ASSUME NEW t \in Threads, create_thread(t) \/ cleanup_terminated(t)
       PROVE  ClaimsPending'
  BY <1>8, <1>13 DEF create_thread, cleanup_terminated
<1>14. QED
  BY <1>8, <1>9, <1>10, <1>11, <1>12, <1>13 DEF Next, AllDone, vars

\* In every configuration, also with pending_boost and abort_all_suspended_threads, the
\* tag counts the changes of the state within one life of a thread object.
THEOREM TagsCountStateChanges == Spec => StateChangesAreTagged
<1>1. Init => ClaimsPending
  BY DEF Init, ClaimsPending
<1>2. TypeOK /\ ClaimsPending /\ [Next]_vars => [TaggedChange]_vars
  BY TaggedStep
<1>3. QED
  BY <1>1, <1>2, ClaimsPendingStep, TypeCorrect, PTL
     DEF Spec, StateChangesAreTagged, TaggedChange
=============================================================================
