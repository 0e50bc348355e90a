---------------------------- MODULE AsyncObjects ----------------------------
(***************************************************************************)
(* The objects that are built on futures and atomic operations rather than *)
(* on a condition variable of their own: waiting for some of a list of     *)
(* futures, the frames that walk over futures, channels, composable guards *)
(* and call_once.  A behaviour is about one of them.                       *)
(***************************************************************************)
EXTENDS Integers, FiniteSets, Sequences

CONSTANTS Parts,                              \* the parts considered
          Kinds, Size, MaxYields, Strays,     \* see the modules of the parts
          Frames, Width,
          Tasks, Guards,
          Users, Blocking,
          Callers, MaxThrows

ASSUME AsyncAssumption ==
    /\ Parts \subseteq {"wait_some", "frame", "guard", "channel", "once"}
    /\ Kinds \subseteq {"wait_some", "when_some", "when_any"}
    /\ Frames \subseteq {"wait_all", "when_all", "when_each", "dataflow", "then", "then_future", "unwrap"}
    /\ Strays \subseteq {"none", "armed"}
    /\ Size \in Nat \ {0} /\ Width \in Nat \ {0, 1} /\ {MaxYields, MaxThrows} \subseteq Nat
    /\ Tasks \subseteq Nat \ {0} /\ Guards \subseteq Nat /\ Blocking \subseteq Users
    /\ Callers \subseteq Nat

VARIABLES part,
          kind, needed, deferred, stray, ready, cb, count, goal, indices, result,   \* WaitSome
          wpc, idx, word, phase, prev, dropped,
          frame, needed_count, policy, delayed, timer, outcome, attached, pos,      \* FutureFrames
          pc, depth, done, started, calls, value, completions,
          need, task, next, freed, entered, alive, stack, running, ran,             \* ComposableGuard
          get_generation, set_generation, closed, buffer_map, deletable, value_set, \* Channel
          promise, overtaken, op, upc, gen, refs,
          status, event_, opc, throws, completed                                    \* OnceFlag

waitOwn == << kind, needed, deferred, stray, ready, cb, count, goal, indices, result,
              wpc, idx, word, phase, prev, dropped >>
frameOwn == << frame, needed_count, policy, delayed, timer, outcome, attached, pos,
               pc, depth, done, started, calls, value, completions >>
guardOwn == << need, task, next, freed, entered, alive, stack, running, ran >>
channelOwn == << get_generation, set_generation, closed, buffer_map, deletable, value_set,
                 promise, overtaken, op, upc, gen, refs >>
onceOwn == << status, event_, opc, throws, completed >>
vars == << part, waitOwn, frameOwn, guardOwn, channelOwn, onceOwn >>

W == INSTANCE WaitSome
F == INSTANCE FutureFrames
G == INSTANCE ComposableGuard
H == INSTANCE Channel
O == INSTANCE OnceFlag

\* The choices of the parts that a behaviour is not about are fixed.
Init ==
    /\ part \in Parts
    /\ part # "wait_some" => /\ kind = "wait_some" /\ needed = 1
                             /\ deferred = {} /\ stray = "none"
    /\ part # "frame" => /\ frame = "then" /\ policy = "sync"
                         /\ needed_count = 0 /\ delayed = {} /\ timer = "none"
    /\ part # "guard" => need = [t \in Tasks |-> Guards]
    /\ W!Init /\ F!Init /\ G!Init /\ H!Init /\ O!Init

WaitOnly == part = "wait_some" /\ UNCHANGED << part, frameOwn, guardOwn, channelOwn, onceOwn >>
FrameOnly == part = "frame" /\ UNCHANGED << part, waitOwn, guardOwn, channelOwn, onceOwn >>
GuardOnly == part = "guard" /\ UNCHANGED << part, waitOwn, frameOwn, channelOwn, onceOwn >>
ChannelOnly == part = "channel" /\ UNCHANGED << part, waitOwn, frameOwn, guardOwn, onceOwn >>
OnceOnly == part = "once" /\ UNCHANGED << part, waitOwn, frameOwn, guardOwn, channelOwn >>

Next ==
    \/ WaitOnly /\ W!Next
    \/ FrameOnly /\ F!Next
    \/ GuardOnly /\ G!Next
    \/ ChannelOnly /\ H!Next
    \/ OnceOnly /\ O!Next

\* Every thread goes on: the one that waits for some futures, those that walk in a
\* frame, those that give tasks to guards, and those in call_once; a callback that
\* is due is called.
Proceed(t) ==
    \/ WaitOnly /\ t = 0 /\ W!Waiter
    \/ WaitOnly /\ t \in 1..Size /\ W!Callback(t)
    \/ FrameOnly /\ t \in 0..(Width + 1) /\ F!Thread(t)
    \/ GuardOnly /\ t \in Tasks /\ G!Thread(t)
    \/ OnceOnly /\ t \in Callers /\ O!Caller(t)

Fairness == \A t \in 0..Size \cup 0..(Width + 1) \cup Tasks \cup Callers : WF_vars(Proceed(t))

Spec == Init /\ [][Next]_vars
FairSpec == Spec /\ Fairness
-----------------------------------------------------------------------------
\* Every variable of the part has its type.
TypeOK ==
    /\ part = "wait_some" => W!TypeOK
    /\ part = "frame" => F!TypeOK
    /\ part = "guard" => G!TypeOK
    /\ part = "channel" => H!TypeOK
    /\ part = "once" => O!TypeOK

\* Nothing returns before enough futures are ready, and results name ready futures only:
\* wait_some and when_some, although they also count elements they never looked at and unless
\* the timer of an earlier wait woke the thread up (the assertion wait_some.hpp:344 then
\* fails); the frames, where an unwrapped future is an exception if one of the two is.
NotBeforeReady ==
    CASE part = "wait_some" -> W!EnoughAreReady /\ W!ResultNamesReadyFutures
      [] part = "frame" -> F!CompletesInTime
      [] OTHER -> TRUE

\* The count is completed once, by the thread itself or by exactly one callback that calls
\* set_thread_state; and a thread that sleeps although enough futures are ready has that
\* callback on its way to it, unless the call met it in a phase or state not expected.
WokenOnce == part = "wait_some" => W!OneWakeUp /\ W!NotStranded

\* A node is deleted once, not while a thread is still going to use it or a guard
\* leads to it (guard_task::check), and when every task has run and every guard is
\* destroyed none is left.
NodesAreFreedOnce == part = "guard" => G!NoUseAfterFree /\ G!NothingLeaks

\* Each value goes to one getter, in the order in which set and get were called, and is in
\* the buffer until a getter has its future: a close that cancels while the value is being
\* set is reported to the caller of set.
ValuesReachGetters == part = "channel" => H!OneValuePerGetter /\ H!NoValueIsLost

\* The members a frame changes without a lock (count_, f_, t_ and futures_) belong to
\* one thread at a time: either one thread is inside the frame, or the callback is
\* attached to one future, or the function waits to be finalized.
OneWalker == part = "frame" => F!OneWalker

\* The function of a continuation or a dataflow runs at most once, when_each calls
\* its function for the first futures in order, and no frame is completed twice
\* (set_value would throw promise_already_satisfied).
OnceAndInOrder == part = "frame" => F!OnceAndInOrder

\* wait_all keeps a reference to its caller's futures: no thread walks over them
\* after wait_all has returned, unless the timer of an earlier wait ended it.
NothingWalksAfterReturn == part = "frame" => F!NothingWalksAfterReturn

\* Two tasks that share a guard are never in their functions at the same time, and
\* no task is run twice.
GuardsExclude == part = "guard" => G!GuardsExclude

\* All requests which cannot be satisfied are cancelled by close (channel.hpp:200):
\* nobody waits for a value that no set is going to bring, unless close overtook a
\* set; then a later try_get can ask for the value that was taken away.
CloseReleasesGetters == part = "channel" => H!CloseReleasesGetters

\* One caller at a time runs the function, it returns normally only once, and
\* call_once returns only after that.
CalledOnce == part = "once" => O!CalledOnce

\* What the parts still owe.  Once enough futures are ready the thread that waits for some
\* of them returns, or a call to it was dropped; a frame completes when its futures
\* are ready; every task given to guards is run, though tasks may ask for several
\* guards; every caller of call_once returns or throws, though the event it waits for
\* is reset by the next one to run the function.
Owed ==
    CASE part = "wait_some" -> Cardinality(ready) >= needed /\ wpc # "returned" /\ ~dropped
      [] part = "frame" -> F!Settled /\ value = "none"
      [] part = "guard" -> \E t \in Tasks : ran[t] # 1
      [] part = "channel" -> FALSE
      [] part = "once" -> \E t \in Callers : opc[t] \notin {"returned", "threw"}

\* What is owed comes: none of it is taken back once it is there.
EverybodyGetsOn == []<>~Owed

\* wait_any returns after at least one future has become ready (wait_any.hpp:53).
WaitAnyReturns == (part = "wait_some" /\ needed = 1 /\ ready # {}) ~> wpc = "returned"
=============================================================================
