--------------------------- MODULE ReductionViews ---------------------------
(***************************************************************************)
(* A reduction object of a parallel loop (hpx/parallel/algorithms/         *)
(* for_loop_reduction.hpp): every invocation of the loop's function gets a *)
(* reference to the view of the worker it starts on, and the views are     *)
(* summed up when the loop is done.                                        *)
(*                                                                         *)
(* The function adds one to its view: it reads the view, may suspend, as   *)
(* HPX threads may anywhere, and stores the result.  A suspended thread    *)
(* frees its worker and goes on on any worker.                             *)
(***************************************************************************)
EXTENDS Integers, FiniteSetsExt

CONSTANTS Workers,
          Invocations,    \* invocations of the function, each in its own task
          Suspending      \* those that suspend

VARIABLES data,           \* the views: data_
          phase,          \* where an invocation is
          worker,         \* the worker it runs on
          view, local,    \* the view it was given, and what it read there
          sum,            \* var_
          met             \* whether two invocations under way shared a view

viewVars == << data, phase, worker, view, local, sum, met >>

AnyWorker == CHOOSE w \in Workers : TRUE

Init ==
    /\ data = [w \in Workers |-> 0]
    /\ phase = [k \in Invocations |-> "created"]
    /\ worker = [k \in Invocations |-> AnyWorker]
    /\ view = [k \in Invocations |-> AnyWorker]
    /\ local = [k \in Invocations |-> 0]
    /\ sum = 0
    /\ met = FALSE

UnderWay == {k \in Invocations : phase[k] \in {"running", "suspended"}}
IsIdle(w) == \A k \in Invocations : phase[k] = "running" => worker[k] # w

\* invoke_iteration: iteration_value gives the view of the worker.
invoke_any_view(k, w) ==
    /\ phase[k] = "created" /\ IsIdle(w)
    /\ phase' = [phase EXCEPT ![k] = "running"]
    /\ worker' = [worker EXCEPT ![k] = w]
    /\ view' = [view EXCEPT ![k] = AnyWorker]
    /\ local' = [local EXCEPT ![k] = data[AnyWorker]]
    /\ met' = (met \/ \E j \in UnderWay : view[j] = AnyWorker)
    /\ UNCHANGED << data, sum >>

invoke_iteration(k, w) ==
    /\ phase[k] = "created" /\ IsIdle(w)
    /\ phase' = [phase EXCEPT ![k] = "running"]
    /\ worker' = [worker EXCEPT ![k] = w]
    /\ view' = [view EXCEPT ![k] = w]
    /\ local' = [local EXCEPT ![k] = data[w]]
    /\ met' = (met \/ \E j \in UnderWay : view[j] = w)
    /\ UNCHANGED << data, sum >>

suspend(k) ==
    /\ phase[k] = "running" /\ k \in Suspending
    /\ phase' = [phase EXCEPT ![k] = "suspended"]
    /\ UNCHANGED << data, worker, view, local, sum, met >>

resume(k, w) ==
    /\ phase[k] = "suspended" /\ IsIdle(w)
    /\ phase' = [phase EXCEPT ![k] = "running"]
    /\ worker' = [worker EXCEPT ![k] = w]
    /\ UNCHANGED << data, view, local, sum, met >>

\* The function stores its result in the view and returns.
store(k) ==
    /\ phase[k] = "running"
    /\ data' = [data EXCEPT ![view[k]] = local[k] + 1]
    /\ phase' = [phase EXCEPT ![k] = "returned"]
    /\ UNCHANGED << worker, view, local, sum, met >>

\* After wait_all: the views are combined.
exit_iteration ==
    /\ \A k \in Invocations : phase[k] = "returned"
    /\ sum = 0
    /\ sum' = MapThenSumSet(LAMBDA w : data[w], Workers)
    /\ UNCHANGED << data, phase, worker, view, local, met >>

Next ==
    \/ \E k \in Invocations :
           \/ \E w \in Workers : invoke_iteration(k, w) \/ resume(k, w)
           \/ suspend(k) \/ store(k)
    \/ exit_iteration

Spec == Init /\ [][Next]_viewVars
-----------------------------------------------------------------------------
\* Every variable has its type.
TypeOK ==
    /\ data \in [Workers -> 0..Cardinality(Invocations)]
    /\ phase \in [Invocations -> {"created", "running", "suspended", "returned"}]
    /\ worker \in [Invocations -> Workers] /\ view \in [Invocations -> Workers]
    /\ sum \in 0..Cardinality(Invocations)

\* reduction: no two concurrently executing invocations share a view.
NoSharedView == \A j, k \in UnderWay : view[j] = view[k] => j = k

\* Two invocations under way share a view only when one of them suspends.
SharedBySuspendedOnly == \A j, k \in UnderWay :
    view[j] = view[k] /\ j # k => {j, k} \cap Suspending # {}

\* When no two invocations shared a view while under way, nothing that one of
\* them added is missing from the result.
SumIsComplete == sum # 0 /\ ~met => sum = Cardinality(Invocations)
=============================================================================
