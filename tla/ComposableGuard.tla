--------------------------- MODULE ComposableGuard ---------------------------
(***************************************************************************)
(* run_guarded on a guard or a guard_set (hpx/lcos/local/                  *)
(* composable_guard.hpp, src/lcos/local/composable_guard.cpp): a task runs *)
(* alone on each of its guards, and nobody waits.  A guard is the end of a *)
(* list of guard_task nodes that is linked by two atomic operations, and   *)
(* the nodes are freed by whoever comes last.  Every task is given to the  *)
(* guards by a thread of its own, which may then run tasks of others.      *)
(***************************************************************************)
EXTENDS Integers, FiniteSets, SequencesExt

CONSTANTS Tasks,     \* a set of positive numbers
          Guards     \* a set of numbers, ordered as the addresses of the guards

VARIABLES need,      \* the guards of a task
          task,      \* guard::task
          next,      \* guard_task::next
          freed,     \* deleted nodes, each with how often it was deleted
          entered,   \* nodes that were put into their guard
          alive,     \* guards whose destructor did not run
          stack,     \* what the thread of a task has left to do
          running,   \* tasks in their function
          ran        \* how often a task was run

guardVars == << need, task, next, freed, entered, alive, stack, running, ran >>

\* guard_set::sort.
sort(S) == SetToSortSeq(S, <)
Needs(t) == Cardinality(need[t])

\* Node k of a task waits at its k-th guard.
nullptr == << 0, 0 >>
empty == << 0, 1 >>
Nodes == Tasks \X (1..Cardinality(Guards)) \cup {empty}

Init ==
    /\ need \in [Tasks -> SUBSET Guards \ {{}}]
    /\ task = [g \in Guards |-> nullptr]
    /\ next = [x \in Nodes |-> nullptr]
    /\ freed = [x \in Nodes |-> 0]
    /\ entered = {}
    /\ alive = Guards
    /\ stack = [t \in Tasks |-> << [op |-> "enter", node |-> << t, 1 >>, prev |-> nullptr] >>]
    /\ running = {}
    /\ ran = [t \in Tasks |-> 0]

Do(o, x) == [op |-> o, node |-> x, prev |-> nullptr]

\* The thread of t is about to do o for the node x, and goes on with s instead.
Top(t, o) == stack[t] # << >> /\ Head(stack[t]).op = o
node(t) == Head(stack[t]).node
Becomes(t, s) == stack' = [stack EXCEPT ![t] = s \o Tail(@)]

GuardOf(x) == sort(need[x[1]])[x[2]]

-----------------------------------------------------------------------------
\* run_guarded: the exchange of guard::task ...
enter(t) ==
    /\ Top(t, "enter")
    /\ LET x == node(t)
           g == GuardOf(x)
       IN  /\ task' = [task EXCEPT ![g] = x]
           /\ entered' = entered \cup {x}
           /\ Becomes(t, IF task[g] = nullptr THEN << Do("run", x) >>
                         ELSE << [op |-> "link", node |-> x, prev |-> task[g]] >>)
    /\ UNCHANGED << need, next, freed, alive, running, ran >>

link_runs_too(t) ==
    /\ Top(t, "link")
    /\ LET x == node(t)
           prev == Head(stack[t]).prev
       IN  /\ next' = IF next[prev] = nullptr THEN [next EXCEPT ![prev] = x] ELSE next
           /\ Becomes(t, << Do("run", x) >>)
    /\ UNCHANGED << need, task, freed, entered, alive, running, ran >>

\* ... and the link from the node before, whose task has finished if that fails.
link(t) ==
    /\ Top(t, "link")
    /\ LET x == node(t)
           prev == Head(stack[t]).prev
       IN  IF next[prev] = nullptr
             THEN next' = [next EXCEPT ![prev] = x] /\ Becomes(t, << >>)
             ELSE next' = next /\ Becomes(t, << Do("run", x), Do("free", prev) >>)
    /\ UNCHANGED << need, task, freed, entered, alive, running, ran >>

\* run_composable and stage_task: the function is called at the last guard.
run_nothing(t) ==
    /\ Top(t, "run") /\ node(t) = empty
    /\ Becomes(t, << >>)
    /\ UNCHANGED << need, task, next, freed, entered, alive, running, ran >>

stage_task(t) ==
    /\ Top(t, "run") /\ node(t) # empty
    /\ LET x == node(t) IN
         /\ x[2] < Needs(x[1])
         /\ Becomes(t, << Do("enter", << x[1], x[2] + 1 >>) >>)
    /\ UNCHANGED << need, task, next, freed, entered, alive, running, ran >>

call_function(t) ==
    /\ Top(t, "run") /\ node(t) # empty
    /\ LET x == node(t) IN
         /\ x[2] = Needs(x[1])
         /\ running' = running \cup {x[1]}
         /\ Becomes(t, << Do("body", x) >>)
    /\ UNCHANGED << need, task, next, freed, entered, alive, ran >>

function_returns(t) ==
    /\ Top(t, "body")
    /\ LET x == node(t) IN
         /\ running' = running \ {x[1]}
         /\ ran' = [ran EXCEPT ![x[1]] = @ + 1]
         /\ Becomes(t, << Do("release", << x[1], 1 >>) >>)
    /\ UNCHANGED << need, task, next, freed, entered, alive >>

\* run_composable_cleanup, and the loop of stage_task_cleanup: mark the node as
\* finished, or run the task that was linked to it.
release(t) ==
    /\ Top(t, "release")
    /\ LET x == node(t)
           rest == IF x[2] < Needs(x[1]) THEN << Do("release", << x[1], x[2] + 1 >>) >> ELSE << >>
       IN  IF next[x] = nullptr
             THEN next' = [next EXCEPT ![x] = x] /\ Becomes(t, rest)
             ELSE next' = next /\ Becomes(t, << Do("run", next[x]), Do("free", x) >> \o rest)
    /\ UNCHANGED << need, task, freed, entered, alive, running, ran >>

free_early(t) ==
    /\ Top(t, "link")
    /\ freed' = [freed EXCEPT ![Head(stack[t]).prev] = @ + 1]
    /\ UNCHANGED << need, task, next, entered, alive, stack, running, ran >>

free(t) ==
    /\ Top(t, "free")
    /\ freed' = [freed EXCEPT ![node(t)] = @ + 1]
    /\ Becomes(t, << >>)
    /\ UNCHANGED << need, task, next, entered, alive, running, ran >>

\* ~guard, when no task is on its way to the guard.
OnTheWay(g) ==
    \E t \in Tasks, k \in 1..Cardinality(Guards) :
        k <= Needs(t) /\ GuardOf(<< t, k >>) = g /\ << t, k >> \notin entered

destroy(g) ==
    /\ g \in alive
    /\ ~OnTheWay(g)
    /\ alive' = alive \ {g}
    /\ LET current == task[g] IN
         IF current = nullptr THEN UNCHANGED << next, freed >>
         ELSE IF next[current] = nullptr
           THEN next' = [next EXCEPT ![current] = empty] /\ UNCHANGED freed
           ELSE freed' = [freed EXCEPT ![next[current]] = @ + 1] /\ UNCHANGED next
    /\ UNCHANGED << need, task, entered, stack, running, ran >>

Thread(t) ==
    \/ enter(t) \/ link(t) \/ run_nothing(t) \/ stage_task(t)
    \/ call_function(t) \/ function_returns(t) \/ release(t) \/ free(t)

Next == (\E t \in Tasks : Thread(t)) \/ (\E g \in Guards : destroy(g))

Fairness == \A t \in Tasks : WF_guardVars(Thread(t))
Spec == Init /\ [][Next]_guardVars
FairSpec == Spec /\ Fairness

-----------------------------------------------------------------------------
\* Every variable has its type; a task is at one of its guards.
TypeOK ==
    /\ task \in [Guards -> Nodes \cup {nullptr}]
    /\ next \in [Nodes -> Nodes \cup {nullptr}]
    /\ running \subseteq Tasks /\ ran \in [Tasks -> Nat]

\* Two tasks that share a guard are never in their functions at the same time, and
\* no task is run twice.
GuardsExclude ==
    /\ \A s, t \in running : s # t => need[s] \cap need[t] = {}
    /\ \A t \in Tasks : ran[t] <= 1

\* A node is deleted once, and not while a thread is still going to use it or a
\* guard leads to it (guard_task::check).
NoUseAfterFree ==
    /\ \A x \in Nodes : freed[x] <= 1
    /\ freed[empty] = 0
    /\ \A t \in Tasks : \A i \in 1..Len(stack[t]) :
         /\ freed[stack[t][i].node] = 0
         /\ stack[t][i].prev # nullptr => freed[stack[t][i].prev] = 0
    /\ \A g \in alive : task[g] # nullptr => freed[task[g]] = 0

\* When every task has run, every thread is done and every guard is destroyed, every node was deleted.
NothingLeaks ==
    alive = {} /\ (\A t \in Tasks : stack[t] = << >> /\ ran[t] = 1) =>
        \A t \in Tasks, k \in 1..Cardinality(Guards) : k <= Needs(t) => freed[<< t, k >>] = 1

\* Every task is run, although no thread waits for a guard: also tasks that ask for
\* several guards, which guard_set::sort puts in one order.
EveryTaskRuns == \A t \in Tasks : <>(ran[t] = 1)
=============================================================================
