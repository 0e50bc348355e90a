------------------------------ MODULE ForLoop ------------------------------
(***************************************************************************)
(* A parallel strided loop with an induction object: for_loop_algo::       *)
(* parallel (hpx/parallel/algorithms/for_loop.hpp) cuts the range into     *)
(* chunks (util/detail/chunk_size.hpp) whose size the executor parameters  *)
(* choose, the parallel_executor spawns them in a tree of tasks, and every *)
(* task applies the function to each stride-th element of its chunk.       *)
(*                                                                         *)
(* Elements are their distance from the first one, and the induction       *)
(* variable starts at 0: induction(0).  Time is abstracted: how many       *)
(* iterations fit into the minimal run time of a chunk is any number.      *)
(* Integral and random access ranges, strides above zero.                  *)
(***************************************************************************)
EXTENDS Integers, SequencesExt

CONSTANTS
    Sizes,         \* numbers of elements of the range
    Strides,       \* strides, above 0
    CoreCounts,    \* processing_units_count of the executor
    TaskCounts,    \* num_tasks_ of the executor, above 0: min(128, OS threads) if not given
    Parameters,    \* executor parameters: "auto", "static", "dynamic", "guided";
                   \* "seq" is the sequential policy, which has none
    ChunkSizes,    \* chunk sizes given by the user or by the learned model
    Share,         \* auto_chunk_size tests a 1/Share of the range (100)
    Spread         \* num_spread_ of the parallel_executor (4)

VARIABLES
    size, stride, cores, num_tasks, params, given_size,   \* the call
    stage,         \* where the calling thread is
    begin, count, base_idx, chunk_size,        \* locals of the chunking
    shape,         \* the chunks made: << begin, steps, index >>
    spawns,        \* calls of spawn not made yet: << base, size >>
    results,       \* the chunks that have a task
    finished,      \* the chunks whose task is ready
    calls          \* element -> the induction values it was applied with

callVars == << size, stride, cores, num_tasks, params, given_size >>
localVars == << begin, count, base_idx, chunk_size >>
loopVars == << callVars, stage, localVars, shape, spawns, results, finished, calls >>

CeilDiv(a, b) == (a + b - 1) \div b
SmallerOf(a, b) == IF a < b THEN a ELSE b
LargerOf(a, b) == IF a > b THEN a ELSE b

Elements == 0..Max(Sizes)
max_chunks == SmallerOf(4 * cores, IF params = "guided" THEN size ELSE count)

\* ((n + stride) / stride - 1) * stride, which is never less than a stride.
RoundToStride(n) ==
    IF stride = 1 THEN n ELSE LargerOf(stride, ((n + stride) \div stride - 1) * stride)

Init ==
    /\ size \in Sizes /\ stride \in Strides /\ cores \in CoreCounts
    /\ num_tasks \in TaskCounts
    /\ params \in Parameters /\ given_size \in ChunkSizes
    /\ stage = "call"
    /\ begin = 0 /\ count = size /\ base_idx = 0 /\ chunk_size = 0
    /\ shape = << >> /\ spawns = {} /\ results = {} /\ finished = {}
    /\ calls = [e \in Elements |-> << >>]

\* part_iterations::operator(): the function is applied to every stride-th of
\* the steps elements from first, the induction variable counts from index.
Applied(first, steps, index) ==
    [e \in Elements |->
        IF e \in first..(first + steps - 1) /\ (e - first) % stride = 0
        THEN Append(calls[e], index + (e - first) \div stride)
        ELSE calls[e]]

\* for_loop_algo::sequential runs the loop on the calling thread.
sequential ==
    /\ stage = "call" /\ params = "seq"
    /\ calls' = Applied(0, size, 0)
    /\ stage' = "returned"
    /\ UNCHANGED << callVars, localVars, shape, spawns, results, finished >>

\* for_loop_algo::parallel returns for an empty range.
parallel ==
    /\ stage = "call" /\ params # "seq"
    /\ stage' = IF size = 0 THEN "returned" ELSE "chunking"
    /\ UNCHANGED << callVars, localVars, shape, spawns, results, finished, calls >>
-----------------------------------------------------------------------------
\* get_chunk_size of the executor parameters; count is the one of the call.
parameter_chunk_size(n) ==
    CASE params = "auto" -> CeilDiv(n, cores)
      [] params = "static" -> IF given_size # 0 THEN given_size ELSE CeilDiv(n, 4 * cores)
      [] params = "dynamic" -> given_size
      [] params = "guided" -> LargerOf(given_size, CeilDiv(n, cores))

\* auto_chunk_size tests a long range only.
tests == params = "auto" /\ size > Share * cores

\* The lambda test_function, called by auto_chunk_size: it applies the function
\* to a first part of the range, on the calling thread.
test_function(test) ==
    /\ calls' = Applied(begin, test, base_idx)
    /\ begin' = begin + SmallerOf(test, count)
    /\ count' = count - SmallerOf(test, count)
    /\ base_idx' = base_idx + SmallerOf(test, count)

\* The test took t per iteration: the chunk is as large as fits into the minimal
\* time, or as if there had been no test.
get_chunk_size ==
    /\ stage = "chunking" /\ params # "guided"
    /\ IF tests
       THEN /\ test_function(RoundToStride(size \div Share))
            /\ chunk_size' \in 1..size
       ELSE /\ chunk_size' = parameter_chunk_size(size)
            /\ UNCHANGED << begin, count, base_idx, calls >>
    /\ stage' = "sizing"
    /\ UNCHANGED << callVars, shape, spawns, results, finished >>

\* Rounded to strides, and not so small that there are more than max_chunks;
\* the division by max_chunks traps when the test took all of the range.
get_bulk_iteration_shape_idx ==
    /\ stage = "sizing"
    /\ IF max_chunks = 0
       THEN stage' = "trapped" /\ UNCHANGED chunk_size
       ELSE /\ chunk_size' = RoundToStride(LargerOf(chunk_size, CeilDiv(count, max_chunks)))
            /\ stage' = "shaping"
    /\ UNCHANGED << callVars, begin, count, base_idx, shape, spawns, results, finished, calls >>

\* The same with a variable chunk size, for every chunk anew.
variable_chunk_size ==
    /\ stage = "chunking" /\ params = "guided" /\ count # 0
    /\ chunk_size' = RoundToStride(
           LargerOf(parameter_chunk_size(count), CeilDiv(count, max_chunks)))
    /\ stage' = "shaping"
    /\ UNCHANGED << callVars, begin, count, base_idx, shape, spawns, results, finished, calls >>

\* chunk_size_idx_iterator, and the end of the loop of the variable version.
chunk ==
    /\ stage = "shaping" /\ count # 0
    /\ LET steps == SmallerOf(chunk_size, count)
       IN  /\ shape' = Append(shape, << begin, steps, base_idx >>)
           /\ begin' = begin + steps
           /\ base_idx' = base_idx + steps
           /\ count' = count - steps
    /\ stage' = IF params = "guided" THEN "chunking" ELSE "shaping"
    /\ UNCHANGED << callVars, chunk_size, spawns, results, finished, calls >>

\* bulk_async_execute: one future for each chunk, and the first call of spawn.
bulk_async_execute ==
    /\ stage \in {"chunking", "shaping"} /\ count = 0
    /\ spawns' = {<< 0, Len(shape) >>}
    /\ stage' = "spawning"
    /\ UNCHANGED << callVars, localVars, shape, results, finished, calls >>
-----------------------------------------------------------------------------
Subtrees_rounded_down(base, n) ==
    LET part == LargerOf((n + Spread) \div Spread - 1, num_tasks)
    IN  {<< base + k * part, part >> : k \in 0..((n \div part) - 1)}

\* The calls of spawn that one call for more than num_tasks chunks makes.
Subtrees(base, n) ==
    LET part == LargerOf((n + Spread) \div Spread - 1, num_tasks)
    IN  {<< base + k * part, SmallerOf(part, n - k * part) >> : k \in 0..((n - 1) \div part)}

spawn(call) ==
    /\ stage = "spawning" /\ call \in spawns
    /\ LET base == call[1]
           n == call[2]
       IN  IF n > num_tasks
           THEN spawns' = (spawns \ {call}) \cup Subtrees(base, n) /\ UNCHANGED results
           ELSE /\ spawns' = spawns \ {call}
                /\ results' = results \cup (base + 1)..(base + n)
    /\ UNCHANGED << callVars, stage, localVars, shape, finished, calls >>

\* A task applies the function to its chunk, with its own copy of the
\* induction object.
run_chunk(i) ==
    /\ i \in results \ finished
    /\ calls' = Applied(shape[i][1], shape[i][2], shape[i][3])
    /\ finished' = finished \cup {i}
    /\ UNCHANGED << callVars, stage, localVars, shape, spawns, results >>

\* bulk_async_execute waits for the tree of spawn calls, call_with_index for the
\* tasks.
wait_all ==
    /\ stage = "spawning" /\ spawns = {} /\ results = finished
    /\ stage' = "returned"
    /\ UNCHANGED << callVars, localVars, shape, spawns, results, finished, calls >>

Next ==
    \/ sequential \/ parallel \/ get_chunk_size \/ get_bulk_iteration_shape_idx
    \/ variable_chunk_size \/ chunk \/ bulk_async_execute \/ wait_all
    \/ \E call \in spawns : spawn(call)
    \/ \E i \in results : run_chunk(i)

Spec == Init /\ [][Next]_loopVars
-----------------------------------------------------------------------------
\* Every variable has its type; chunks are inside the range.
TypeOK ==
    /\ stage \in {"call", "chunking", "sizing", "shaping", "spawning", "returned", "trapped"}
    /\ {begin, count, base_idx} \subseteq 0..size /\ chunk_size \in Nat
    /\ \A i \in DOMAIN shape : shape[i][2] > 0 /\ shape[i][1] + shape[i][2] <= size
    /\ finished \subseteq results /\ results \subseteq DOMAIN shape

\* Each stride-th element has the function applied exactly once, however the
\* range was cut, rounded and spawned, and no other element has.
AppliedOnce == stage = "returned" =>
    \A e \in Elements :
        Len(calls[e]) = (IF e < size /\ e % stride = 0 THEN 1 ELSE 0)

\* Chunking divides by zero only where the stride reaches over a whole range that
\* is long enough for auto_chunk_size to test.
TrapsOnWideStridesOnly == 
    stage = "trapped" => size > Share * cores /\ stride >= size

\* induction: the value passed with the element at ordinal position p is i + p.
InductionIsPosition == stage = "returned" =>
    \A e \in Elements : \A k \in DOMAIN calls[e] : calls[e][k] = e \div stride

\* In a loop of stride 1 the induction value of an element is its position, in every
\* chunk and in the test chunk.
UnitInductionIsPosition == stride = 1 => InductionIsPosition
=============================================================================
