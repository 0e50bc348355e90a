--------------------------- MODULE LearnedWeights ---------------------------
(***************************************************************************)
(* The learned chunk size of a loop: chunk_size_determination reads the    *)
(* weights of the trained model when the first loop asks for them          *)
(* (hpx/parallel/reading_learning_weights.hpp), without any lock, and      *)
(* takes the class whose weights give the highest score.  The prefetching  *)
(* distance is determined by a twin of this code.                          *)
(*                                                                         *)
(* A row of the table is the class it belongs to, and scores gives the     *)
(* score each row has for the features of the loop.  Two calls of push_back *)
(* at a time are a data race on the vector: a row may be lost.  A copy of  *)
(* the vector during a push_back is one too: it may miss rows.  Asserts    *)
(* are compiled out.                                                       *)
(***************************************************************************)
EXTENDS Integers, SequencesExt

CONSTANTS
    Loops,          \* threads that run a loop with adaptive_chunk_size
    Classes,        \* the file has one row for each of the classes 1..Classes,
                    \* and so many candidates there are
    MaxScore,       \* bound: scores are from -1 to MaxScore
    MaxLoops        \* bound: loops of one thread

VARIABLES
    weights,        \* weights_chunk_size
    scores,         \* the score of each row; the same for all loops
    step,           \* where each thread is in chunk_size_determination
    line,           \* the line of the file it reads next
    class,          \* determined_class of its last loop, from 1; 0 before
    loops,          \* loops it has run
    early,          \* its last call began while another read the file
    first           \* the calls that found the table empty

weightVars == << weights, scores, step, line, class, loops, early, first >>

Init ==
    /\ weights = << >>
    /\ scores \in [1..Classes -> -1..MaxScore]
    /\ step = [t \in Loops |-> "idle"]
    /\ line = [t \in Loops |-> 1]
    /\ class = [t \in Loops |-> 0]
    /\ loops = [t \in Loops |-> 0]
    /\ early = [t \in Loops |-> FALSE]
    /\ first = 0

Reading == {t \in Loops : step[t] \in {"reading", "pushing"}}
Pushing == {t \in Loops : step[t] = "pushing"}

Enter(t, reads) ==
    /\ step[t] = "idle" /\ loops[t] < MaxLoops
    /\ loops' = [loops EXCEPT ![t] = @ + 1]
    /\ step' = [step EXCEPT ![t] = IF reads THEN "reading" ELSE "scoring"]
    /\ line' = [line EXCEPT ![t] = 1]
    /\ early' = [early EXCEPT ![t] = Reading # {}]
    /\ first' = IF weights = << >> THEN first + 1 ELSE first
    /\ UNCHANGED << weights, scores, class >>


\* retreiving_weights_chunk_size reads the file if the table is empty.
retreiving(t) == Enter(t, weights = << >>)

\* reading_weights_chunk_size: one row for each line of the file.
reading(t) ==
    /\ step[t] = "reading"
    /\ step' = [step EXCEPT ![t] = IF line[t] <= Classes THEN "pushing" ELSE "scoring"]
    /\ UNCHANGED << weights, scores, line, class, loops, early, first >>

push_back(t) ==
    /\ step[t] = "pushing"
    /\ \/ weights' = Append(weights, line[t])
       \/ Pushing # {t} /\ UNCHANGED weights
    /\ line' = [line EXCEPT ![t] = @ + 1]
    /\ step' = [step EXCEPT ![t] = "reading"]
    /\ UNCHANGED << scores, class, loops, early, first >>

\* What a call may get as its copy of the table.
Copies ==
    IF Pushing = {} THEN {weights} ELSE {SubSeq(weights, 1, n) : n \in 0..Len(weights)}

\* The loop over the rows: max starts from 0.0, and the class from the first.
MaxScored(table) ==
    LET better(best, w) == IF best.max < scores[table[w]]
                           THEN [max |-> scores[table[w]], determined_class |-> w]
                           ELSE best
    IN  FoldLeftDomain(better, [max |-> 0, determined_class |-> 1], table).determined_class

\* The copy of the table that is returned, and the loop over its rows.
chunk_size_determination(t) ==
    /\ step[t] = "scoring"
    /\ \E table \in Copies : class' = [class EXCEPT ![t] = MaxScored(table)]
    /\ step' = [step EXCEPT ![t] = "idle"]
    /\ UNCHANGED << weights, scores, line, loops, early, first >>

Next == \E t \in Loops :
    retreiving(t) \/ reading(t) \/ push_back(t) \/ chunk_size_determination(t)

Spec == Init /\ [][Next]_weightVars
-----------------------------------------------------------------------------
\* Every variable has its type; a row in the table is one of the file.
TypeOK ==
    /\ weights \in Seq(1..Classes)
    /\ step \in [Loops -> {"idle", "reading", "pushing", "scoring"}]
    /\ line \in [Loops -> 1..(Classes + 1)] /\ loops \in [Loops -> 0..MaxLoops]
    /\ class \in [Loops -> Nat] /\ early \in [Loops -> BOOLEAN] /\ first \in Nat

\* A call that went all the way with nobody reading the file as it began.
Undisturbed(t) == step[t] = "idle" /\ class[t] # 0 /\ ~early[t]


\* The comment in chunk_size_determination: the class is that of the maximum.
ClassIsMaximum == first = 1 =>
    \A t \in Loops : Undisturbed(t) => \A c \in 1..Classes : scores[c] <= scores[class[t]]

\* The assert of reading_weights_chunk_size: it is entered with an empty table.
ReadsIntoEmptyTable == \A t \in Loops : step[t] = "reading" /\ line[t] = 1 => weights = << >>
=============================================================================
