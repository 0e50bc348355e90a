--------------------------- MODULE BarrierPromise ---------------------------
(***************************************************************************)
(* What a barrier promises to the threads that use it again and again:     *)
(* they pass in groups of N, and no member of a group returns before its   *)
(* last member has come.                                                   *)
(***************************************************************************)
EXTENDS Integers, FiniteSets

CONSTANTS Threads, N

VARIABLES group,   \* the threads that came and wait for the rest of their group
          going    \* the members of complete groups that have not returned

Init == group = {} /\ going = {}

Come(t) ==
    /\ t \notin group \cup going
    /\ Cardinality(group) < N - 1
    /\ group' = group \cup {t}
    /\ UNCHANGED going

\* The last thread of a group returns at once.
Complete(t) ==
    /\ t \notin group \cup going
    /\ Cardinality(group) = N - 1
    /\ going' = going \cup group
    /\ group' = {}

Return(t) ==
    /\ t \in going
    /\ going' = going \ {t}
    /\ UNCHANGED group

Next == \E t \in Threads : Come(t) \/ Complete(t) \/ Return(t)

Fairness == \A t \in Threads : WF_<< group, going >>(Return(t))

SafeSpec == Init /\ [][Next]_<< group, going >>
Spec == SafeSpec /\ Fairness
=============================================================================
