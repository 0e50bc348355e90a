-------------------------- MODULE ThreadStateWaits --------------------------
(***************************************************************************)
(* ThreadState implements Waits: seen from a synchronisation object, a     *)
(* thread is woken at the moment a compare-exchange makes it pending.      *)
(***************************************************************************)
EXTENDS ThreadState, FiniteSets

\* Made pending, and not yet back in its function.
Awakened(t) ==
    /\ at[t] = "suspending"
    /\ \/ word[t].state = "pending"
       \/ \E w \in Workers : thrd[w] = t /\ wpc[w] = "enter"

UnderWay(t, x) ==
    {r \in Requests : target[r] = t /\ new_ex[r] = x /\ rpc[r] \in {"load", "helper", "exchange"}}


W == INSTANCE Waits WITH
       at <- [t \in Threads |->
                CASE at[t] = "run" -> "run"
                  [] at[t] = "resumed" \/ Awakened(t) -> "woken"
                  [] OTHER -> "waiting"],
       why <- [t \in Threads |-> IF Awakened(t) THEN word[t].ex ELSE why[t]],
       calls <- [p \in Threads \X Exs |-> Cardinality(UnderWay(p[1], p[2]))]

\* The state word, the worker loop and set_thread_state together behave as
\* Waits says: a notified thread is woken, by a call that cannot be dropped.
ImplementsWaits == W!FairWaitsSpec
=============================================================================
