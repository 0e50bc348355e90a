------------------------------ MODULE Channel ------------------------------
(***************************************************************************)
(* lcos::local::channel over a receive_buffer (hpx/lcos/local/channel.hpp, *)
(* receive_buffer.hpp): a map from generations to promises.  The value of  *)
(* a promise is set after the lock of the channel is released, and close   *)
(* gives the lock up before it cancels what waits.                         *)
(***************************************************************************)
EXTENDS Integers, FiniteSets

CONSTANTS Users,      \* threads that use the channel, each for one operation
          Blocking    \* users whose get is the blocking one

VARIABLES get_generation, set_generation, closed,
          buffer_map,     \* the generations that have an entry
          deletable,      \* entries with can_be_deleted_
          value_set,      \* entries with value_set_
          promise,        \* what the promise of an entry was given: a user, or an exception
          overtaken,      \* close cancelled an entry while its value was being set
          op, upc, gen,   \* of every user: operation, place, generation
          refs            \* users that still have the channel

buffer == << buffer_map, deletable, value_set, promise >>
channelVars == << get_generation, set_generation, closed, buffer, overtaken, op, upc, gen, refs >>

Generations == 1..Cardinality(Users)
nothing == "nothing"
cancelled == "cancelled"

Init ==
    /\ get_generation = 0 /\ set_generation = 0 /\ closed = FALSE
    /\ buffer_map = {} /\ deletable = {} /\ value_set = {}
    /\ promise = [g \in Generations |-> nothing]
    /\ overtaken = FALSE
    /\ op = [u \in Users |-> "none"]
    /\ upc = [u \in Users |-> "out"]
    /\ gen = [u \in Users |-> 0]
    /\ refs = Users

Calls(u, o) ==
    /\ op[u] = "none" /\ u \in refs
    /\ op' = [op EXCEPT ![u] = o]

goto(u, p) == upc' = [upc EXCEPT ![u] = p]

\* receive: the future of an entry, which is made if there is none.  The second of
\* receive and store_received erases it.
receive(g) ==
    IF g \in deletable
      THEN /\ buffer_map' = buffer_map \ {g}
           /\ deletable' = deletable \ {g}
           /\ promise' = promise
      ELSE /\ buffer_map' = buffer_map \cup {g}
           /\ deletable' = deletable \cup {g}
           /\ promise' = [promise EXCEPT ![g] = nothing]

receives(u, g) ==
    /\ receive(g)
    /\ gen' = [gen EXCEPT ![u] = g]
    /\ goto(u, "waits")
    /\ UNCHANGED value_set

fails(u) ==
    /\ goto(u, "failed")
    /\ UNCHANGED << buffer, gen >>

get_fails(u) ==
    /\ Calls(u, "get")
    /\ buffer_map = {} /\ (closed \/ (u \in Blocking /\ refs = {u}))
    /\ fails(u)
    /\ UNCHANGED << get_generation, set_generation, closed, overtaken, refs >>

get(u) ==
    /\ Calls(u, "get")
    /\ ~(buffer_map = {} /\ (closed \/ (u \in Blocking /\ refs = {u})))
    /\ get_generation' = get_generation + 1
    /\ IF closed /\ get_generation' \notin buffer_map THEN fails(u)
       ELSE receives(u, get_generation')
    /\ UNCHANGED << set_generation, closed, overtaken, refs >>

try_get(u) ==
    /\ Calls(u, "try_get")
    /\ IF buffer_map = {} /\ closed
         THEN fails(u) /\ UNCHANGED get_generation
         ELSE /\ get_generation' = get_generation + 1
              /\ receives(u, get_generation')
    /\ UNCHANGED << set_generation, closed, overtaken, refs >>

set_fails(u) ==
    /\ Calls(u, "set")
    /\ closed
    /\ fails(u)
    /\ UNCHANGED << get_generation, set_generation, closed, overtaken, refs >>

\* set, up to the end of store_received's critical section ...
set(u) ==
    /\ Calls(u, "set")
    /\ ~closed
    /\ set_generation' = set_generation + 1
    /\ receive(set_generation')
    /\ gen' = [gen EXCEPT ![u] = set_generation']
    /\ goto(u, "sets")
    /\ UNCHANGED << get_generation, closed, value_set, overtaken, refs >>

\* ... and entry_data::set_value without the lock ...
set_value(u) ==
    /\ upc[u] = "sets"
    /\ value_set' = value_set \cup {gen[u]}
    /\ promise' = [promise EXCEPT ![gen[u]] = u]
    /\ goto(u, "set")
    /\ UNCHANGED << get_generation, set_generation, closed, buffer_map, deletable, overtaken, op, gen, refs >>

\* ... which throws if the entry was cancelled meanwhile.
set_value_fails(u) ==
    /\ upc[u] = "sets late"
    /\ goto(u, "failed")
    /\ UNCHANGED << get_generation, set_generation, closed, buffer, overtaken, op, gen, refs >>

\* A future is ready.
got(u) ==
    /\ upc[u] = "waits"
    /\ promise[gen[u]] # nothing
    /\ goto(u, "got")
    /\ UNCHANGED << get_generation, set_generation, closed, buffer, overtaken, op, gen, refs >>

close_fails(u) ==
    /\ Calls(u, "close")
    /\ closed
    /\ fails(u)
    /\ UNCHANGED << get_generation, set_generation, closed, overtaken, refs >>

close(u) ==
    /\ Calls(u, "close")
    /\ ~closed
    /\ closed' = TRUE
    /\ goto(u, IF buffer_map = {} THEN "closed" ELSE "cancels")
    /\ UNCHANGED << get_generation, set_generation, buffer, overtaken, gen, refs >>

cancel_nothing(u) ==
    /\ upc[u] = "cancels"
    /\ goto(u, "closed")
    /\ UNCHANGED << get_generation, set_generation, closed, buffer, overtaken, op, gen, refs >>

cancel_all(u) ==
    /\ upc[u] = "cancels"
    /\ promise' = [g \in Generations |-> IF g \in buffer_map THEN cancelled ELSE promise[g]]
    /\ buffer_map' = {} /\ deletable' = {}
    /\ goto(u, "closed")
    /\ UNCHANGED << get_generation, set_generation, closed, value_set, overtaken, op, gen, refs >>

\* The users whose value is being set in one of these entries.
Late(them) == {s \in Users : upc[s] = "sets" /\ gen[s] \in them}

\* The exception was made without the lock; all entries whose value is not set are
\* cancelled, be it that the value is being set.
cancel_waiting(u) ==
    /\ upc[u] = "cancels"
    /\ LET them == buffer_map \ value_set
       IN  /\ promise' = [g \in Generations |-> IF g \in them THEN cancelled ELSE promise[g]]
           /\ buffer_map' = buffer_map \ them
           /\ deletable' = deletable \ them
           /\ overtaken' = (overtaken \/ Late(them) # {})
           /\ upc' = [v \in Users |-> IF v = u THEN "closed"
                                      ELSE IF v \in Late(them) THEN "sets late" ELSE upc[v]]
    /\ UNCHANGED << get_generation, set_generation, closed, value_set, op, gen, refs >>

\* The value of s is set after cancel has tested value_set_ and before it sets the
\* exception, which throws out of close: the entries before that one are cancelled,
\* it and those after it are not.
cancel_throws(u, s) ==
    /\ upc[u] = "cancels"
    /\ s \in Late(buffer_map \ value_set)
    /\ LET them == {g \in buffer_map \ value_set : g < gen[s]}
       IN  /\ promise' = [g \in Generations |-> IF g \in them THEN cancelled
                                                ELSE IF g = gen[s] THEN s ELSE promise[g]]
           /\ buffer_map' = buffer_map \ them
           /\ deletable' = deletable \ them
           /\ overtaken' = (overtaken \/ Late(them) # {})
           /\ upc' = [v \in Users |-> IF v = u THEN "failed"
                                        ELSE IF v = s THEN "set"
                                        ELSE IF v \in Late(them) THEN "sets late" ELSE upc[v]]
    /\ value_set' = value_set \cup {gen[s]}
    /\ UNCHANGED << get_generation, set_generation, closed, op, gen, refs >>

\* A user that is done gives up the channel.
drop(u) ==
    /\ u \in refs /\ upc[u] \in {"got", "failed", "set", "closed"}
    /\ refs' = refs \ {u}
    /\ UNCHANGED << get_generation, set_generation, closed, buffer, overtaken, op, upc, gen >>

Proceed(u) == set_value(u) \/ set_value_fails(u) \/ got(u) \/ cancel_waiting(u)

Next == \E u \in Users :
    \/ get_fails(u) \/ get(u) \/ try_get(u) \/ set_fails(u) \/ set(u)
    \/ close_fails(u) \/ close(u) \/ Proceed(u) \/ drop(u)
    \/ \E s \in Users : cancel_throws(u, s)

Fairness == \A u \in Users : WF_channelVars(Proceed(u))
Spec == Init /\ [][Next]_channelVars
FairSpec == Spec /\ Fairness

-----------------------------------------------------------------------------
Getters(g) == {u \in Users : op[u] \in {"get", "try_get"} /\ gen[u] = g}
Setters(g) == {u \in Users : op[u] = "set" /\ gen[u] = g}

\* Every variable has its type; generations are counted from the first.
TypeOK ==
    /\ get_generation \in 0..Cardinality(Users) /\ set_generation \in 0..Cardinality(Users)
    /\ deletable = buffer_map          \* the assertion in entry_data::cancel
    /\ value_set \subseteq Generations
    /\ promise \in [Generations -> Users \cup {nothing, cancelled}]

\* Each value goes to one getter, each getter is given one value, and the values are
\* given to the getters in the order in which set and get were called: the entry of
\* a generation exists while exactly one of the two has come.
OneValuePerGetter ==
    \A g \in Generations :
        /\ Cardinality(Getters(g)) <= 1 /\ Cardinality(Setters(g)) <= 1
        /\ promise[g] \notin {nothing, cancelled} => Setters(g) = {promise[g]}
        /\ g \in buffer_map /\ ~overtaken => (Getters(g) = {}) # (Setters(g) = {})

\* A value that set was given is in the buffer until a getter has its future: a
\* close that cancels while the value is being set is reported to the caller of set.
NoValueIsLost ==
    \A u \in Users : upc[u] = "set" =>
        promise[gen[u]] = u /\ (Getters(gen[u]) # {} \/ gen[u] \in buffer_map)

\* All requests which cannot be satisfied are cancelled by close (channel.hpp:200):
\* nobody waits for a value that no set is going to bring, unless close overtook a
\* set; then a later try_get can ask for the value that was taken away.
CloseReleasesGetters ==
    closed /\ ~overtaken /\ (\A u \in Users : upc[u] # "cancels") =>
        \A u \in Users : upc[u] = "waits" =>
            promise[gen[u]] # nothing \/ \E s \in Setters(gen[u]) : upc[s] = "sets"
=============================================================================
