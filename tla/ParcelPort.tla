----------------------------- MODULE ParcelPort -----------------------------
(***************************************************************************)
(* How parcels are sent over cached connections                            *)
(* (hpx/runtime/parcelset/parcelport_impl.hpp with                         *)
(* hpx/util/connection_cache.hpp): the threads that put parcels, the       *)
(* background thread that looks for pending ones, and the I/O thread that  *)
(* completes the writes.  Parcels and connections to a destination are     *)
(* counted.  Every operation of the cache is one step, under its mutex.    *)
(***************************************************************************)
EXTENDS Integers, SequencesExt

CONSTANTS Dests,             \* the other localities
          Putters,           \* the threads that put parcels
          MaxParcels,
          MaxConnections, PerLocality,
          MaxFaults,         \* connections that cannot be made, writes that fail, and
                             \* localities removed from the cache
          SizeT              \* 2 to the width of size_t, in small

VARIABLES pending,           \* the parcels of pending_parcels_
          parcel_destinations, num_parcel_destinations,
          cache,
          flight,            \* the writes under way: operations_in_flight_
          place, dest, held, \* a thread, its destination and the parcels it took
          put, faults,
          lost,              \* the places of failed connections, which stay reserved
          stray,             \* an entry was cleared with connections in use
          dangling           \* an erased entry was used

AnyDest == CHOOSE d \in Dests : TRUE
Threads == Putters \cup {"background", "io"}
queued == << pending, parcel_destinations, num_parcel_destinations >>
history == << put, faults, lost, stray, dangling >>
portVars == << queued, cache, flight, place, dest, held, history >>

\* n idle connections to one destination.
Idle(n) ==
    LET count == [d \in Dests |-> IF d = AnyDest THEN n ELSE 0]
    IN [tracker |-> IF n = 0 THEN << >> ELSE << AnyDest >>, connections |-> n,
        cached |-> count, existing |-> count,
        limit |-> [d \in Dests |-> IF d = AnyDest /\ n > 0 THEN PerLocality ELSE 0]]

\* Nothing was sent yet, or one connection was left behind by earlier sends.
Init ==
    /\ pending = [d \in Dests |-> 0]
    /\ parcel_destinations = {} /\ num_parcel_destinations = 0
    /\ cache \in {Idle(0), Idle(1)}
    /\ flight = [d \in Dests |-> 0]
    /\ place = [t \in Threads |-> "idle"]
    /\ dest = [t \in Threads |-> AnyDest]
    /\ held = [t \in Threads |-> 0]
    /\ put = 0 /\ faults = 0
    /\ lost = [d \in Dests |-> 0]
    /\ stray = FALSE /\ dangling = FALSE

GoTo(t, p) == place' = [place EXCEPT ![t] = p]
Fault == faults < MaxFaults /\ faults' = faults + 1
Total(f) == FoldFunction(+, 0, f)

-----------------------------------------------------------------------------
(***************************************************************************)
(* connection_cache.                                                       *)
(***************************************************************************)
Known(c, d) == d \in ToSet(c.tracker)
Touch(c, d) == [c EXCEPT !.tracker = Append(Remove(@, d), d)]
Pop(c, d) == [c EXCEPT !.cached[d] = @ - 1]

increment_connection_count(c, d) ==
    LET n == c.existing[d] + 1
    IN [c EXCEPT !.existing[d] = n, !.connections = @ + 1,
                 !.limit[d] = IF n > 2 * @ THEN (3 * @) \div 2 ELSE @]

decrement_connection_count(c, d) ==
    LET n == (c.existing[d] - 1) % SizeT
    IN [c EXCEPT !.existing[d] = n, !.connections = (@ - 1) % SizeT,
                 !.limit[d] = IF n < @ \div 2 THEN (2 * @) \div 3 ELSE @]

Forget(c, d) ==
    [c EXCEPT !.tracker = Remove(@, d), !.cached[d] = 0, !.existing[d] = 0, !.limit[d] = 0]

\* free_space, from the k-th least recently used entry on.
RECURSIVE free_from(_, _)
free_from(c, k) ==
    IF c.connections < MaxConnections \/ k > Len(c.tracker) THEN c
    ELSE LET d == c.tracker[k]
         IN IF c.cached[d] > 0
            THEN free_from(decrement_connection_count(Pop(c, d), d), k)
            ELSE IF c.existing[d] = 0 THEN free_from(Forget(c, d), 1)
                 ELSE free_from(c, k + 1)

free_space(c) == free_from(c, 1)

HasSpace(c) == c.connections < MaxConnections

\* get_or_reserve of a new locality: a first entry, whatever the space.
NewEntry(c, d) ==
    [c EXCEPT !.tracker = Append(@, d), !.existing[d] = 1, !.limit[d] = PerLocality,
              !.connections = @ + 1]

reclaim(c, d) ==
    IF ~Known(c, d) THEN c
    ELSE LET e == Touch(c, d)
         IN IF e.existing[d] <= e.limit[d] THEN [e EXCEPT !.cached[d] = @ + 1]
            ELSE decrement_connection_count(e, d)

\* Mutant: the failed connection keeps its place.
clear_connection_kept(c, d) == c

clear_connection(c, d) == IF Known(c, d) THEN decrement_connection_count(c, d) ELSE c

clear_locality(c, d) ==
    Forget([c EXCEPT !.connections = (@ - c.existing[d]) % SizeT], d)

-----------------------------------------------------------------------------
(***************************************************************************)
(* Putting parcels, and taking them off.                                   *)
(***************************************************************************)
Enqueue(d, n) ==
    /\ pending' = [pending EXCEPT ![d] = @ + n]
    /\ parcel_destinations' = parcel_destinations \cup {d}
    /\ num_parcel_destinations' = num_parcel_destinations + 1

Start(t, d, p) == GoTo(t, p) /\ dest' = [dest EXCEPT ![t] = d]
Finish(t) == Start(t, AnyDest, "idle")

historyButPut == << faults, lost, stray, dangling >>

put_parcel(t, d) ==
    /\ place[t] = "idle" /\ put < MaxParcels
    /\ Enqueue(d, 1)
    /\ put' = put + 1
    /\ Start(t, d, "dequeue")
    /\ UNCHANGED << cache, flight, held, historyButPut >>

\* Do the background work: every worker thread does, and a putter after a send.
trigger_pending_work(t, d) ==
    /\ t # "io" /\ place[t] = "idle"
    /\ num_parcel_destinations # 0 /\ d \in parcel_destinations
    /\ Start(t, d, "dequeue")
    /\ UNCHANGED << queued, cache, flight, held, history >>

\* dequeue_parcels gives up when others were faster, or hold the mutex.
dequeue_nothing(t) ==
    /\ place[t] = "dequeue"
    /\ pending[dest[t]] = 0
    /\ Finish(t)
    /\ UNCHANGED << queued, cache, flight, held, history >>

dequeue_fails(t) ==
    /\ place[t] = "dequeue"
    /\ \E u \in Threads \ {t} : place[u] # "idle"
    /\ Finish(t)
    /\ UNCHANGED << queued, cache, flight, held, history >>

dequeue_parcels(t) ==
    LET d == dest[t]
    IN /\ place[t] = "dequeue"
       /\ pending[d] > 0
       /\ held' = [held EXCEPT ![t] = pending[d]]
       /\ pending' = [pending EXCEPT ![d] = 0]
       /\ parcel_destinations' = parcel_destinations \ {d}
       /\ num_parcel_destinations' = num_parcel_destinations - 1
       /\ GoTo(t, "connect")
       /\ UNCHANGED << cache, flight, dest, history >>

-----------------------------------------------------------------------------
(***************************************************************************)
(* get_connection: get_or_reserve, and create_connection.                  *)
(***************************************************************************)
connectRest == << queued, flight, dest, held, put, faults, lost, stray >>

cached_connection(t) ==
    LET d == dest[t]
    IN /\ place[t] = "connect"
       /\ cache.cached[d] > 0
       /\ cache' = Pop(Touch(cache, d), d)
       /\ GoTo(t, "send")
       /\ UNCHANGED << connectRest, dangling >>

reserve_first(t) ==
    LET d == dest[t]
    IN /\ place[t] = "connect"
       /\ ~Known(cache, d)
       /\ cache' = NewEntry(free_space(cache), d)
       /\ GoTo(t, "create")
       /\ UNCHANGED << connectRest, dangling >>

\* Known, with nothing cached: free_space may erase the very entry looked at.
reserve_another(t) ==
    LET d == dest[t]
        e == Touch(cache, d)
        f == free_space(e)
    IN /\ place[t] = "connect"
       /\ Known(cache, d) /\ cache.cached[d] = 0
       /\ e.existing[d] < e.limit[d]
       /\ Known(f, d)
       /\ IF HasSpace(f) \/ f.existing[d] = 0
          THEN cache' = increment_connection_count(f, d) /\ GoTo(t, "create")
          ELSE cache' = f /\ GoTo(t, "give_back")
       /\ UNCHANGED << connectRest, dangling >>

reserve_erased(t) ==
    LET d == dest[t]
        f == free_space(Touch(cache, d))
    IN /\ place[t] = "connect"
       /\ Known(cache, d) /\ cache.cached[d] = 0
       /\ cache.existing[d] < cache.limit[d]
       /\ ~Known(f, d)
       /\ dangling' = TRUE
       /\ \/ cache' = f /\ GoTo(t, "give_back")
          \/ cache' = [f EXCEPT !.connections = @ + 1] /\ GoTo(t, "create")
       /\ UNCHANGED connectRest

at_limit(t) ==
    LET d == dest[t]
    IN /\ place[t] = "connect"
       /\ Known(cache, d) /\ cache.cached[d] = 0
       /\ cache.existing[d] >= cache.limit[d]
       /\ cache' = Touch(cache, d)
       /\ GoTo(t, "give_back")
       /\ UNCHANGED << connectRest, dangling >>

create_connection(t) ==
    /\ place[t] = "create"
    /\ GoTo(t, "send")
    /\ UNCHANGED << queued, cache, flight, dest, held, history >>

\* The reserved place is not given back.
create_fails(t) ==
    /\ place[t] = "create" /\ Fault
    /\ lost' = [lost EXCEPT ![dest[t]] = @ + 1]
    /\ GoTo(t, "give_back")
    /\ UNCHANGED << queued, cache, flight, dest, held, put, stray, dangling >>

-----------------------------------------------------------------------------
(***************************************************************************)
(* Sending: as many parcels as fit in a message.                           *)
(***************************************************************************)
send_pending_parcels(t, n) ==
    /\ place[t] = "send"
    /\ n \in 1..held[t]
    /\ flight' = [flight EXCEPT ![dest[t]] = @ + 1]
    /\ held' = [held EXCEPT ![t] = @ - n]
    /\ IF n = held[t] THEN Finish(t) ELSE Start(t, dest[t], "give_back")
    /\ UNCHANGED << queued, cache, history >>

give_back(t) ==
    /\ place[t] = "give_back"
    /\ Enqueue(dest[t], held[t])
    /\ held' = [held EXCEPT ![t] = 0]
    /\ Finish(t)
    /\ UNCHANGED << cache, flight, history >>

\* send_pending_parcels_trampoline, when a write was acknowledged or failed ...
written(d) ==
    /\ place["io"] = "idle" /\ flight[d] > 0
    /\ flight' = [flight EXCEPT ![d] = @ - 1]
    /\ Start("io", d, "written")
    /\ UNCHANGED << queued, cache, held, history >>

\* ... gives the connection back to the cache, or removes it ...
return_connection ==
    LET d == dest["io"]
    IN /\ place["io"] = "written"
       /\ \/ cache' = reclaim(cache, d) /\ UNCHANGED faults
          \/ Fault /\ cache' = clear_connection(cache, d)
       /\ GoTo("io", "check")
       /\ UNCHANGED << queued, flight, dest, held, put, lost, stray, dangling >>

\* ... sends what is still pending for the locality.
check_pending ==
    /\ place["io"] = "check"
    /\ IF pending[dest["io"]] = 0 THEN Finish("io") ELSE Start("io", dest["io"], "dequeue")
    /\ UNCHANGED << queued, cache, flight, held, history >>

-----------------------------------------------------------------------------
\* The connections to d in the hands of a thread, or of a write.
InUse(d) ==
    flight[d] + Cardinality({t \in Threads : dest[t] = d /\ place[t] \in {"create", "send", "written"}})

\* remove_from_connection_cache: when no write is under way.
remove_from_connection_cache(d) ==
    /\ Fault
    /\ Total(flight) = 0
    /\ cache' = IF Known(cache, d) THEN clear_locality(cache, d) ELSE cache
    /\ stray' = (stray \/ InUse(d) > 0)
    /\ lost' = [lost EXCEPT ![d] = 0]
    /\ UNCHANGED << queued, flight, place, dest, held, put, dangling >>

Connect(t) ==
    \/ cached_connection(t) \/ reserve_first(t) \/ reserve_another(t) \/ reserve_erased(t)
    \/ at_limit(t)

GoOn(t) ==
    \/ dequeue_parcels(t) \/ dequeue_nothing(t) \/ Connect(t) \/ create_connection(t)
    \/ \E n \in 1..MaxParcels : send_pending_parcels(t, n)
    \/ give_back(t)

Next ==
    \/ \E t \in Threads : GoOn(t) \/ dequeue_fails(t) \/ create_fails(t)
    \/ \E d \in Dests :
         \/ \E t \in Putters : put_parcel(t, d)
         \/ \E t \in Threads : trigger_pending_work(t, d)
         \/ written(d) \/ remove_from_connection_cache(d)
    \/ return_connection \/ check_pending

\* A thread goes on, the background thread gets the mutex now and then, and writes
\* complete.
Fairness ==
    /\ \A t \in Putters : WF_portVars(GoOn(t))
    /\ WF_portVars(GoOn("io") \/ return_connection \/ check_pending \/ \E d \in Dests : written(d))
    /\ WF_portVars(GoOn("background") \/ \E d \in Dests : trigger_pending_work("background", d))
    /\ SF_portVars(dequeue_parcels("background"))

Spec == Init /\ [][Next]_portVars
FairSpec == Spec /\ Fairness

-----------------------------------------------------------------------------
\* Every variable has its type; counts of size_t do not wrap.
TypeOK ==
    /\ pending \in [Dests -> 0..MaxParcels] /\ held \in [Threads -> 0..MaxParcels]
    /\ parcel_destinations \subseteq Dests /\ num_parcel_destinations \in Int
    /\ cache.cached \in [Dests -> 0..SizeT] /\ cache.existing \in [Dests -> 0..SizeT]
    /\ cache.limit \in [Dests -> 0..SizeT] /\ cache.connections \in 0..SizeT
    /\ place \in [Threads -> {"idle", "dequeue", "connect", "create", "send", "give_back", "written",
                           "check"}]
    /\ dest \in [Threads -> Dests]

\* Every connection the cache counts is in it, in use, or the place of one that could
\* not be made (check_invariants): unless an entry was cleared while in use, or an
\* erased one was used.
ConnectionsAreCounted ==
    ~stray /\ ~dangling =>
        /\ \A d \in Dests : cache.existing[d] = cache.cached[d] + InUse(d) + lost[d]
        /\ cache.connections = Total(cache.existing)

\* Pending parcels are sent, unless the places of failed connections are lost.
PendingAreSent ==
    []<>(Total(pending) + Total(held) = 0 \/ Total(lost) > 0 \/ stray \/ dangling)

\* As soon as a connection becomes available it checks for pending parcels and sends
\* those out (parcelport_impl.hpp:792).
ParcelsAreSent == []<>(Total(pending) + Total(held) = 0)

\* The entry a reservation is made in is an entry of the cache: with no connections of its
\* own, the cache grows beyond its limit (connection_cache.hpp:280).
EntryIsThere == ~dangling
=============================================================================
