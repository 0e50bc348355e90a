------------------------------- MODULE Credits -------------------------------
(***************************************************************************)
(* Distributed reference counting of ONE globally named object: the        *)
(* credits its ids carry (src/runtime/naming/name.cpp), the table of       *)
(* cached decrements every locality keeps (addressing_service.cpp) and     *)
(* the count AGAS keeps (server/primary_namespace_server.cpp).             *)
(*                                                                         *)
(* Every managed id carries 2^k credits.  Sending an id splits its         *)
(* credits in two halves; an id down to two credits asks AGAS for more     *)
(* first, with its lock released.  Dropping an id gives its credits back   *)
(* through a table that is sent to AGAS in batches.  Messages to AGAS may  *)
(* overtake each other.                                                    *)
(*                                                                         *)
(* One slot stands for one id_type_impl; the copies of an id on one        *)
(* locality share it and are not told apart.                               *)
(***************************************************************************)
EXTENDS Integers, FiniteSetsExt, Bags, BagsExt

CONSTANTS
    Slots,          \* id_type_impl instances that can be alive at a time
    Hosts,
    Splitters,      \* threads that send an id with an exhausted credit
    LogInitial,     \* log2 of HPX_GLOBALCREDIT_INITIAL (31 in the code)
    MaxRequests,    \* max_refcnt_requests_; 1 without enable_refcnt_caching_
    MaxSends        \* bound: ids sent in a behaviour

VARIABLES
    log2credit,     \* slot -> log2 of the credits the id carries
    was_split,      \* slot -> the credit_split mask of the id
    locality,       \* slot -> where the id is
    status,         \* slot -> "unused", "sent" (in a parcel) or "held"
    op,             \* splitter -> the split under way
    requests,       \* locality -> credits in refcnt_requests_ (negated)
    request_count,  \* locality -> refcnt_requests_count_
    decrements,     \* bag of decrement_credit messages under way
    refcnt,         \* the entry in refcnts_, or NoEntry
    frees,          \* how often the object was destroyed
    sends           \* ids sent so far

creditVars == << log2credit, was_split, locality, status, op, requests,
                 request_count, decrements, refcnt, frees, sends >>

idVars == << log2credit, was_split, locality, status >>
tableVars == << requests, request_count, decrements >>

Initial == 2 ^ LogInitial
NoEntry == -1
Idle == [place |-> "idle", slot |-> CHOOSE i \in Slots : TRUE, amount |-> 0]

\* The id made by the creating locality carries all of the initial credit;
\* AGAS has no entry, which stands for the initial count.
Init ==
    /\ status = [j \in Slots |-> IF j = Idle.slot THEN "held" ELSE "unused"]
    /\ locality = [j \in Slots |-> CHOOSE l \in Hosts : TRUE]
    /\ log2credit = [j \in Slots |-> LogInitial]
    /\ was_split = [j \in Slots |-> FALSE]
    /\ op = [s \in Splitters |-> Idle]
    /\ requests = [l \in Hosts |-> 0]
    /\ request_count = [l \in Hosts |-> 0]
    /\ decrements = EmptyBag
    /\ refcnt = NoEntry
    /\ frees = 0
    /\ sends = 0

-----------------------------------------------------------------------------
\* The id a parcel to a locality carries, with k credits in log2 form; it
\* takes a slot nobody uses (which one does not matter).
Send(to, k, credits, split) ==
    /\ \E j \in Slots : status[j] = "unused"
    /\ LET j == CHOOSE j \in Slots : status[j] = "unused"
       IN  /\ status' = [status EXCEPT ![j] = "sent"]
           /\ locality' = [locality EXCEPT ![j] = to]
           /\ log2credit' = [credits EXCEPT ![j] = k]
           /\ was_split' = [split EXCEPT ![j] = TRUE]

\* split_gid_if_needed: more than two credits, one half goes with the parcel.
split_credits_for_gid(i, to) ==
    /\ status[i] = "held" /\ log2credit[i] > 1 /\ sends < MaxSends
    /\ LET half == log2credit[i] - 1
       IN  Send(to, half,
                [log2credit EXCEPT ![i] = half], [was_split EXCEPT ![i] = TRUE])
    /\ sends' = sends + 1
    /\ UNCHANGED << op, tableVars, refcnt, frees >>

\* split_gid_if_needed: two credits left.  The id is marked, its lock is
\* released, and AGAS is asked for credits for both ids.
split_exhausted(s, i) ==
    /\ status[i] = "held" /\ log2credit[i] = 1 /\ sends < MaxSends
    /\ op[s].place = "idle"
    /\ was_split' = [was_split EXCEPT ![i] = TRUE]
    /\ op' = [op EXCEPT ![s] = [place |-> "incref", slot |-> i,
                                amount |-> 2 * (Initial - 1)]]
    /\ sends' = sends + 1
    /\ UNCHANGED << log2credit, locality, status, tableVars, refcnt, frees >>

\* addressing_service::incref_async: decrements cached on this locality pay
\* for the request; only what they do not cover is sent to AGAS.
incref_async(s) ==
    LET l == locality[op[s].slot]
        rest == op[s].amount - requests[l]
    IN  /\ op[s].place = "incref"
        /\ requests' = [requests EXCEPT ![l] = IF rest > 0 THEN 0 ELSE -rest]
        /\ op' = [op EXCEPT
                    ![s].place = IF rest > 0 THEN "sent" ELSE "acknowledged",
                    ![s].amount = IF rest > 0 THEN rest ELSE 0]
        /\ UNCHANGED << idVars, request_count, decrements, refcnt, frees, sends >>

\* primary_namespace::increment: a missing entry stands for the initial count.
increment(s) ==
    /\ op[s].place = "sent"
    /\ refcnt' = (IF refcnt = NoEntry THEN Initial ELSE refcnt) + op[s].amount
    /\ op' = [op EXCEPT ![s].place = "acknowledged", ![s].amount = 0]
    /\ UNCHANGED << idVars, tableVars, frees, sends >>

\* Mutant: the credits put there in the meantime are overwritten.
postprocess_incref_overwrites(s, to) ==
    LET i == op[s].slot
    IN  /\ op[s].place = "acknowledged"
        /\ Send(to, LogInitial,
                [log2credit EXCEPT ![i] = LogInitial], was_split)
        /\ op' = [op EXCEPT ![s] = Idle]
        /\ UNCHANGED << tableVars, refcnt, frees, sends >>

\* postprocess_incref: the new id gets the initial credit, the old one what
\* it lacks; what a concurrent split already put there is given back.
postprocess_incref(s, to) ==
    LET i == op[s].slot
        new_credit == 2 ^ log2credit[i] + Initial - 2
        overflow == new_credit - Initial
    IN  /\ op[s].place = "acknowledged"
        /\ Send(to, LogInitial,
                [log2credit EXCEPT ![i] = LogInitial], was_split)
        /\ op' = [op EXCEPT ![s] = IF overflow > 0
                                   THEN [@ EXCEPT !.place = "overflow",
                                                  !.amount = overflow]
                                   ELSE Idle]
        /\ UNCHANGED << tableVars, refcnt, frees, sends >>

-----------------------------------------------------------------------------
\* send_refcnt_requests_non_blocking: the table of l becomes one message.
SendRequests(l, owed) ==
    /\ requests' = [requests EXCEPT ![l] = 0]
    /\ request_count' = [request_count EXCEPT ![l] = 0]
    /\ decrements' = BagAdd(decrements, owed)

\* addressing_service::decref and send_refcnt_requests: the table of l is
\* sent when MaxRequests decrements were collected.
decref(l, credit) ==
    IF request_count[l] + 1 = MaxRequests
    THEN SendRequests(l, requests[l] + credit)
    ELSE /\ requests' = [requests EXCEPT ![l] = @ + credit]
         /\ request_count' = [request_count EXCEPT ![l] = @ + 1]
         /\ UNCHANGED decrements

\* postprocess_incref, after the id's lock was released.
overflow_decref(s) ==
    /\ op[s].place = "overflow"
    /\ decref(locality[op[s].slot], op[s].amount)
    /\ op' = [op EXCEPT ![s] = Idle]
    /\ UNCHANGED << idVars, refcnt, frees, sends >>

\* The parcel arrives: id_type_impl::load.
load(i) ==
    /\ status[i] = "sent"
    /\ status' = [status EXCEPT ![i] = "held"]
    /\ UNCHANGED << log2credit, was_split, locality, op, tableVars, refcnt,
                    frees, sends >>

\* The parcel being serialized keeps the id of a split alive.
Droppable(i) ==
    /\ status[i] = "held"
    /\ \A s \in Splitters : op[s].place # "idle" => op[s].slot # i

\* What a dropped slot looks like (its old contents mean nothing).
Drop(i) ==
    /\ status' = [status EXCEPT ![i] = "unused"]
    /\ log2credit' = [log2credit EXCEPT ![i] = LogInitial]
    /\ was_split' = [was_split EXCEPT ![i] = FALSE]
    /\ locality' = [locality EXCEPT ![i] = CHOOSE l \in Hosts : TRUE]

\* decrement_refcnt of an id that was split, or is not in the address cache.
decrement_refcnt(i) ==
    /\ Droppable(i)
    /\ decref(locality[i], 2 ^ log2credit[i])
    /\ Drop(i)
    /\ UNCHANGED << op, refcnt, frees, sends >>

\* Mutant: the mark of a split is not looked at.
free_component_unmarked(i) ==
    /\ Droppable(i)
    /\ Drop(i)
    /\ frees' = frees + 1
    /\ UNCHANGED << op, tableVars, refcnt, sends >>

\* decrement_refcnt of an id that was never split: the object is destroyed
\* without AGAS being told.
free_component(i) ==
    /\ Droppable(i) /\ ~ was_split[i]
    /\ Drop(i)
    /\ frees' = frees + 1
    /\ UNCHANGED << op, tableVars, refcnt, sends >>

\* Mutant: a table that is not full is not worth a message.
garbage_collect_full(l) ==
    /\ requests[l] > 0 /\ request_count[l] + 1 = MaxRequests
    /\ SendRequests(l, requests[l])
    /\ UNCHANGED << idVars, op, refcnt, frees, sends >>

\* addressing_service::garbage_collect(_non_blocking).
garbage_collect(l) ==
    /\ requests[l] > 0
    /\ SendRequests(l, requests[l])
    /\ UNCHANGED << idVars, op, refcnt, frees, sends >>

\* Mutant: an entry that is missing counts nothing.
decrement_credit_from_nothing(credits) ==
    LET left == (IF refcnt = NoEntry THEN 0 ELSE refcnt) - credits
    IN  /\ BagIn(credits, decrements)
        /\ decrements' = BagRemove(decrements, credits)
        /\ refcnt' = IF left = 0 THEN NoEntry ELSE left
        /\ frees' = IF left = 0 THEN frees + 1 ELSE frees
        /\ UNCHANGED << idVars, op, requests, request_count, sends >>

\* primary_namespace::decrement_credit: decrement_sweep, and the object is
\* destroyed and its entry erased when nothing is left.
decrement_credit(credits) ==
    LET left == (IF refcnt = NoEntry THEN Initial ELSE refcnt) - credits
    IN  /\ BagIn(credits, decrements)
        /\ decrements' = BagRemove(decrements, credits)
        /\ refcnt' = IF left = 0 THEN NoEntry ELSE left
        /\ frees' = IF left = 0 THEN frees + 1 ELSE frees
        /\ UNCHANGED << idVars, op, requests, request_count, sends >>

-----------------------------------------------------------------------------
\* What goes on by itself once the application uses no id any more.
GoOn ==
    \/ \E s \in Splitters : incref_async(s) \/ increment(s) \/ overflow_decref(s)
    \/ \E s \in Splitters, l \in Hosts : postprocess_incref(s, l)
    \/ \E i \in Slots : load(i)
    \/ \E c \in BagToSet(decrements) : decrement_credit(c)
    \/ \E l \in Hosts : garbage_collect(l)

Next ==
    \/ \E i \in Slots, l \in Hosts : split_credits_for_gid(i, l)
    \/ \E s \in Splitters, i \in Slots : split_exhausted(s, i)
    \/ \E i \in Slots : decrement_refcnt(i) \/ free_component(i)
    \/ GoOn

Spec == Init /\ [][Next]_creditVars

\* Messages arrive, continuations run, and garbage collection is called (at
\* the latest by the functions pre_main registers for the shutdown).
FairSpec == Spec /\ WF_creditVars(GoOn)

-----------------------------------------------------------------------------
\* Every variable has its type; an id never has less than two credits, and AGAS no negative count.
TypeOK ==
    /\ log2credit \in [Slots -> 1..LogInitial]
    /\ was_split \in [Slots -> BOOLEAN]
    /\ locality \in [Slots -> Hosts]
    /\ status \in [Slots -> {"unused", "sent", "held"}]
    /\ \A s \in Splitters :
          /\ op[s].place \in {"idle", "incref", "sent", "acknowledged", "overflow"}
          /\ op[s].slot \in Slots /\ op[s].amount \in Nat
    /\ \A l \in Hosts :
          requests[l] \in Nat /\ request_count[l] \in 0..(MaxRequests - 1)
    /\ refcnt \in Nat \cup {NoEntry} /\ frees \in Nat /\ sends \in 0..MaxSends

Used == {i \in Slots : status[i] # "unused"}

\* Credits a split has got from AGAS and not handed to an id yet.
Unassigned(s) ==
    CASE op[s].place \in {"idle", "incref"} -> 0
      [] op[s].place = "sent" -> 2 * (Initial - 1) - op[s].amount
      [] op[s].place = "acknowledged" -> 2 * (Initial - 1)
      [] op[s].place = "overflow" -> op[s].amount

\* The count of AGAS is exactly what is carried by ids, assigned to splits
\* under way, cached as a decrement on some locality or sent to AGAS as one,
\* as long as the object lives: concurrent splits of one exhausted id, cached
\* decrements that pay for an increment and messages that overtake each other
\* neither lose nor make up a credit (name.cpp, addressing_service.cpp,
\* primary_namespace_server.cpp).
CreditsAreConserved ==
    frees = 0 =>
        (IF refcnt = NoEntry THEN Initial ELSE refcnt)
          = MapThenSumSet(LAMBDA i : 2 ^ log2credit[i], Used)
            + MapThenSumSet(Unassigned, Splitters)
            + MapThenSumSet(LAMBDA l : requests[l], Hosts)
            + SumBag(decrements)

\* The object is destroyed once, and only when no id, held or on its way,
\* refers to it and no split of an id is under way: the comment in
\* split_gid_if_needed_locked, "An early decref can't happen ...".
NoEarlyFree ==
    frees > 0 => /\ frees = 1
                 /\ Used = {}
                 /\ \A s \in Splitters : op[s].place = "idle"

\* An object nobody refers to any more is destroyed in the end: no credit is
\* left in a locality's table of decrements or kept by a split (decref,
\* send_refcnt_requests, garbage_collect).
UnusedIsFreed == []<>(Used # {} \/ frees > 0)
=============================================================================
