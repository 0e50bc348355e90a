------------------------- MODULE CountingSemaphore -------------------------
(***************************************************************************)
(* lcos::local::counting_semaphore (detail/counting_semaphore.hpp).        *)
(***************************************************************************)
EXTENDS CondVar, FiniteSetsExt

CONSTANTS MinInitial, MaxInitial,   \* values at construction: -MinInitial..MaxInitial
          Counts,    \* credits a call asks for or brings
          Strays,    \* threads that bring an armed timer of an earlier wait
          MaxCalls   \* how many operations a thread calls

VARIABLES value,   \* value_
          pc,
          count,   \* the credits that a waiting thread asks for
          left,    \* rounds left in the loop of signal
          made,    \* how many calls a thread made
          start,   \* the value at construction
          given,   \* credits brought by all calls of signal
          taken    \* credits taken by all calls of wait

objectVars == << queue, mtx, value, pc, count, left, made, start, given, taken >>
semVars == << waitVars, objectVars >>

Init ==
    /\ InitWaits([t \in Threads |-> IF t \in Strays THEN 1 ELSE 0])
    /\ InitCondVar
    /\ value \in (-MinInitial)..MaxInitial
    /\ start = value
    /\ pc = [t \in Threads |-> "out"]
    /\ count = [t \in Threads |-> 0]
    /\ left = [t \in Threads |-> 0]
    /\ made = [t \in Threads |-> 0]
    /\ given = 0
    /\ taken = 0

Call(t) ==
    /\ Calls(t)
    /\ pc[t] = "out"
    /\ left[t] = 0
    /\ made[t] < MaxCalls
    /\ made' = [made EXCEPT ![t] = @ + 1]

Take(n) == value' = value - n /\ taken' = taken + n

\* wait and try_wait find enough credits.
TakeAtOnce(t, n) ==
    /\ Call(t)
    /\ value >= n
    /\ Take(n)
    /\ release
    /\ UNCHANGED << pc, count, left, start, given >>

wait_blocks(t, n) ==
    /\ Call(t)
    /\ value < n
    /\ wait("cond", t, FALSE)
    /\ pc' = [pc EXCEPT ![t] = "waiting"]
    /\ count' = [count EXCEPT ![t] = n]
    /\ UNCHANGED << value, left, start, given, taken >>

WaitReturns(t) ==
    /\ leave(t)
    /\ UNCHANGED << value, pc, count, left, made, start, given, taken >>

WaitAgain(t) ==
    /\ Back(t)
    /\ value < count[t]
    /\ wait("cond", t, FALSE)
    /\ UNCHANGED << value, pc, count, left, made, start, given, taken >>

TakeWoken(t) ==
    /\ Back(t)
    /\ value >= count[t]
    /\ Take(count[t])
    /\ release
    /\ pc' = [pc EXCEPT ![t] = "out"]
    /\ count' = [count EXCEPT ![t] = 0]
    /\ UNCHANGED << left, made, start, given >>

Round_once(t, n, v) ==
    IF v >= 0 /\ n > 0
    THEN notify_one("cond") /\ left' = [left EXCEPT ![t] = 0]
    ELSE release /\ left' = [left EXCEPT ![t] = 0]

\* A round of the loop of signal, which has n to go and sees the value v; the
\* next one needs the spinlock again.
Round(t, n, v) ==
    IF v >= 0 /\ n > 0
    THEN /\ notify_one("cond")
         /\ left' = [left EXCEPT ![t] = IF Len(queue["cond"]) > 1 THEN n - 1 ELSE 0]
    ELSE release /\ left' = [left EXCEPT ![t] = 0]

signal(t, n) ==
    /\ Call(t)
    /\ value' = value + n
    /\ given' = given + n
    /\ Round(t, n, value + n)
    /\ UNCHANGED << pc, count, start, taken >>

\* signal_all brings as many credits as threads are waiting.
signal_all(t) == signal(t, Len(queue["cond"]))

SignalGoesOn(t) ==
    /\ left[t] > 0
    /\ mtx = NoThread
    /\ Round(t, left[t], value)
    /\ UNCHANGED << value, pc, count, made, start, given, taken >>

Start(t) ==
    \/ \E n \in Counts : TakeAtOnce(t, n) \/ wait_blocks(t, n) \/ signal(t, n)
    \/ signal_all(t)

Proceed(t) == WaitReturns(t) \/ WaitAgain(t) \/ TakeWoken(t) \/ SignalGoesOn(t)

Next ==
    \/ \E t \in Threads : Start(t) \/ Proceed(t)
    \/ Delivery /\ UNCHANGED objectVars

Spec == Init /\ [][Next]_semVars
-----------------------------------------------------------------------------
\* Every variable has its type.
TypeOK ==
    /\ value \in Int
    /\ pc \in [Threads -> {"out", "waiting"}]
    /\ left \in [Threads -> Nat]
    /\ InQueue("cond") = {t \in Threads : registered[t]}

\* No wait takes credits that were not brought: the value accounts for all calls
\* and never sinks below 0, or below a negative value at construction.
NeverOverdrawn ==
    /\ value = start + given - taken
    /\ value >= 0 \/ taken = 0

Coming == {t \in Threads : pc[t] = "waiting" /\ ~registered[t]}

\* With calls for single credits, while threads are queued there are as many
\* threads on their way, or rounds of signal to go, as there are credits.
CreditsAreOffered ==
    queue["cond"] # << >> =>
        Cardinality(Coming) + MapThenSumSet(LAMBDA t : left[t], Threads) >= value

\* There are enough credits, which no other thread takes.
Entitled(t) == pc[t] = "waiting" /\ value >= count[t]
=============================================================================
