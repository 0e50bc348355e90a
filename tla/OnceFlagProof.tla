---------------------------- MODULE OnceFlagProof ----------------------------
(***************************************************************************)
(* That call_once runs its function to the end once, whoever throws: for   *)
(* any set of callers and any number of exceptions.                        *)
(***************************************************************************)
EXTENDS OnceFlag, TLAPS

Runner(t) == opc[t] \in {"reset", "invoke"}

\* status_ says whether a caller is in the function, or has been through it.
StatusIsRight ==
    /\ completed = IF status = "complete" THEN 1 ELSE 0
    /\ \A t \in Callers :
         /\ Runner(t) => status = "running"
         /\ opc[t] \in {"set", "returned"} => status = "complete"
    /\ \A s, t \in Callers : Runner(s) /\ Runner(t) => s = t

IInv ==
    /\ DOMAIN opc = Callers
    /\ StatusIsRight

LEMMA OnceInit == Init => IInv
BY DEF Init, IInv, StatusIsRight, Runner

LEMMA OnceStep == IInv /\ [Next]_onceVars => IInv'
<1> SUFFICES ASSUME IInv, [Next]_onceVars PROVE IInv'
  OBVIOUS
<1> USE DEF IInv, StatusIsRight, Runner, goto
<1>1. ASSUME NEW t \in Callers, load_status(t) PROVE IInv'
  BY <1>1 DEF load_status
<1>2. ASSUME NEW t \in Callers, exchange(t) PROVE IInv'
  BY <1>2 DEF exchange
<1>3. ASSUME NEW t \in Callers, reset_event(t) PROVE IInv'
  BY <1>3 DEF reset_event
<1>4. ASSUME NEW t \in Callers, function_returns(t) PROVE IInv'
  BY <1>4 DEF function_returns
<1>5. ASSUME NEW t \in Callers, function_throws(t) PROVE IInv'
  BY <1>5, Zenon DEF function_throws
<1>6. ASSUME NEW t \in Callers, set_event(t) PROVE IInv'
  BY <1>6, Zenon DEF set_event
<1>7. ASSUME NEW t \in Callers, wait_event(t) PROVE IInv'
  BY <1>7 DEF wait_event
<1>8. CASE UNCHANGED onceVars
  BY <1>8 DEF onceVars
<1> QED
  BY <1>1, <1>2, <1>3, <1>4, <1>5, <1>6, <1>7, <1>8 DEF Next, Caller

\* The function of call_once is in one caller at a time, returns normally at most once
\* over all exceptions and retries, and no call returns before it did.
THEOREM FunctionCalledOnce == Spec => []CalledOnce
<1>1. IInv => CalledOnce
  BY DEF IInv, StatusIsRight, Runner, CalledOnce
<1> QED
  BY OnceInit, OnceStep, <1>1, PTL DEF Spec
=============================================================================
