------------------------------ MODULE OnceFlag ------------------------------
(***************************************************************************)
(* call_once (hpx/lcos/local/once.hpp), with a function that may throw.    *)
(* The status is changed and the event is set in two steps, and the event  *)
(* is used again after a function threw.  event::wait is what module Event *)
(* shows it to be: it returns when it finds the event set.                 *)
(***************************************************************************)
EXTENDS Integers

CONSTANTS Callers, MaxThrows

VARIABLES status,      \* once_flag::status_
          event_,      \* once_flag::event_
          opc,         \* where a caller is
          throws,      \* how often the function threw
          completed    \* how often it returned

onceVars == << status, event_, opc, throws, completed >>

Init ==
    /\ status = "initial"
    /\ event_ = FALSE
    /\ opc = [t \in Callers |-> "test"]
    /\ throws = 0 /\ completed = 0

goto(t, p) == opc' = [opc EXCEPT ![t] = p]

load_status(t) ==
    /\ opc[t] = "test"
    /\ goto(t, IF status = "complete" THEN "returned" ELSE "exchange")
    /\ UNCHANGED << status, event_, throws, completed >>

exchange_any(t) ==
    /\ opc[t] = "exchange"
    /\ \/ status # "complete" /\ status' = "running" /\ goto(t, "reset")
       \/ status = "complete" /\ goto(t, "returned") /\ UNCHANGED status
    /\ UNCHANGED << event_, throws, completed >>

\* compare_exchange_strong: one caller runs the function, the others wait.
exchange(t) ==
    /\ opc[t] = "exchange"
    /\ \/ status = "initial" /\ status' = "running" /\ goto(t, "reset")
       \/ status = "complete" /\ goto(t, "returned") /\ UNCHANGED status
       \/ status = "running" /\ goto(t, "wait") /\ UNCHANGED status
    /\ UNCHANGED << event_, throws, completed >>

reset_event(t) ==
    /\ opc[t] = "reset"
    /\ event_' = FALSE
    /\ goto(t, "invoke")
    /\ UNCHANGED << status, throws, completed >>

function_returns(t) ==
    /\ opc[t] = "invoke"
    /\ completed' = completed + 1
    /\ status' = "complete"
    /\ goto(t, "set")
    /\ UNCHANGED << event_, throws >>

function_throws(t) ==
    /\ opc[t] = "invoke"
    /\ throws < MaxThrows
    /\ throws' = throws + 1
    /\ status' = "initial"
    /\ goto(t, "set and throw")
    /\ UNCHANGED << event_, completed >>

set_event_on_success(t) ==
    /\ opc[t] \in {"set", "set and throw"}
    /\ event_' = (event_ \/ opc[t] = "set")
    /\ goto(t, IF opc[t] = "set" THEN "returned" ELSE "threw")
    /\ UNCHANGED << status, throws, completed >>

set_event(t) ==
    /\ opc[t] \in {"set", "set and throw"}
    /\ event_' = TRUE
    /\ goto(t, IF opc[t] = "set" THEN "returned" ELSE "threw")
    /\ UNCHANGED << status, throws, completed >>

wait_event(t) ==
    /\ opc[t] = "wait"
    /\ event_
    /\ goto(t, "test")
    /\ UNCHANGED << status, event_, throws, completed >>

Caller(t) ==
    \/ load_status(t) \/ exchange(t) \/ reset_event(t) \/ function_returns(t)
    \/ function_throws(t) \/ set_event(t) \/ wait_event(t)

Next == \E t \in Callers : Caller(t)

Fairness == \A t \in Callers : WF_onceVars(Caller(t))
Spec == Init /\ [][Next]_onceVars
FairSpec == Spec /\ Fairness

-----------------------------------------------------------------------------
\* Every variable has its type; every caller is at a place of call_once.
TypeOK ==
    /\ status \in {"initial", "running", "complete"} /\ event_ \in BOOLEAN
    /\ opc \in [Callers -> {"test", "exchange", "reset", "invoke", "set", "set and throw",
                           "wait", "returned", "threw"}]
    /\ throws \in 0..MaxThrows /\ completed \in Nat

\* One caller at a time runs the function, it returns normally only once, and
\* call_once returns only after that.
CalledOnce ==
    /\ \A s, t \in Callers : {opc[s], opc[t]} \subseteq {"reset", "invoke"} => s = t
    /\ completed <= 1
    /\ (\E t \in Callers : opc[t] = "returned") => completed = 1

\* Every caller returns or throws: no caller is left waiting for an event that the
\* next one to run the function has reset.
OnceReturns == \A t \in Callers : <>(opc[t] \in {"returned", "threw"})
=============================================================================
