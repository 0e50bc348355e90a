---------------------------- MODULE Termination ----------------------------
(***************************************************************************)
(* The termination detection of a shutdown (src/runtime/components/server/ *)
(* runtime_support_server.cpp, dijkstra_termination_detection): a token    *)
(* goes from the root locality around the ring, and a locality that sent a *)
(* parcel since the last probe makes it black.  A parcel is put by a       *)
(* thread, written by the parcelport, and then received there and reported *)
(* here in either order; only the report (parcel_sent_handler in           *)
(* parcelhandler.cpp) makes the sender black.                              *)
(***************************************************************************)
EXTENDS Integers

CONSTANTS N,         \* the number of localities
          Parcels    \* the parcels of the application

VARIABLES active,        \* localities with threads besides those of the runtime
          dijkstra_color,
          parcel,        \* where a parcel is
          from, to,      \* its ends
          token,         \* where the token is
          holder,        \* the locality it is at, or on its way to
          black,         \* dijkstra_token
          root,          \* where shutdown_all is
          missed,        \* the token was back before the root waited for it
          overlooked     \* a locality let the token pass with a parcel of its own under way

parcelVars == << parcel, from, to >>
terminationVars == << active, dijkstra_color, parcelVars, token, holder, black, root,
                      missed, overlooked >>

Localities == 0..(N - 1)

Init ==
    /\ active \in [Localities -> BOOLEAN]
    /\ dijkstra_color = [i \in Localities |-> FALSE]
    /\ parcel = [p \in Parcels |-> "none"]
    /\ from = [p \in Parcels |-> 0] /\ to = [p \in Parcels |-> 0]
    /\ token = "none" /\ holder = 0 /\ black = FALSE
    /\ root = "probe"
    /\ missed = FALSE /\ overlooked = FALSE

-----------------------------------------------------------------------------
(***************************************************************************)
(* The application.                                                        *)
(***************************************************************************)
appRest == << token, holder, black, root, missed, overlooked >>

put_parcel(p, i, j) ==
    /\ active[i] /\ i # j
    /\ parcel[p] = "none"
    /\ parcel' = [parcel EXCEPT ![p] = "put"]
    /\ from' = [from EXCEPT ![p] = i] /\ to' = [to EXCEPT ![p] = j]
    /\ UNCHANGED << active, dijkstra_color, appRest >>

\* The parcelport writes the parcel (sender::async_write).
write(p) ==
    /\ parcel[p] = "put"
    /\ parcel' = [parcel EXCEPT ![p] = "written"]
    /\ UNCHANGED << active, dijkstra_color, from, to, appRest >>

\* parcel_sent_handler, and dijkstra_make_black.
parcel_sent_handler(p) ==
    /\ parcel[p] \in {"written", "received"}
    /\ parcel' = [parcel EXCEPT ![p] = IF @ = "written" THEN "reported" ELSE "done"]
    /\ dijkstra_color' = [dijkstra_color EXCEPT ![from[p]] = TRUE]
    /\ UNCHANGED << active, from, to, appRest >>

\* The parcelport of the destination decodes it, and its thread is created
\* (parcel::load_schedule; the target was not migrated).
receive(p) ==
    /\ parcel[p] \in {"written", "reported"}
    /\ parcel' = [parcel EXCEPT ![p] = IF @ = "written" THEN "received" ELSE "done"]
    /\ active' = [active EXCEPT ![to[p]] = TRUE]
    /\ UNCHANGED << dijkstra_color, from, to, appRest >>

become_passive(i) ==
    /\ active[i]
    /\ active' = [active EXCEPT ![i] = FALSE]
    /\ UNCHANGED << dijkstra_color, parcelVars, appRest >>

-----------------------------------------------------------------------------
(***************************************************************************)
(* The probe.                                                              *)
(***************************************************************************)
UnderWay(i) == \E p \in Parcels : from[p] = i /\ parcel[p] \notin {"none", "done"}

\* dijkstra_termination_detection.
start_probe ==
    /\ root = "probe"
    /\ dijkstra_color' = [dijkstra_color EXCEPT ![0] = FALSE]
    /\ token' = "held" /\ holder' = 0 /\ black' = FALSE
    /\ root' = "send"
    /\ UNCHANGED << active, parcelVars, missed, overlooked >>

\* send_dijkstra_termination_token: wait until no threads are left, then hand over.
is_passive ==
    /\ token = "held"
    /\ ~active[holder]
    /\ token' = "passing"
    /\ UNCHANGED << active, dijkstra_color, parcelVars, holder, black, root, missed, overlooked >>

Target(i) == (IF i = 0 THEN N ELSE i) - 1

HandOver(tokenColor) ==
    /\ token = "passing"
    /\ black' = tokenColor
    /\ dijkstra_color' = [dijkstra_color EXCEPT ![holder] = FALSE]
    /\ overlooked' = (overlooked \/ UnderWay(holder))
    /\ holder' = Target(holder)
    /\ token' = "sent"
    /\ root' = IF holder = 0 THEN "sent" ELSE root
    /\ UNCHANGED << active, parcelVars, missed >>

\* Mutant: a black locality leaves the token as it is.
send_token_unchanged == HandOver(black)

send_dijkstra_termination_token == HandOver(black \/ dijkstra_color[holder])

\* dijkstra_termination, at another locality ...
dijkstra_termination ==
    /\ token = "sent" /\ holder # 0
    /\ token' = "held"
    /\ UNCHANGED << active, dijkstra_color, parcelVars, holder, black, root, missed, overlooked >>

\* ... and at the root: notify_one wakes it if it waits already.
token_returns ==
    /\ token = "sent" /\ holder = 0
    /\ token' = "none"
    /\ dijkstra_color' = [dijkstra_color EXCEPT ![0] = @ \/ black]
    /\ root' = IF root = "waiting" THEN "woken" ELSE root
    /\ missed' = (missed \/ root # "waiting")
    /\ UNCHANGED << active, parcelVars, holder, black, overlooked >>

wait ==
    /\ root = "sent"
    /\ root' = "waiting"
    /\ UNCHANGED << active, dijkstra_color, parcelVars, token, holder, black, missed, overlooked >>

wait_returns ==
    /\ root = "woken"
    /\ root' = IF dijkstra_color[0] THEN "probe" ELSE "done"
    /\ UNCHANGED << active, dijkstra_color, parcelVars, token, holder, black, missed, overlooked >>

Probe ==
    \/ start_probe \/ is_passive \/ send_dijkstra_termination_token
    \/ dijkstra_termination \/ token_returns \/ wait \/ wait_returns

Delivery(p) == write(p) \/ parcel_sent_handler(p) \/ receive(p)

Next ==
    \/ Probe
    \/ \E p \in Parcels :
         Delivery(p) \/ \E i, j \in Localities : put_parcel(p, i, j)
    \/ \E i \in Localities : become_passive(i)

\* Threads end, parcels are written, received and reported, and the probe goes on.
Fairness ==
    /\ WF_terminationVars(Probe)
    /\ \A p \in Parcels : WF_terminationVars(Delivery(p))
    /\ \A i \in Localities : WF_terminationVars(become_passive(i))

Spec == Init /\ [][Next]_terminationVars
FairSpec == Spec /\ Fairness

-----------------------------------------------------------------------------
\* Every variable has its type; the token is at one of the localities.
TypeOK ==
    /\ active \in [Localities -> BOOLEAN] /\ dijkstra_color \in [Localities -> BOOLEAN]
    /\ parcel \in [Parcels -> {"none", "put", "written", "received", "reported", "done"}]
    /\ from \in [Parcels -> Localities] /\ to \in [Parcels -> Localities]
    /\ token \in {"none", "held", "passing", "sent"} /\ holder \in Localities
    /\ root \in {"probe", "send", "sent", "waiting", "woken", "done"}
    /\ black \in BOOLEAN /\ missed \in BOOLEAN /\ overlooked \in BOOLEAN

Quiescent ==
    /\ \A i \in Localities : ~active[i]
    /\ \A p \in Parcels : parcel[p] \in {"none", "done"}

\* Termination is announced only when no locality has threads or parcels left, as long
\* as every locality had its parcels received and reported when it let the token pass.
DetectedIfReported == root = "done" /\ ~overlooked => Quiescent

\* A machine sending a message makes itself black (runtime_support_server.cpp:564), so
\* that termination is announced only when there is nothing left.
TerminationIsReal == root = "done" => Quiescent

\* The detection ends, unless the token came back before the root waited for it: its
\* notification is then lost.
DetectionEnds == <>(root = "done" \/ missed)
=============================================================================
