------------------------------ MODULE EventLease ------------------------------
(***************************************************************************)
(* What the webhook ledger promises about an event: the right to run its   *)
(* handler is leased to one delivery, and that delivery runs it at most    *)
(* once.  The lease ends when the ledger opens the event for a retry (it   *)
(* was marked failed, or its PROCESSING lock grew older than five          *)
(* minutes); from then on the handler may run any number of times.         *)
(***************************************************************************)
EXTENDS Naturals

CONSTANT Events

VARIABLES
    phase,  \* phase[e]: "new", "leased" or "open"
    ran     \* ran[e]: how many times the handler of e has run to its end

vars == <<phase, ran>>

Init ==
    /\ phase = [e \in Events |-> "new"]
    /\ ran = [e \in Events |-> 0]

Lease(e) ==
    /\ phase[e] = "new"
    /\ phase' = [phase EXCEPT ![e] = "leased"]
    /\ UNCHANGED ran

Open(e) ==
    /\ phase[e] = "leased"
    /\ phase' = [phase EXCEPT ![e] = "open"]
    /\ UNCHANGED ran

Finish(e) ==
    /\ \/ phase[e] = "leased" /\ ran[e] = 0
       \/ phase[e] = "open"
    /\ ran' = [ran EXCEPT ![e] = @ + 1]
    /\ UNCHANGED phase

Next == \E e \in Events : Lease(e) \/ Open(e) \/ Finish(e)

Spec == Init /\ [][Next]_vars
===============================================================================
