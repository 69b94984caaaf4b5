------------------------------- MODULE Membership -------------------------------
(***************************************************************************)
(* What invitations promise: an address belongs to at most one company at  *)
(* a time, and to a company that is not its own only after that company    *)
(* has invited it.                                                         *)
(***************************************************************************)
CONSTANTS Emails, Companies

VARIABLES
    invited,  \* pairs <<e, c>>: company c has invited address e
    member    \* member[e]: e's company, "own" for a company it registered, or "none"

vars == <<invited, member>>

Init ==
    /\ invited = {}
    /\ member = [e \in Emails |-> "none"]

Invite(e, c) ==
    /\ invited' = invited \cup {<<e, c>>}
    /\ UNCHANGED member

Enter(e, c) ==
    /\ member[e] = "none"
    /\ member' = [member EXCEPT ![e] = c]
    /\ UNCHANGED invited

Leave(e) ==
    /\ member[e] # "none"
    /\ member' = [member EXCEPT ![e] = "none"]
    /\ UNCHANGED invited

Next ==
    \E e \in Emails :
        \/ \E c \in Companies : Invite(e, c)
        \/ \E c \in Companies : <<e, c>> \in invited /\ Enter(e, c)
        \/ Enter(e, "own")
        \/ Leave(e)

Spec == Init /\ [][Next]_vars
===============================================================================
