------------------------------ MODULE Invitations ------------------------------
(***************************************************************************)
(* InvitationsService (createInvitation, accept, resend, revoke) and the   *)
(* two callers of createInvitation in LocationsService (create, update).   *)
(*                                                                         *)
(* Every await is a step.  accept is the one transaction of the code: what *)
(* it writes appears at its commit, and until then the unique index on     *)
(* users.email and the lock on the invitation's row make others wait.      *)
(* An invitation's link is a signed token: it is checked for its own       *)
(* expiry and names an address, and no code compares it with the row.      *)
(***************************************************************************)
EXTENDS Naturals, Sequences, FiniteSets

CONSTANTS
    Emails, Companies, Locations,
    Requests,   \* request handlers that can be active at once
    Lifetime,   \* of a link and of an invitation: seven days
    MaxTime,    \* bound on the clock
    MaxOps,     \* bound on requests in a behaviour
    MaxFaults   \* bound on crashes and failing calls in a behaviour

\* "none" and "own" stand for the absence of a company and for one of one's own.
ASSUME ConstantsAssumption ==
    /\ "none" \notin Companies /\ "own" \notin Companies
    /\ "none" \notin Emails /\ "none" \notin Locations
    /\ Lifetime \in Nat /\ MaxTime \in Nat /\ MaxOps \in Nat /\ MaxFaults \in Nat

VARIABLES
    now,        \* the clock
    invs,       \* the invitations table, in order of createdAt
    users,      \* users[e]: the company of e's users row, or "none"
    home,       \* home[l]: the company of location l, "none" before it is created
    admin,      \* admin[l]: its managerEmail
    links,      \* the links that were mailed
    pc,         \* pc[r]: the await request r is at
    arg,        \* arg[r]: what it works on
    ops,        \* requests so far
    faults,     \* faults so far
    removed,    \* history: addresses whose user was removed
    resent,     \* history: invitations that were resent
    crossed     \* history: addresses with two requests about them at once

vars == <<now, invs, users, home, admin, links, pc, arg, ops, faults, removed, resent,
          crossed>>
rows == <<invs, users, home, admin>>
history == <<removed, resent, crossed>>

InFlight == {"update", "user", "pending", "insert", "mail", "join", "accept", "commit",
             "extend", "remail", "revoke"}
NoArg == [email |-> "none", company |-> "none", location |-> "none", inv |-> 0,
          expires |-> 0, changed |-> FALSE]
Arg == [email : Emails \cup {"none"}, company : Companies \cup {"none"},
        location : Locations \cup {"none"}, inv : Nat, expires : Nat, changed : BOOLEAN]
Row == [email : Emails, company : Companies, location : Locations \cup {"none"},
        status : {"pending", "accepted", "rejected"}, expires : Nat, joined : BOOLEAN]
\* resend signs its link without an address.
Link == [email : Emails \cup {"none"}, inv : Nat, expires : Nat]

TypeOK ==
    /\ now \in 0..MaxTime
    /\ invs \in Seq(Row)
    /\ users \in [Emails -> Companies \cup {"none", "own"}]
    /\ home \in [Locations -> Companies \cup {"none"}]
    /\ admin \in [Locations -> Emails \cup {"none"}]
    /\ links \subseteq Link
    /\ pc \in [Requests -> {"idle"} \cup InFlight]
    /\ arg \in [Requests -> Arg]
    /\ ops \in 0..MaxOps
    /\ faults \in 0..MaxFaults
    /\ removed \subseteq Emails
    /\ resent \subseteq DOMAIN invs
    /\ crossed \subseteq Emails

Init ==
    /\ now = 0
    /\ invs = <<>>
    /\ users = [e \in Emails |-> "none"]
    /\ home = [l \in Locations |-> "none"]
    /\ admin = [l \in Locations |-> "none"]
    /\ links = {}
    /\ pc = [r \in Requests |-> "idle"]
    /\ arg = [r \in Requests |-> NoArg]
    /\ ops = 0
    /\ faults = 0
    /\ removed = {}
    /\ resent = {}
    /\ crossed = {}

-------------------------------------------------------------------------------
\* What a request about an address and a company, or about an invitation, works on.
On(e, c) == [NoArg EXCEPT !.email = e, !.company = c]
OnInv(i) == [On(invs[i].email, invs[i].company) EXCEPT !.inv = i]

Begin(r, label, a) ==
    /\ pc[r] = "idle"
    /\ ops < MaxOps
    /\ ops' = ops + 1
    /\ pc' = [pc EXCEPT ![r] = label]
    /\ arg' = [arg EXCEPT ![r] = a]
    /\ crossed' = IF \E q \in Requests : arg[q].email = a.email
                    THEN crossed \cup {a.email} ELSE crossed

Goto(r, label) ==
    /\ pc' = [pc EXCEPT ![r] = label]
    /\ UNCHANGED <<ops, crossed>>

\* The requests in S are over; a transaction that has not committed is rolled back.
Finish(S) ==
    /\ pc' = [r \in Requests |-> IF r \in S THEN "idle" ELSE pc[r]]
    /\ arg' = [r \in Requests |-> IF r \in S THEN NoArg ELSE arg[r]]
    /\ UNCHANGED <<ops, crossed>>

\* A live invitation to the address from the company, for whatever location.
Live(i) == invs[i].status = "pending" /\ now < invs[i].expires
Pending(e, c) == \E i \in DOMAIN invs : invs[i].email = e /\ invs[i].company = c /\ Live(i)

\* The key of an inserted users row, and the lock on an updated invitation.
HoldsEmail(e) == {r \in Requests : pc[r] \in {"accept", "commit"} /\ arg[r].email = e}
HoldsRow(i) == {r \in Requests : pc[r] = "commit" /\ arg[r].inv = i}

-------------------------------------------------------------------------------
\* LocationsService: saving a location asks for an invitation of its manager and
\* answers well whatever becomes of it.

LocationCreate(r, l, e, c) ==
    /\ home[l] = "none"
    /\ home' = [home EXCEPT ![l] = c]
    /\ admin' = [admin EXCEPT ![l] = e]
    /\ Begin(r, "user", [On(e, c) EXCEPT !.location = l])
    /\ UNCHANGED <<now, invs, users, links, faults, removed, resent>>

\* A location without a manager.
LocationAdd(l, c) ==
    /\ home[l] = "none"
    /\ ops < MaxOps
    /\ ops' = ops + 1
    /\ home' = [home EXCEPT ![l] = c]
    /\ UNCHANGED <<now, invs, users, admin, links, pc, arg, faults, history>>

LocationRead(r, l, e) ==
    /\ home[l] # "none"
    /\ Begin(r, "update", [On(e, home[l]) EXCEPT !.location = l, !.changed = (e # admin[l])])
    /\ UNCHANGED <<now, rows, links, faults, removed, resent>>

\* Whether the manager is new is judged by what was read before.
LocationUpdate(r) ==
    LET a == arg[r] IN
    /\ pc[r] = "update"
    /\ admin' = [admin EXCEPT ![a.location] = a.email]
    /\ IF a.changed THEN Goto(r, "user") /\ UNCHANGED arg ELSE Finish({r})
    /\ UNCHANGED <<now, invs, users, home, links, faults, removed, resent>>

-------------------------------------------------------------------------------
\* createInvitation

\* Called by the controller: no user has the address yet.
Create(r, e, c) ==
    /\ users[e] = "none"
    /\ Begin(r, "pending", On(e, c))
    /\ UNCHANGED <<now, rows, links, faults, removed, resent>>

\* The same read in a call from a location.
CreateFindUser(r) ==
    /\ pc[r] = "user"
    /\ IF users[arg[r].email] = "none"
         THEN Goto(r, "pending") /\ UNCHANGED arg
         ELSE Finish({r})
    /\ UNCHANGED <<now, rows, links, faults, removed, resent>>

\* (Mutant) The check for a pending invitation left out.
CreateFindPendingIgnored(r) ==
    /\ pc[r] = "pending"
    /\ arg' = [arg EXCEPT ![r].expires = now + Lifetime]
    /\ Goto(r, "insert")
    /\ UNCHANGED <<now, rows, links, faults, removed, resent>>

\* The expiry, of the row and of the link, is computed before the row is saved.
CreateFindPending(r) ==
    /\ pc[r] = "pending"
    /\ IF Pending(arg[r].email, arg[r].company)
         THEN Finish({r})
         ELSE arg' = [arg EXCEPT ![r].expires = now + Lifetime] /\ Goto(r, "insert")
    /\ UNCHANGED <<now, rows, links, faults, removed, resent>>

CreateInsert(r) ==
    LET a == arg[r] IN
    /\ pc[r] = "insert"
    /\ invs' = Append(invs, [email |-> a.email, company |-> a.company, location |-> a.location,
                             status |-> "pending", expires |-> a.expires, joined |-> FALSE])
    /\ arg' = [arg EXCEPT ![r].inv = Len(invs) + 1]
    /\ Goto(r, "mail")
    /\ UNCHANGED <<now, users, home, admin, links, faults, removed, resent>>

\* A message that cannot be sent is logged, and the request ends all the same.
Mail(r) ==
    /\ pc[r] = "mail"
    /\ links' = links \cup {[email |-> arg[r].email, inv |-> arg[r].inv,
                             expires |-> arg[r].expires]}
    /\ Finish({r})
    /\ UNCHANGED <<now, rows, faults, removed, resent>>

-------------------------------------------------------------------------------
\* accept

\* (Mutant) A findByToken that only looks at the dates.
AcceptFindAnyStatus(r, k, i) ==
    /\ now < k.expires
    /\ k.email \in {invs[i].email, "none"}
    /\ now <= invs[i].expires
    /\ Begin(r, "join", OnInv(i))
    /\ UNCHANGED <<now, rows, links, faults, removed, resent>>

\* findByToken, outside the transaction.  findOne drops a condition on an
\* undefined address, and its order is unspecified.
AcceptFind(r, k, i) ==
    /\ now < k.expires
    /\ k.email \in {invs[i].email, "none"}
    /\ invs[i].status = "pending"
    /\ now <= invs[i].expires
    /\ Begin(r, "join", OnInv(i))
    /\ UNCHANGED <<now, rows, links, faults, removed, resent>>

\* (Mutant) An insert that replaces the row of the same address.
AcceptInsertUpsert(r) ==
    /\ pc[r] = "join"
    /\ Goto(r, "accept")
    /\ UNCHANGED <<now, rows, links, arg, faults, removed, resent>>

\* (Mutant) An insert whose failure does not reach the rollback.
AcceptInsertUnfinished(r) ==
    /\ pc[r] = "join"
    /\ HoldsEmail(arg[r].email) = {}
    /\ users[arg[r].email] = "none"
    /\ Goto(r, "accept")
    /\ UNCHANGED <<now, rows, links, arg, faults, removed, resent>>

\* The insert waits for a transaction that has inserted the same address, and
\* throws when the address exists.
AcceptInsert(r) ==
    /\ pc[r] = "join"
    /\ HoldsEmail(arg[r].email) = {}
    /\ IF users[arg[r].email] = "none"
         THEN Goto(r, "accept") /\ UNCHANGED arg
         ELSE Finish({r})
    /\ UNCHANGED <<now, rows, links, faults, removed, resent>>

\* (Mutant) A row updated through the pool, and not in the transaction.
AcceptUpdateOutside(r) ==
    /\ pc[r] = "accept"
    /\ HoldsRow(arg[r].inv) = {}
    /\ invs' = [invs EXCEPT ![arg[r].inv].status = "accepted", ![arg[r].inv].joined = TRUE]
    /\ Goto(r, "commit")
    /\ UNCHANGED <<now, users, home, admin, links, arg, faults, removed, resent>>

\* DBService.update loads the row and saves it ACCEPTED, whatever it has become.
AcceptUpdate(r) ==
    /\ pc[r] = "accept"
    /\ HoldsRow(arg[r].inv) = {}
    /\ Goto(r, "commit")
    /\ UNCHANGED <<now, rows, links, arg, faults, removed, resent>>

AcceptCommit(r) ==
    LET a == arg[r] IN
    /\ pc[r] = "commit"
    /\ users' = [users EXCEPT ![a.email] = a.company]
    /\ invs' = [invs EXCEPT ![a.inv] = [@ EXCEPT !.status = "accepted", !.joined = TRUE]]
    /\ Finish({r})
    /\ UNCHANGED <<now, home, admin, links, faults, removed, resent>>

-------------------------------------------------------------------------------
\* resend and revoke: each reads the row and writes its status whatever it is.

ResendRead(r, i) ==
    /\ Begin(r, "extend", [OnInv(i) EXCEPT !.expires = now + Lifetime])
    /\ UNCHANGED <<now, rows, links, faults, removed, resent>>

ResendUpdate(r) ==
    LET a == arg[r] IN
    /\ pc[r] = "extend"
    /\ HoldsRow(a.inv) = {}
    /\ invs' = [invs EXCEPT ![a.inv] = [@ EXCEPT !.status = "pending", !.expires = a.expires]]
    /\ resent' = resent \cup {a.inv}
    /\ Goto(r, "remail")
    /\ UNCHANGED <<now, users, home, admin, links, arg, faults, removed>>

ResendMail(r) ==
    /\ pc[r] = "remail"
    /\ links' = links \cup {[email |-> "none", inv |-> arg[r].inv, expires |-> arg[r].expires]}
    /\ Finish({r})
    /\ UNCHANGED <<now, rows, faults, removed, resent>>

RevokeRead(r, i) ==
    /\ Begin(r, "revoke", OnInv(i))
    /\ UNCHANGED <<now, rows, links, faults, removed, resent>>

\* (Mutant) A status the enum does not have.
RevokeUpdateUnknown(r) ==
    /\ pc[r] = "revoke"
    /\ HoldsRow(arg[r].inv) = {}
    /\ invs' = [invs EXCEPT ![arg[r].inv].status = "revoked"]
    /\ Finish({r})
    /\ UNCHANGED <<now, users, home, admin, links, faults, removed, resent>>

RevokeUpdate(r) ==
    /\ pc[r] = "revoke"
    /\ HoldsRow(arg[r].inv) = {}
    /\ invs' = [invs EXCEPT ![arg[r].inv].status = "rejected"]
    /\ Finish({r})
    /\ UNCHANGED <<now, users, home, admin, links, faults, removed, resent>>

-------------------------------------------------------------------------------
\* What else happens to users, the clock, and faults.

\* AuthService.register, which makes a company of its own for the user.
Register(e) ==
    /\ users[e] = "none"
    /\ HoldsEmail(e) = {}
    /\ ops < MaxOps
    /\ ops' = ops + 1
    /\ users' = [users EXCEPT ![e] = "own"]
    /\ UNCHANGED <<now, invs, home, admin, links, pc, arg, faults, history>>

\* UsersService.remove deletes the row.
RemoveUser(e) ==
    /\ users[e] # "none"
    /\ ops < MaxOps
    /\ ops' = ops + 1
    /\ users' = [users EXCEPT ![e] = "none"]
    /\ removed' = removed \cup {e}
    /\ UNCHANGED <<now, invs, home, admin, links, pc, arg, faults, resent, crossed>>

Tick ==
    /\ now < MaxTime
    /\ now' = now + 1
    /\ UNCHANGED <<rows, links, pc, arg, ops, faults, history>>

\* A call of each request in S throws, or the process that serves them dies.
Fail(S) ==
    /\ faults < MaxFaults
    /\ faults' = faults + 1
    /\ Finish(S)
    /\ UNCHANGED <<now, rows, links, removed, resent>>

Step(r) ==
    \/ LocationUpdate(r)
    \/ CreateFindUser(r) \/ CreateFindPending(r) \/ CreateInsert(r) \/ Mail(r)
    \/ AcceptInsert(r) \/ AcceptUpdate(r) \/ AcceptCommit(r)
    \/ ResendUpdate(r) \/ ResendMail(r) \/ RevokeUpdate(r)

Next ==
    \/ \E r \in Requests :
          \/ Step(r)
          \/ \E e \in Emails :
                \/ \E c \in Companies : Create(r, e, c)
                \/ \E l \in Locations : LocationRead(r, l, e)
                \/ \E l \in Locations, c \in Companies : LocationCreate(r, l, e, c)
          \/ \E i \in DOMAIN invs :
                \/ ResendRead(r, i) \/ RevokeRead(r, i)
                \/ \E k \in links : AcceptFind(r, k, i)
    \/ \E l \in Locations, c \in Companies : LocationAdd(l, c)
    \/ \E e \in Emails : Register(e) \/ RemoveUser(e)
    \/ Tick
    \/ \E S \in SUBSET {r \in Requests : pc[r] \in InFlight} : S # {} /\ Fail(S)

Spec == Init /\ [][Next]_vars

\* The event loop resumes every pending await, and the database grants every lock
\* that is free.
FairSpec == Spec /\ \A r \in Requests : WF_vars(Step(r))

-------------------------------------------------------------------------------
\* Memberships change only as Membership allows: accept cannot move a user that
\* exists, and makes it a member of the company whose invitation it accepted.
Memberships == INSTANCE Membership
    WITH invited <- {<<invs[i].email, invs[i].company>> : i \in DOMAIN invs},
         member <- users
ImplementsMembership == Memberships!Spec

\* An accepted invitation made its address a member of its company, whichever
\* requests interleave and fail: the two writes of accept stand or fall together,
\* and an address never accepts two invitations of different companies.
AcceptedIsMember ==
    \A i \in DOMAIN invs :
        /\ invs[i].status = "accepted" => invs[i].joined
        /\ invs[i].joined /\ invs[i].email \notin removed =>
              users[invs[i].email] = invs[i].company

\* A company has at most one live invitation to an address, unless one of them
\* was resent (resend does not look) or two requests about the address overlap.
OneLiveInvitation ==
    \A i, j \in DOMAIN invs \ resent :
        /\ i < j /\ Live(i) /\ Live(j)
        /\ invs[i].email = invs[j].email /\ invs[i].company = invs[j].company
        => invs[i].email \in crossed

\* A revoked invitation is not accepted before it is resent, unless requests about
\* its address overlap: accept reads the status in one statement and writes it in
\* another.
RevokedIsNotAccepted ==
    [][\A i \in DOMAIN invs :
          invs[i].status = "rejected" /\ invs[i].email \notin crossed =>
              invs'[i].status # "accepted"]_vars

\* Every request ends, also one that waits for another's transaction.
RequestsEnd == \A r \in Requests : pc[r] # "idle" ~> pc[r] = "idle"
===============================================================================
