--------------------------- MODULE InvitationsProofs ---------------------------
(***************************************************************************)
(* Theorems about Invitations, for any sets of addresses, companies,       *)
(* locations and requests. RequestsEnd, a liveness property, is left to    *)
(* TLC.                                                                    *)
(*                                                                         *)
(* The first argument is about the transaction of accept: from its insert  *)
(* to its commit the address has no user, and no other transaction holds   *)
(* it, so the commit takes the address from no company to the inviting     *)
(* one.                                                                    *)
(*                                                                         *)
(* The second is about an address that one request at a time works on:     *)
(* what that request has read of its invitations still holds when it       *)
(* writes.                                                                 *)
(***************************************************************************)
EXTENDS Invitations, TLAPS

\* What request r works on exists.
Refers(r) ==
    /\ pc[r] = "update" => arg[r].location \in Locations
    /\ pc[r] \in {"update", "user", "pending", "insert"} =>
          arg[r].email \in Emails /\ arg[r].company \in Companies
    /\ pc[r] \in {"join", "accept", "commit", "extend", "remail", "revoke"} =>
          /\ arg[r].inv \in DOMAIN invs
          /\ arg[r].email = invs[arg[r].inv].email
          /\ arg[r].company = invs[arg[r].inv].company

RefInv == \A r \in Requests : Refers(r)

\* A transaction that has inserted an address is the only one, and nobody has it.
KeyInv ==
    \A r \in Requests : pc[r] \in {"accept", "commit"} =>
        /\ users[arg[r].email] = "none"
        /\ \A q \in Requests : pc[q] \in {"accept", "commit"} /\ arg[q].email = arg[r].email => q = r

IInv == TypeOK /\ RefInv /\ KeyInv /\ AcceptedIsMember

-------------------------------------------------------------------------------
\* The table of invitations: what is appended, and what an update leaves alone.

LEMMA Appended ==
    ASSUME NEW s \in Seq(Row), NEW x \in Row
    PROVE  /\ Len(s) \in Nat
           /\ Len(s) + 1 \in Nat
           /\ Append(s, x) \in Seq(Row)
           /\ DOMAIN Append(s, x) = DOMAIN s \cup {Len(s) + 1}
           /\ \A i \in DOMAIN s : Append(s, x)[i] = s[i]
           /\ Append(s, x)[Len(s) + 1] = x
           /\ Len(s) + 1 \notin DOMAIN s
  <1> DEFINE t == Append(s, x)
  <1>1. Len(s) \in Nat /\ DOMAIN s = 1..Len(s)
    OBVIOUS
  <1>2. t \in Seq(Row) /\ Len(t) = Len(s) + 1 /\ DOMAIN t = 1..(Len(s) + 1)
    OBVIOUS
  <1>3. \A i \in DOMAIN s : t[i] = s[i]
    OBVIOUS
  <1>4. t[Len(s) + 1] = x
    OBVIOUS
  <1>5. QED BY <1>1, <1>2, <1>3, <1>4

\* An update of row n keeps its address and its company, and every other row.
Updated(n) ==
    /\ invs' \in Seq(Row)
    /\ DOMAIN invs' = DOMAIN invs
    /\ \A i \in DOMAIN invs :
          /\ i # n => invs'[i] = invs[i]
          /\ invs'[i].email = invs[i].email /\ invs'[i].company = invs[i].company

LEMMA UpdateRow ==
    ASSUME TypeOK, NEW n \in DOMAIN invs, NEW x \in Row,
           x.email = invs[n].email, x.company = invs[n].company,
           invs' = [invs EXCEPT ![n] = x]
    PROVE  Updated(n) /\ invs'[n] = x
  <1>1. Len(invs) \in Nat /\ DOMAIN invs = 1..Len(invs) /\ \A i \in DOMAIN invs : invs[i] \in Row
    BY DEF TypeOK
  <1>2. invs' \in [1..Len(invs) -> Row]
    BY <1>1
  <1>3. invs' \in Seq(Row)
    BY <1>1, <1>2
  <1>4. DOMAIN invs' = DOMAIN invs
    BY <1>1, <1>2
  <1>5. invs'[n] = x /\ \A i \in DOMAIN invs : i # n => invs'[i] = invs[i]
    OBVIOUS
  <1>6. QED BY <1>3, <1>4, <1>5 DEF Updated

\* What the three statements that update an invitation do.
LEMMA InvUpdates ==
    ASSUME TypeOK, RefInv, NEW r \in Requests
    PROVE  /\ AcceptCommit(r) => /\ Updated(arg[r].inv) /\ arg[r].inv \in DOMAIN invs
                                  /\ invs'[arg[r].inv].status = "accepted"
                                  /\ invs'[arg[r].inv].joined = TRUE
           /\ ResendUpdate(r) => /\ Updated(arg[r].inv) /\ arg[r].inv \in DOMAIN invs
                                  /\ invs'[arg[r].inv].status = "pending"
                                  /\ invs'[arg[r].inv].joined = invs[arg[r].inv].joined
           /\ RevokeUpdate(r) => /\ Updated(arg[r].inv) /\ arg[r].inv \in DOMAIN invs
                                  /\ invs'[arg[r].inv].status = "rejected"
                                  /\ invs'[arg[r].inv].joined = invs[arg[r].inv].joined
  <1> DEFINE n == arg[r].inv
             x == invs[n]
  <1>0. arg[r].expires \in Nat
    BY DEF TypeOK, Arg
  <1>1. ASSUME n \in DOMAIN invs PROVE x \in Row
    BY <1>1 DEF TypeOK
  <1>2. ASSUME AcceptCommit(r)
        PROVE  Updated(n) /\ n \in DOMAIN invs /\ invs'[n].status = "accepted" /\ invs'[n].joined = TRUE
    <2> DEFINE y == [x EXCEPT !.status = "accepted", !.joined = TRUE]
    <2>1. n \in DOMAIN invs /\ invs' = [invs EXCEPT ![n] = y]
      BY <1>2 DEF AcceptCommit, RefInv, Refers
    <2>2. /\ y \in Row /\ y.email = x.email /\ y.company = x.company
          /\ y.status = "accepted" /\ y.joined = TRUE
      BY <1>1, <2>1 DEF Row
    <2> HIDE DEF y
    <2>3. QED BY <2>1, <2>2, UpdateRow
  <1>3. ASSUME ResendUpdate(r)
        PROVE  Updated(n) /\ n \in DOMAIN invs /\ invs'[n].status = "pending" /\ invs'[n].joined = x.joined
    <2> DEFINE y == [x EXCEPT !.status = "pending", !.expires = arg[r].expires]
    <2>1. n \in DOMAIN invs /\ invs' = [invs EXCEPT ![n] = y]
      BY <1>3 DEF ResendUpdate, RefInv, Refers
    <2>2. /\ y \in Row /\ y.email = x.email /\ y.company = x.company
          /\ y.status = "pending" /\ y.joined = x.joined
      BY <1>0, <1>1, <2>1 DEF Row
    <2> HIDE DEF y
    <2>3. QED BY <2>1, <2>2, UpdateRow
  <1>4. ASSUME RevokeUpdate(r)
        PROVE  Updated(n) /\ n \in DOMAIN invs /\ invs'[n].status = "rejected" /\ invs'[n].joined = x.joined
    <2> DEFINE y == [x EXCEPT !.status = "rejected"]
    <2>1. n \in DOMAIN invs /\ invs' = [invs EXCEPT ![n] = y]
      BY <1>4 DEF RevokeUpdate, RefInv, Refers
    <2>2. /\ y \in Row /\ y.email = x.email /\ y.company = x.company
          /\ y.status = "rejected" /\ y.joined = x.joined
      BY <1>1, <2>1 DEF Row
    <2> HIDE DEF y
    <2>3. QED BY <2>1, <2>2, UpdateRow
  <1>5. QED BY <1>2, <1>3, <1>4

\* createInvitation's insert.
LEMMA Inserted ==
    ASSUME TypeOK, RefInv, NEW r \in Requests, CreateInsert(r)
    PROVE  /\ invs' \in Seq(Row) /\ Len(invs) + 1 \in Nat
           /\ DOMAIN invs' = DOMAIN invs \cup {Len(invs) + 1} /\ Len(invs) + 1 \notin DOMAIN invs
           /\ \A i \in DOMAIN invs : invs'[i] = invs[i]
           /\ invs'[Len(invs) + 1].email = arg[r].email
           /\ invs'[Len(invs) + 1].company = arg[r].company
           /\ invs'[Len(invs) + 1].status = "pending"
           /\ invs'[Len(invs) + 1].joined = FALSE
           /\ arg[r].email \in Emails /\ arg[r].company \in Companies
  <1> DEFINE x == [email |-> arg[r].email, company |-> arg[r].company,
                   location |-> arg[r].location, status |-> "pending",
                   expires |-> arg[r].expires, joined |-> FALSE]
  <1>1. arg[r].email \in Emails /\ arg[r].company \in Companies
    BY DEF CreateInsert, RefInv, Refers
  <1>2. x \in Row
    BY <1>1 DEF Row, TypeOK, Arg
  <1>3. invs \in Seq(Row) /\ invs' = Append(invs, x)
    BY DEF TypeOK, CreateInsert
  <1>4. /\ x.email = arg[r].email /\ x.company = arg[r].company /\ x.status = "pending"
        /\ x.joined = FALSE
    OBVIOUS
  <1> HIDE DEF x
  <1>5. QED BY <1>1, <1>2, <1>3, <1>4, Appended

-------------------------------------------------------------------------------
\* No step takes an invitation away or changes whose it is.
Grows ==
    /\ invs' \in Seq(Row)
    /\ DOMAIN invs \subseteq DOMAIN invs'
    /\ \A i \in DOMAIN invs :
          invs'[i].email = invs[i].email /\ invs'[i].company = invs[i].company

LEMMA InvitationsGrow ==
    ASSUME TypeOK, RefInv, [Next]_vars
    PROVE  Grows
  <1>1. ASSUME invs' = invs PROVE Grows
    BY <1>1 DEF Grows, TypeOK
  <1>2. ASSUME NEW r \in Requests, CreateInsert(r) PROVE Grows
    BY <1>2, Inserted DEF Grows
  <1>3. ASSUME NEW r \in Requests, AcceptCommit(r) \/ ResendUpdate(r) \/ RevokeUpdate(r) PROVE Grows
    BY <1>3, InvUpdates DEF Updated, Grows
  <1>4. \/ invs' = invs
        \/ \E r \in Requests : \/ CreateInsert(r) \/ AcceptCommit(r)
                               \/ ResendUpdate(r) \/ RevokeUpdate(r)
    BY DEF Next, Step, LocationCreate, LocationAdd, LocationRead, LocationUpdate, Create,
       CreateFindUser, CreateFindPending, Mail, AcceptFind, AcceptInsert, AcceptUpdate, ResendRead,
       ResendMail, RevokeRead, Register, RemoveUser, Tick, Fail, rows, vars
  <1>5. QED BY <1>1, <1>2, <1>3, <1>4

-------------------------------------------------------------------------------
\* Types are preserved by every step.
RequestsOK ==
    /\ pc \in [Requests -> {"idle"} \cup InFlight]
    /\ arg \in [Requests -> Arg]
    /\ ops \in 0..MaxOps
    /\ crossed \subseteq Emails

LEMMA NoArgType == NoArg \in Arg
  BY DEF NoArg, Arg

\* What requests that begin work on.
LEMMA OnType ==
    ASSUME NEW e \in Emails, NEW c \in Companies
    PROVE  On(e, c) \in Arg /\ On(e, c).email = e /\ On(e, c).company = c
  BY DEF On, NoArg, Arg

LEMMA ArgFields ==
    ASSUME NEW a \in Arg
    PROVE  /\ \A l \in Locations : /\ [a EXCEPT !.location = l] \in Arg
                                  /\ [a EXCEPT !.location = l].email = a.email
           /\ \A n \in Nat : /\ [a EXCEPT !.inv = n] \in Arg
                            /\ [a EXCEPT !.inv = n].email = a.email
                            /\ [a EXCEPT !.inv = n].company = a.company
                            /\ [a EXCEPT !.inv = n].inv = n
           /\ \A n \in Nat : /\ [a EXCEPT !.expires = n] \in Arg
                            /\ [a EXCEPT !.expires = n].email = a.email
                            /\ [a EXCEPT !.expires = n].company = a.company
                            /\ [a EXCEPT !.expires = n].inv = a.inv
  BY DEF Arg

LEMMA BeginTypes ==
    ASSUME TypeOK, NEW r \in Requests, NEW label \in InFlight, NEW a \in Arg, a.email \in Emails,
           Begin(r, label, a)
    PROVE  RequestsOK'
  BY ConstantsAssumption DEF TypeOK, RequestsOK, Begin

LEMMA GotoTypes ==
    ASSUME TypeOK, NEW r \in Requests, NEW label \in InFlight, Goto(r, label), arg' \in [Requests -> Arg]
    PROVE  RequestsOK'
  BY DEF TypeOK, RequestsOK, Goto

LEMMA FinishTypes ==
    ASSUME TypeOK, NEW S, Finish(S)
    PROVE  RequestsOK'
  BY NoArgType DEF TypeOK, RequestsOK, Finish

LEMMA ArgUpdate ==
    ASSUME TypeOK, NEW r \in Requests, NEW n \in Nat
    PROVE  /\ [arg EXCEPT ![r].inv = n] \in [Requests -> Arg]
           /\ [arg EXCEPT ![r].expires = n] \in [Requests -> Arg]
  <1>1. arg \in [Requests -> Arg]
    BY DEF TypeOK
  <1>2. [arg[r] EXCEPT !.inv = n] \in Arg /\ [arg[r] EXCEPT !.expires = n] \in Arg
    BY <1>1 DEF Arg
  <1>3. QED BY <1>1, <1>2

LEMMA OnInvType ==
    ASSUME TypeOK, NEW i \in DOMAIN invs
    PROVE  /\ invs[i].email \in Emails /\ invs[i].company \in Companies
           /\ OnInv(i) \in Arg
           /\ OnInv(i).email = invs[i].email /\ OnInv(i).company = invs[i].company
           /\ OnInv(i).inv = i
  <1>1. invs[i] \in Row /\ i \in Nat
    BY DEF TypeOK
  <1>2. invs[i].email \in Emails /\ invs[i].company \in Companies
    BY <1>1 DEF Row
  <1>3. QED BY <1>1, <1>2, OnType, ArgFields DEF OnInv

LEMMA TypeStep ==
    ASSUME TypeOK, RefInv, Grows, [Next]_vars
    PROVE  TypeOK'
  <1> USE DEF InFlight
  <1>0. resent \subseteq DOMAIN invs' /\ invs' \in Seq(Row)
    BY DEF Grows, TypeOK
  <1>a. ASSUME RequestsOK', UNCHANGED <<now, users, home, admin, links, faults, removed, resent>>
        PROVE  TypeOK'
    BY <1>0, <1>a DEF TypeOK, RequestsOK
  <1>1. ASSUME NEW r \in Requests, NEW l \in Locations, NEW e \in Emails, NEW c \in Companies,
               LocationCreate(r, l, e, c)
        PROVE  TypeOK'
    <2>1. RequestsOK'
      <3> DEFINE a == [On(e, c) EXCEPT !.location = l]
      <3>1. a \in Arg /\ a.email \in Emails
        BY OnType, ArgFields
      <3>2. Begin(r, "user", a)
        BY <1>1 DEF LocationCreate
      <3> HIDE DEF a
      <3>3. QED BY <3>1, <3>2, BeginTypes
    <2>2. /\ home' \in [Locations -> Companies \cup {"none"}]
          /\ admin' \in [Locations -> Emails \cup {"none"}]
      BY <1>1 DEF LocationCreate, TypeOK
    <2>3. QED BY <1>0, <1>1, <2>1, <2>2 DEF LocationCreate, TypeOK, RequestsOK
  <1>2. ASSUME NEW l \in Locations, NEW c \in Companies, LocationAdd(l, c) PROVE TypeOK'
    <2>1. home' \in [Locations -> Companies \cup {"none"}] /\ ops' \in 0..MaxOps
      BY <1>2, ConstantsAssumption DEF LocationAdd, TypeOK
    <2>2. QED BY <1>2, <2>1 DEF LocationAdd, TypeOK, history
  <1>3. ASSUME NEW r \in Requests, NEW l \in Locations, NEW e \in Emails, LocationRead(r, l, e)
        PROVE  TypeOK'
    <2>1. home[l] \in Companies
      BY <1>3 DEF LocationRead, TypeOK
    <2>2. RequestsOK'
      <3> DEFINE a == [On(e, home[l]) EXCEPT !.location = l, !.changed = (e # admin[l])]
      <3>1. On(e, home[l]) \in Arg /\ On(e, home[l]).email = e
        BY <2>1, OnType
      <3>2. a \in Arg /\ a.email \in Emails
        BY <3>1 DEF Arg
      <3>3. Begin(r, "update", a)
        BY <1>3 DEF LocationRead
      <3> HIDE DEF a
      <3>4. QED BY <3>2, <3>3, BeginTypes
    <2>3. QED BY <1>3, <1>a, <2>2 DEF LocationRead, rows
  <1>4. ASSUME NEW r \in Requests, LocationUpdate(r) PROVE TypeOK'
    <2>1. arg[r].location \in Locations /\ arg[r].email \in Emails
      BY <1>4 DEF LocationUpdate, RefInv, Refers
    <2>2. RequestsOK'
      BY <1>4, GotoTypes, FinishTypes DEF LocationUpdate, TypeOK
    <2>3. admin' \in [Locations -> Emails \cup {"none"}]
      BY <1>4, <2>1 DEF LocationUpdate, TypeOK
    <2>4. QED BY <1>0, <1>4, <2>2, <2>3 DEF LocationUpdate, TypeOK, RequestsOK
  <1>5. ASSUME NEW r \in Requests, NEW e \in Emails, NEW c \in Companies, Create(r, e, c) PROVE TypeOK'
    <2>1. RequestsOK'
      BY <1>5, OnType, BeginTypes DEF Create
    <2>2. QED BY <1>5, <1>a, <2>1 DEF Create, rows
  <1>6. ASSUME NEW r \in Requests, CreateFindUser(r) PROVE TypeOK'
    <2>1. RequestsOK'
      BY <1>6, GotoTypes, FinishTypes DEF CreateFindUser, TypeOK
    <2>2. QED BY <1>6, <1>a, <2>1 DEF CreateFindUser, rows
  <1>7. ASSUME NEW r \in Requests, CreateFindPending(r) PROVE TypeOK'
    <2>1. now + Lifetime \in Nat
      BY ConstantsAssumption DEF TypeOK
    <2>2. RequestsOK'
      BY <1>7, <2>1, ArgUpdate, GotoTypes, FinishTypes DEF CreateFindPending
    <2>3. QED BY <1>7, <1>a, <2>2 DEF CreateFindPending, rows
  <1>8. ASSUME NEW r \in Requests, CreateInsert(r) PROVE TypeOK'
    <2>1. arg' \in [Requests -> Arg]
      BY <1>8, Inserted, ArgUpdate DEF CreateInsert
    <2>2. RequestsOK'
      BY <1>8, <2>1, GotoTypes DEF CreateInsert
    <2>3. QED BY <1>8, <1>a, <2>2 DEF CreateInsert
  <1>9. ASSUME NEW r \in Requests, Mail(r) \/ ResendMail(r) PROVE TypeOK'
    <2>1. RequestsOK'
      BY <1>9, FinishTypes DEF Mail, ResendMail
    <2>2. links' \subseteq Link
      BY <1>9 DEF Mail, ResendMail, TypeOK, Link, Arg
    <2>3. QED BY <1>0, <1>9, <2>1, <2>2 DEF Mail, ResendMail, rows, TypeOK, RequestsOK
  <1>10. ASSUME NEW r \in Requests, NEW i \in DOMAIN invs,
                RevokeRead(r, i) \/ ResendRead(r, i) \/ (\E k \in links : AcceptFind(r, k, i))
         PROVE  TypeOK'
    <2> DEFINE a == [OnInv(i) EXCEPT !.expires = now + Lifetime]
    <2>1. OnInv(i) \in Arg /\ OnInv(i).email \in Emails
      BY OnInvType
    <2>2. now + Lifetime \in Nat
      BY ConstantsAssumption DEF TypeOK
    <2>3. a \in Arg /\ a.email \in Emails
      BY <2>1, <2>2, ArgFields
    <2>4. Begin(r, "revoke", OnInv(i)) \/ Begin(r, "extend", a) \/ Begin(r, "join", OnInv(i))
      BY <1>10 DEF RevokeRead, ResendRead, AcceptFind
    <2> HIDE DEF a
    <2>5. RequestsOK'
      BY <2>1, <2>3, <2>4, BeginTypes
    <2>6. QED BY <1>10, <1>a, <2>5 DEF RevokeRead, ResendRead, AcceptFind, rows
  <1>11. ASSUME NEW r \in Requests, AcceptInsert(r) \/ AcceptUpdate(r) PROVE TypeOK'
    <2>1. RequestsOK'
      BY <1>11, GotoTypes, FinishTypes DEF AcceptInsert, AcceptUpdate, TypeOK
    <2>2. QED BY <1>11, <1>a, <2>1 DEF AcceptInsert, AcceptUpdate, rows
  <1>12. ASSUME NEW r \in Requests, AcceptCommit(r) PROVE TypeOK'
    <2>1. RequestsOK'
      BY <1>12, FinishTypes DEF AcceptCommit
    <2>2. arg[r].company \in Companies
      BY <1>12, OnInvType DEF AcceptCommit, RefInv, Refers
    <2>3. users' \in [Emails -> Companies \cup {"none", "own"}]
      BY <1>12, <2>2 DEF AcceptCommit, TypeOK
    <2>4. QED BY <1>0, <1>12, <2>1, <2>3 DEF AcceptCommit, TypeOK, RequestsOK
  <1>13. ASSUME NEW r \in Requests, ResendUpdate(r) PROVE TypeOK'
    <2>1. RequestsOK'
      BY <1>13, GotoTypes DEF ResendUpdate, TypeOK
    <2>2. arg[r].inv \in DOMAIN invs
      BY <1>13, InvUpdates
    <2>3. resent' \subseteq DOMAIN invs'
      BY <1>0, <1>13, <2>2 DEF ResendUpdate, Grows
    <2>4. QED BY <1>0, <1>13, <2>1, <2>3 DEF ResendUpdate, TypeOK, RequestsOK
  <1>14. ASSUME NEW r \in Requests, RevokeUpdate(r) PROVE TypeOK'
    <2>1. RequestsOK'
      BY <1>14, FinishTypes DEF RevokeUpdate
    <2>2. QED BY <1>14, <1>a, <2>1 DEF RevokeUpdate
  <1>15. ASSUME NEW e \in Emails, Register(e) \/ RemoveUser(e) PROVE TypeOK'
    <2>1. /\ users' \in [Emails -> Companies \cup {"none", "own"}]
          /\ ops' \in 0..MaxOps /\ removed' \subseteq Emails
      BY <1>15, ConstantsAssumption DEF Register, RemoveUser, TypeOK, history
    <2>2. QED BY <1>15, <2>1 DEF Register, RemoveUser, TypeOK, history
  <1>16. CASE Tick
    BY <1>16, ConstantsAssumption DEF Tick, TypeOK, rows, history
  <1>17. ASSUME NEW S, Fail(S) PROVE TypeOK'
    <2>1. RequestsOK'
      BY <1>17, FinishTypes DEF Fail
    <2>2. faults' \in 0..MaxFaults
      BY <1>17, ConstantsAssumption DEF Fail, TypeOK
    <2>3. QED BY <1>17, <2>1, <2>2 DEF Fail, TypeOK, rows, RequestsOK
  <1>18. CASE UNCHANGED vars
    BY <1>18 DEF vars, TypeOK
  <1>19. QED
    BY <1>1, <1>2, <1>3, <1>4, <1>5, <1>6, <1>7, <1>8, <1>9, <1>10, <1>11, <1>12, <1>13, <1>14,
       <1>15, <1>16, <1>17, <1>18 DEF Next, Step

-------------------------------------------------------------------------------
\* What requests work on survives a step that leaves them alone.
Kept(r) == pc'[r] = pc[r] /\ arg'[r] = arg[r]

LEMMA RefersKept ==
    ASSUME RefInv, Grows, NEW r \in Requests, Kept(r) \/ pc'[r] = "idle"
    PROVE  Refers(r)'
  <1>1. Refers(r)
    BY DEF RefInv
  <1>2. CASE pc'[r] = "idle"
    BY <1>2 DEF Refers
  <1>3. CASE Kept(r)
    BY <1>1, <1>3 DEF Kept, Refers, Grows
  <1>4. QED BY <1>2, <1>3

LEMMA OthersAlone ==
    ASSUME TypeOK, NEW r \in Requests, NEW q \in Requests
    PROVE  /\ q # r => \A label : Goto(r, label) => pc'[q] = pc[q]
           /\ q # r => \A label, a : Begin(r, label, a) => Kept(q)
           /\ \A S : Finish(S) => Kept(q) \/ pc'[q] = "idle"
           /\ \A label : Goto(r, label) => pc'[r] = label
           /\ \A label, a : Begin(r, label, a) => pc'[r] = label /\ arg'[r] = a
  BY DEF TypeOK, Goto, Begin, Finish, Kept

LEMMA RefStep ==
    ASSUME TypeOK, RefInv, Grows, [Next]_vars
    PROVE  RefInv'
  <1>a. ASSUME NEW S, Finish(S) PROVE RefInv'
    BY <1>a, OthersAlone, RefersKept DEF RefInv
  <1>b. ASSUME NEW r \in Requests, NEW label, Goto(r, label), Refers(r)',
               \A q \in Requests \ {r} : arg'[q] = arg[q]
        PROVE  RefInv'
    BY <1>b, OthersAlone, RefersKept DEF RefInv, Kept
  <1>c. ASSUME NEW r \in Requests, NEW label, NEW a, Begin(r, label, a), Refers(r)' PROVE RefInv'
    BY <1>c, OthersAlone, RefersKept DEF RefInv
  <1>1. ASSUME NEW r \in Requests, NEW l \in Locations, NEW e \in Emails, NEW c \in Companies,
               LocationCreate(r, l, e, c)
        PROVE  RefInv'
    <2> DEFINE a == [On(e, c) EXCEPT !.location = l]
    <2>1. a.email = e /\ a.company = c
      BY DEF On, NoArg
    <2>2. Begin(r, "user", a)
      BY <1>1 DEF LocationCreate
    <2> HIDE DEF a
    <2>3. Refers(r)'
      BY <2>1, <2>2, OthersAlone DEF Refers
    <2>4. QED BY <1>c, <2>2, <2>3
  <1>2. ASSUME NEW r \in Requests, NEW l \in Locations, NEW e \in Emails, LocationRead(r, l, e)
        PROVE  RefInv'
    <2> DEFINE a == [On(e, home[l]) EXCEPT !.location = l, !.changed = (e # admin[l])]
    <2>1. a.email = e /\ a.company = home[l] /\ a.location = l
      BY DEF On, NoArg
    <2>2. Begin(r, "update", a) /\ home[l] \in Companies
      BY <1>2 DEF LocationRead, TypeOK
    <2> HIDE DEF a
    <2>3. Refers(r)'
      BY <2>1, <2>2, OthersAlone DEF Refers
    <2>4. QED BY <1>c, <2>2, <2>3
  <1>3. ASSUME NEW r \in Requests, NEW e \in Emails, NEW c \in Companies, Create(r, e, c) PROVE RefInv'
    <2>1. Begin(r, "pending", On(e, c))
      BY <1>3 DEF Create
    <2>2. Refers(r)'
      BY <2>1, OnType, OthersAlone DEF Refers
    <2>3. QED BY <1>c, <2>1, <2>2
  <1>4. ASSUME NEW r \in Requests, NEW i \in DOMAIN invs,
               RevokeRead(r, i) \/ ResendRead(r, i) \/ (\E k \in links : AcceptFind(r, k, i))
        PROVE  RefInv'
    <2> DEFINE a == [OnInv(i) EXCEPT !.expires = now + Lifetime]
    <2>1. now + Lifetime \in Nat
      BY ConstantsAssumption DEF TypeOK
    <2>2. \A b \in {OnInv(i), a} :
             b.email = invs[i].email /\ b.company = invs[i].company /\ b.inv = i
      <3> DEFINE o == OnInv(i)
      <3>1. o \in Arg /\ o.email = invs[i].email /\ o.company = invs[i].company /\ o.inv = i
        BY OnInvType
      <3> HIDE DEF o
      <3>2. LET x == [o EXCEPT !.expires = now + Lifetime] IN
            x.email = o.email /\ x.company = o.company /\ x.inv = o.inv
        BY <2>1, <3>1, ArgFields
      <3>3. a = [o EXCEPT !.expires = now + Lifetime]
        BY DEF o
      <3> HIDE DEF a
      <3>4. QED BY <3>1, <3>2, <3>3 DEF o
    <2>3. PICK label \in {"revoke", "extend", "join"}, b \in {OnInv(i), a} : Begin(r, label, b)
      BY <1>4 DEF RevokeRead, ResendRead, AcceptFind
    <2> HIDE DEF a
    <2>4. pc'[r] = label /\ arg'[r] = b
      BY <2>3, OthersAlone
    <2>5. Refers(r)'
      BY <2>2, <2>4 DEF Refers, Grows
    <2>6. QED BY <1>c, <2>3, <2>5
  <1>5. ASSUME NEW r \in Requests, LocationUpdate(r) PROVE RefInv'
    <2>1. CASE Goto(r, "user") /\ arg' = arg
      <3>1. Refers(r)'
        BY <1>5, <2>1, OthersAlone DEF LocationUpdate, RefInv, Refers
      <3>2. QED BY <1>b, <2>1, <3>1
    <2>2. QED BY <1>5, <1>a, <2>1 DEF LocationUpdate
  <1>6. ASSUME NEW r \in Requests, CreateFindUser(r) PROVE RefInv'
    <2>1. CASE Goto(r, "pending") /\ arg' = arg
      <3>1. Refers(r)'
        BY <1>6, <2>1, OthersAlone DEF CreateFindUser, RefInv, Refers
      <3>2. QED BY <1>b, <2>1, <3>1
    <2>2. QED BY <1>6, <1>a, <2>1 DEF CreateFindUser
  <1>7. ASSUME NEW r \in Requests, CreateFindPending(r) PROVE RefInv'
    <2>1. CASE Goto(r, "insert") /\ arg' = [arg EXCEPT ![r].expires = now + Lifetime]
      <3>1. arg'[r].email = arg[r].email /\ arg'[r].company = arg[r].company
        BY <2>1 DEF TypeOK, Arg
      <3>2. Refers(r)'
        BY <1>7, <2>1, <3>1, OthersAlone DEF CreateFindPending, RefInv, Refers
      <3>3. \A q \in Requests \ {r} : arg'[q] = arg[q]
        BY <2>1 DEF TypeOK
      <3>4. QED BY <1>b, <2>1, <3>2, <3>3
    <2>2. QED BY <1>7, <1>a, <2>1 DEF CreateFindPending
  <1>8. ASSUME NEW r \in Requests, CreateInsert(r) PROVE RefInv'
    <2>1. Goto(r, "mail") /\ arg' = [arg EXCEPT ![r].inv = Len(invs) + 1]
      BY <1>8 DEF CreateInsert
    <2>2. Refers(r)'
      BY <2>1, OthersAlone DEF Refers
    <2>3. \A q \in Requests \ {r} : arg'[q] = arg[q]
      BY <2>1 DEF TypeOK
    <2>4. QED BY <1>b, <2>1, <2>2, <2>3
  <1>9. ASSUME NEW r \in Requests, AcceptInsert(r) \/ AcceptUpdate(r) \/ ResendUpdate(r) PROVE RefInv'
    <2>1. CASE \E label \in {"accept", "commit", "remail"} : Goto(r, label) /\ arg' = arg
      <3>1. PICK label \in {"accept", "commit", "remail"} : Goto(r, label) /\ arg' = arg
        BY <2>1
      <3>2. pc'[r] = label /\ Refers(r) /\ pc[r] \in {"join", "accept", "extend"}
        BY <1>9, <3>1, OthersAlone DEF AcceptInsert, AcceptUpdate, ResendUpdate, RefInv
      <3>3. Refers(r)'
        BY <3>1, <3>2 DEF Refers, Grows
      <3>4. QED BY <1>b, <3>1, <3>3
    <2>2. QED BY <1>9, <1>a, <2>1 DEF AcceptInsert, AcceptUpdate, ResendUpdate
  <1>10. ASSUME UNCHANGED <<pc, arg>> PROVE RefInv'
    BY <1>10, RefersKept DEF RefInv, Kept
  <1>11. QED
    BY <1>a, <1>1, <1>2, <1>3, <1>4, <1>5, <1>6, <1>7, <1>8, <1>9, <1>10
       DEF Next, Step, Mail, ResendMail, AcceptCommit, RevokeUpdate, Fail, LocationAdd, Register,
           RemoveUser, Tick, vars

-------------------------------------------------------------------------------
\* The key of an address: who holds it after a step held it before, and nobody
\* has been given the address.
Holding == {"accept", "commit"}

LEMMA KeyKept ==
    ASSUME KeyInv,
           \A q \in Requests : pc'[q] \in Holding =>
              /\ pc[q] \in Holding /\ arg'[q] = arg[q]
              /\ users'[arg[q].email] = "none"
    PROVE  KeyInv'
  BY DEF KeyInv, Holding

LEMMA KeyStep ==
    ASSUME TypeOK, RefInv, KeyInv, [Next]_vars
    PROVE  KeyInv'
  <1>a. ASSUME NEW S, Finish(S), users' = users PROVE KeyInv'
    <2>1. \A q \in Requests : Kept(q) \/ pc'[q] = "idle"
      BY <1>a, OthersAlone
    <2>2. QED BY <1>a, <2>1, KeyKept DEF Kept, KeyInv, Holding
  <1>b. ASSUME NEW r \in Requests, NEW label, Goto(r, label), label \notin Holding, users' = users,
               \A q \in Requests \ {r} : arg'[q] = arg[q]
        PROVE  KeyInv'
    <2>1. pc'[r] = label /\ \A q \in Requests \ {r} : pc'[q] = pc[q]
      BY <1>b, OthersAlone
    <2>2. QED BY <1>b, <2>1, KeyKept DEF KeyInv, Holding
  <1>c. ASSUME NEW r \in Requests, NEW label, NEW a, Begin(r, label, a), label \notin Holding,
               users' = users
        PROVE  KeyInv'
    <2>1. pc'[r] = label /\ \A q \in Requests \ {r} : Kept(q)
      BY <1>c, OthersAlone
    <2>2. QED BY <1>c, <2>1, KeyKept DEF Kept, KeyInv, Holding
  <1>1. ASSUME NEW r \in Requests, AcceptInsert(r) PROVE KeyInv'
    <2>1. CASE Goto(r, "accept") /\ arg' = arg /\ users[arg[r].email] = "none"
      <3>1. \A q \in Requests : pc[q] \in Holding => arg[q].email # arg[r].email
        BY <1>1 DEF AcceptInsert, HoldsEmail, Holding
      <3>2. pc'[r] = "accept" /\ \A q \in Requests \ {r} : pc'[q] = pc[q]
        BY <2>1, OthersAlone
      <3>3. users' = users
        BY <1>1 DEF AcceptInsert, rows
      <3>4. QED BY <2>1, <3>1, <3>2, <3>3 DEF KeyInv, Holding
    <2>2. CASE Finish({r})
      BY <1>1, <1>a, <2>2 DEF AcceptInsert, rows
    <2>3. QED BY <1>1, <2>1, <2>2 DEF AcceptInsert
  <1>2. ASSUME NEW r \in Requests, AcceptUpdate(r) PROVE KeyInv'
    <2>1. pc'[r] = "commit" /\ \A q \in Requests \ {r} : pc'[q] = pc[q]
      BY <1>2, OthersAlone DEF AcceptUpdate
    <2>2. pc[r] = "accept" /\ arg' = arg /\ users' = users
      BY <1>2 DEF AcceptUpdate, rows
    <2>3. QED BY <2>1, <2>2, KeyKept DEF KeyInv, Holding
  <1>3. ASSUME NEW r \in Requests, AcceptCommit(r) PROVE KeyInv'
    <2>1. pc'[r] = "idle" /\ \A q \in Requests \ {r} : Kept(q)
      BY <1>3 DEF AcceptCommit, Finish, Kept
    <2>2. \A q \in Requests : q # r /\ pc[q] \in Holding =>
             users[arg[q].email] = "none" /\ arg[q].email # arg[r].email
      BY <1>3 DEF AcceptCommit, KeyInv, Holding
    <2>3. \A e : e # arg[r].email => users'[e] = users[e]
      BY <1>3 DEF AcceptCommit, TypeOK
    <2>4. QED BY <2>1, <2>2, <2>3, KeyKept DEF Kept, Holding
  <1>4. ASSUME NEW e \in Emails, Register(e) PROVE KeyInv'
    <2>1. \A q \in Requests : pc[q] \in Holding => arg[q].email # e
      BY <1>4 DEF Register, HoldsEmail, Holding
    <2>2. pc' = pc /\ arg' = arg /\ \A f : f # e => users'[f] = users[f]
      BY <1>4 DEF Register, TypeOK
    <2>3. QED BY <2>1, <2>2, KeyKept DEF KeyInv, Holding
  <1>5. ASSUME NEW e \in Emails, RemoveUser(e) PROVE KeyInv'
    <2>1. pc' = pc /\ arg' = arg /\ \A f : users[f] = "none" => users'[f] = "none"
      BY <1>5 DEF RemoveUser, TypeOK
    <2>2. QED BY <2>1, KeyKept DEF KeyInv, Holding
  <1>6. ASSUME UNCHANGED <<pc, arg, users>> PROVE KeyInv'
    BY <1>6, KeyKept DEF KeyInv, Holding
  <1>7. ASSUME NEW r \in Requests,
               \/ CreateInsert(r) \/ CreateFindPending(r)
        PROVE  KeyInv'
    <2>1. users' = users /\ \A q \in Requests \ {r} : arg'[q] = arg[q] \/ Finish({r})
      BY <1>7 DEF CreateInsert, CreateFindPending, rows, TypeOK
    <2>2. Finish({r}) \/ Goto(r, "mail") \/ Goto(r, "insert")
      BY <1>7 DEF CreateInsert, CreateFindPending
    <2>3. QED BY <1>a, <1>b, <2>1, <2>2 DEF Holding
  <1>8. ASSUME NEW r \in Requests,
               \/ LocationUpdate(r) \/ CreateFindUser(r) \/ Mail(r)
               \/ ResendUpdate(r) \/ ResendMail(r) \/ RevokeUpdate(r)
        PROVE  KeyInv'
    <2>1. users' = users
      BY <1>8 DEF LocationUpdate, CreateFindUser, Mail, ResendUpdate, ResendMail, RevokeUpdate, rows
    <2>2. \/ Finish({r})
          \/ arg' = arg /\ \E label \in {"user", "pending", "remail"} : Goto(r, label)
      BY <1>8 DEF LocationUpdate, CreateFindUser, Mail, ResendUpdate, ResendMail, RevokeUpdate
    <2>3. QED BY <1>a, <1>b, <2>1, <2>2 DEF Holding
  <1>9. ASSUME NEW r \in Requests,
               \/ \E l \in Locations, e \in Emails : LocationRead(r, l, e)
               \/ \E l \in Locations, e \in Emails, c \in Companies : LocationCreate(r, l, e, c)
               \/ \E e \in Emails, c \in Companies : Create(r, e, c)
               \/ \E i \in DOMAIN invs : \/ RevokeRead(r, i) \/ ResendRead(r, i)
                                       \/ \E k \in links : AcceptFind(r, k, i)
        PROVE  KeyInv'
    <2>1. users' = users
      BY <1>9 DEF LocationRead, LocationCreate, Create, RevokeRead, ResendRead, AcceptFind, rows
    <2>2. \E label \in {"update", "user", "pending", "revoke", "extend", "join"} :
             \E a : Begin(r, label, a)
      BY <1>9 DEF LocationRead, LocationCreate, Create, RevokeRead, ResendRead, AcceptFind
    <2>3. QED BY <1>c, <2>1, <2>2 DEF Holding
  <1>10. ASSUME NEW S, Fail(S) PROVE KeyInv'
    BY <1>10, <1>a DEF Fail, rows
  <1>11. QED
    BY <1>1, <1>2, <1>3, <1>4, <1>5, <1>6, <1>7, <1>8, <1>9, <1>10
       DEF Next, Step, LocationAdd, Tick, vars, rows

-------------------------------------------------------------------------------
\* Invitations and users, both sides of AcceptedIsMember.
RowOK(i) ==
    /\ invs[i].status = "accepted" => invs[i].joined
    /\ invs[i].joined /\ invs[i].email \notin removed =>
          users[invs[i].email] = invs[i].company

LEMMA MemberStep ==
    ASSUME IInv, [Next]_vars
    PROVE  AcceptedIsMember'
  <1>0. TypeOK /\ RefInv /\ KeyInv /\ \A i \in DOMAIN invs : RowOK(i)
    BY DEF IInv, AcceptedIsMember, RowOK
  <1>1. SUFFICES \A i \in DOMAIN invs' : RowOK(i)'
    BY DEF AcceptedIsMember, RowOK
  <1>2. ASSUME UNCHANGED <<invs, users, removed>> PROVE \A i \in DOMAIN invs' : RowOK(i)'
    BY <1>0, <1>2 DEF RowOK
  <1>3. ASSUME NEW r \in Requests, CreateInsert(r) PROVE \A i \in DOMAIN invs' : RowOK(i)'
    <2>1. users' = users /\ removed' = removed
      BY <1>3 DEF CreateInsert
    <2>2. QED BY <1>0, <1>3, <2>1, Inserted DEF RowOK
  <1>4. ASSUME NEW r \in Requests, AcceptCommit(r) PROVE \A i \in DOMAIN invs' : RowOK(i)'
    <2> DEFINE e == arg[r].email
               n == arg[r].inv
    <2>1. /\ n \in DOMAIN invs /\ e = invs[n].email /\ arg[r].company = invs[n].company
          /\ users[e] = "none"
      BY <1>0, <1>4 DEF AcceptCommit, RefInv, Refers, KeyInv
    <2>2. e \in Emails /\ \A i \in DOMAIN invs : invs[i].company \in Companies
      BY <1>0, <2>1, OnInvType
    <2>3. removed' = removed /\ users' = [users EXCEPT ![e] = invs[n].company]
      BY <1>4, <2>1 DEF AcceptCommit
    <2>4. users'[e] = invs[n].company /\ \A f : f # e => users'[f] = users[f]
      BY <1>0, <2>2, <2>3 DEF TypeOK
    <2>5. \A i \in DOMAIN invs : invs[i].joined /\ invs[i].email \notin removed => invs[i].email # e
      BY <1>0, <2>1, <2>2, ConstantsAssumption DEF RowOK
    <2>6. /\ DOMAIN invs' = DOMAIN invs /\ \A i \in DOMAIN invs : i # n => invs'[i] = invs[i]
          /\ invs'[n].email = e /\ invs'[n].company = invs[n].company
          /\ invs'[n].status = "accepted" /\ invs'[n].joined = TRUE
      BY <1>0, <1>4, <2>1, InvUpdates DEF Updated
    <2> HIDE DEF e, n
    <2>7. QED BY <1>0, <2>1, <2>3, <2>4, <2>5, <2>6 DEF RowOK
  <1>5. ASSUME NEW r \in Requests, ResendUpdate(r) \/ RevokeUpdate(r)
        PROVE  \A i \in DOMAIN invs' : RowOK(i)'
    <2> DEFINE n == arg[r].inv
    <2>1. users' = users /\ removed' = removed
      BY <1>5 DEF ResendUpdate, RevokeUpdate
    <2>2. /\ n \in DOMAIN invs /\ DOMAIN invs' = DOMAIN invs
          /\ \A i \in DOMAIN invs : i # n => invs'[i] = invs[i]
          /\ invs'[n].email = invs[n].email /\ invs'[n].company = invs[n].company
          /\ invs'[n].status \in {"pending", "rejected"} /\ invs'[n].joined = invs[n].joined
      BY <1>0, <1>5, InvUpdates DEF Updated
    <2> HIDE DEF n
    <2>3. QED BY <1>0, <2>1, <2>2 DEF RowOK
  <1>6. ASSUME NEW e \in Emails, Register(e) PROVE \A i \in DOMAIN invs' : RowOK(i)'
    <2>1. /\ UNCHANGED <<invs, removed>> /\ users[e] = "none"
          /\ \A f : f # e => users'[f] = users[f]
      BY <1>0, <1>6 DEF Register, history, TypeOK
    <2>2. \A i \in DOMAIN invs : invs[i].company # "none"
      BY <1>0, OnInvType, ConstantsAssumption
    <2>3. QED BY <1>0, <2>1, <2>2 DEF RowOK
  <1>7. ASSUME NEW e \in Emails, RemoveUser(e) PROVE \A i \in DOMAIN invs' : RowOK(i)'
    <2>1. /\ invs' = invs /\ removed' = removed \cup {e}
          /\ \A f : f # e => users'[f] = users[f]
      BY <1>0, <1>7 DEF RemoveUser, TypeOK
    <2>2. QED BY <1>0, <2>1 DEF RowOK
  <1>8. QED
    <2>1. \/ UNCHANGED <<invs, users, removed>>
          \/ \E r \in Requests : \/ CreateInsert(r) \/ AcceptCommit(r)
                                 \/ ResendUpdate(r) \/ RevokeUpdate(r)
          \/ \E e \in Emails : Register(e) \/ RemoveUser(e)
      BY DEF Next, Step, LocationCreate, LocationAdd, LocationRead, LocationUpdate, Create,
         CreateFindUser, CreateFindPending, Mail, AcceptFind, AcceptInsert, AcceptUpdate,
         ResendRead, ResendMail, RevokeRead, Tick, Fail, rows, history, vars
    <2>2. QED BY <1>2, <1>3, <1>4, <1>5, <1>6, <1>7, <2>1

-------------------------------------------------------------------------------
LEMMA InitIInv == Init => IInv
  <1> SUFFICES ASSUME Init PROVE IInv
    OBVIOUS
  <1>1. TypeOK
    BY NoArgType, ConstantsAssumption DEF Init, TypeOK
  <1>2. RefInv /\ KeyInv /\ AcceptedIsMember
    BY DEF Init, RefInv, Refers, KeyInv, AcceptedIsMember
  <1>3. QED BY <1>1, <1>2 DEF IInv

LEMMA StepIInv == IInv /\ [Next]_vars => IInv'
  BY InvitationsGrow, TypeStep, RefStep, KeyStep, MemberStep DEF IInv

LEMMA SpecIInv == Spec => []IInv
  BY InitIInv, StepIInv, PTL DEF Spec

\* Whatever the requests, crashes and removals, the tables and the requests'
\* arguments stay well typed (invitations.service.ts).
THEOREM InvitationsTypeCorrect == Spec => []TypeOK
  BY SpecIInv, PTL DEF IInv

\* The two writes of accept stand or fall together, and no address accepts two
\* invitations of different companies, for any number of overlapping requests
\* (invitations.service.ts, accept).
THEOREM AcceptanceIsAtomic == Spec => []AcceptedIsMember
  BY SpecIInv, PTL DEF IInv

-------------------------------------------------------------------------------
\* Who was invited by whom, as Membership sees it.
Invited == {<<invs[i].email, invs[i].company>> : i \in DOMAIN invs}

LEMMA InvitedKept ==
    ASSUME DOMAIN invs' = DOMAIN invs,
           \A i \in DOMAIN invs :
              invs'[i].email = invs[i].email /\ invs'[i].company = invs[i].company
    PROVE  Invited' = Invited
  BY DEF Invited

LEMMA MembershipStep ==
    ASSUME IInv, [Next]_vars
    PROVE  [Memberships!Next]_(Memberships!vars)
  <1>0. TypeOK /\ RefInv /\ KeyInv
    BY DEF IInv
  <1>1. ASSUME Invited' = Invited, users' = users PROVE UNCHANGED Memberships!vars
    BY <1>1 DEF Memberships!vars, Invited
  <1>2. ASSUME NEW r \in Requests, CreateInsert(r) PROVE Memberships!Next
    <2> DEFINE n == Len(invs) + 1
    <2>1. PICK e \in Emails, c \in Companies : e = arg[r].email /\ c = arg[r].company
      BY <1>0, <1>2, Inserted
    <2>2. /\ DOMAIN invs' = DOMAIN invs \cup {n} /\ n \notin DOMAIN invs
          /\ \A i \in DOMAIN invs : invs'[i] = invs[i]
          /\ invs'[n].email = e /\ invs'[n].company = c
      BY <1>0, <1>2, <2>1, Inserted
    <2>3. users' = users
      BY <1>2 DEF CreateInsert
    <2> HIDE DEF n
    <2>4. Invited' = Invited \cup {<<e, c>>}
      BY <2>2 DEF Invited
    <2>5. Memberships!Invite(e, c)
      BY <2>3, <2>4 DEF Memberships!Invite, Invited
    <2>6. QED BY <2>5 DEF Memberships!Next
  <1>3. ASSUME NEW r \in Requests, AcceptCommit(r) PROVE Memberships!Next
    <2> DEFINE e == arg[r].email
               c == arg[r].company
               n == arg[r].inv
    <2>1. /\ n \in DOMAIN invs /\ e = invs[n].email /\ c = invs[n].company
          /\ users[e] = "none"
      BY <1>0, <1>3 DEF AcceptCommit, RefInv, Refers, KeyInv
    <2>2. e \in Emails /\ c \in Companies
      BY <1>0, <2>1, OnInvType
    <2>3. users' = [users EXCEPT ![e] = c]
      BY <1>3 DEF AcceptCommit
    <2>4. Invited' = Invited
      BY <1>0, <1>3, InvUpdates, InvitedKept DEF Updated
    <2>5. <<e, c>> \in Invited
      BY <2>1 DEF Invited
    <2> HIDE DEF e, c, n
    <2>6. Memberships!Enter(e, c)
      BY <2>1, <2>3, <2>4 DEF Memberships!Enter, Invited
    <2>7. QED BY <2>2, <2>5, <2>6 DEF Memberships!Next, Invited
  <1>4. ASSUME NEW r \in Requests, ResendUpdate(r) \/ RevokeUpdate(r)
        PROVE  UNCHANGED Memberships!vars
    <2>1. Invited' = Invited
      BY <1>0, <1>4, InvUpdates, InvitedKept DEF Updated
    <2>2. QED BY <1>1, <1>4, <2>1 DEF ResendUpdate, RevokeUpdate
  <1>5. ASSUME NEW e \in Emails, Register(e) PROVE Memberships!Next
    <2>1. Memberships!Enter(e, "own")
      BY <1>5 DEF Register, Memberships!Enter
    <2>2. QED BY <2>1 DEF Memberships!Next
  <1>6. ASSUME NEW e \in Emails, RemoveUser(e) PROVE Memberships!Next
    <2>1. Memberships!Leave(e)
      BY <1>6 DEF RemoveUser, Memberships!Leave
    <2>2. QED BY <2>1 DEF Memberships!Next
  <1>7. QED
    <2>1. \/ UNCHANGED <<invs, users>>
          \/ \E r \in Requests : \/ CreateInsert(r) \/ AcceptCommit(r)
                                 \/ ResendUpdate(r) \/ RevokeUpdate(r)
          \/ \E e \in Emails : Register(e) \/ RemoveUser(e)
      BY DEF Next, Step, LocationCreate, LocationAdd, LocationRead, LocationUpdate, Create,
         CreateFindUser, CreateFindPending, Mail, AcceptFind, AcceptInsert, AcceptUpdate,
         ResendRead, ResendMail, RevokeRead, Tick, Fail, rows, history, vars
    <2>2. CASE UNCHANGED <<invs, users>>
      BY <1>1, <2>2 DEF Invited
    <2>3. QED BY <1>2, <1>3, <1>4, <1>5, <1>6, <2>1, <2>2

\* An address belongs to one company at a time, and to another's company only when
\* that company invited it: accept never moves a user that exists
\* (invitations.service.ts, accept; the unique index on users.email).
THEOREM InvitationsImplementMembership == Spec => ImplementsMembership
  <1>1. Init => Memberships!Init
    BY DEF Init, Memberships!Init
  <1>2. IInv /\ [Next]_vars => [Memberships!Next]_(Memberships!vars)
    BY MembershipStep
  <1>3. QED
    BY <1>1, <1>2, SpecIInv, PTL DEF Spec, ImplementsMembership, Memberships!Spec
-------------------------------------------------------------------------------
\* Requests that do not overlap.  An address that two requests work on is crossed;
\* what a request has read about an address that is not crossed still holds.

Apart ==
    \A q, r \in Requests :
        q # r /\ arg[q].email = arg[r].email /\ arg[r].email \in Emails => arg[r].email \in crossed

\* Request r found no live invitation, and is about to insert one.
Checked(r) ==
    pc[r] = "insert" /\ arg[r].email \notin crossed =>
        \A i \in DOMAIN invs \ resent :
            ~(Live(i) /\ invs[i].email = arg[r].email /\ invs[i].company = arg[r].company)

\* Request r found its invitation pending, and is about to accept it.
Opened(r) ==
    pc[r] \in {"join", "accept", "commit"} /\ arg[r].email \notin crossed =>
        invs[arg[r].inv].status = "pending"

\* Two live invitations of a company to an address, none of them resent.
Twice(i, j) ==
    /\ i # j /\ Live(i) /\ Live(j)
    /\ invs[i].email = invs[j].email /\ invs[i].company = invs[j].company

OneLive == \A i, j \in DOMAIN invs \ resent : Twice(i, j) => invs[i].email \in crossed

OverlapInv ==
    /\ Apart
    /\ \A r \in Requests : Checked(r) /\ Opened(r)
    /\ OneLive

\* The steps that bring a request to where it relies on what it has read.
Relies(r) ==
    \/ CreateFindPending(r)
    \/ AcceptInsert(r) \/ AcceptUpdate(r)
    \/ \E k \in links, i \in DOMAIN invs : AcceptFind(r, k, i)

Relying == {"insert", "join", "accept", "commit"}

LEMMA Moves ==
    ASSUME TypeOK, [Next]_vars, NEW r \in Requests
    PROVE  Kept(r) \/ pc'[r] \notin Relying \/ Relies(r)
  <1> DEFINE Goal == Kept(r) \/ pc'[r] \notin Relying \/ Relies(r)
  <1>a. ASSUME NEW S, Finish(S) PROVE Goal
    BY <1>a, OthersAlone DEF Relying
  <1>b. ASSUME NEW q \in Requests, NEW label, Goto(q, label), label \notin Relying,
               \A p \in Requests \ {q} : arg'[p] = arg[p]
        PROVE  Goal
    BY <1>b, OthersAlone DEF Kept
  <1>c. ASSUME NEW q \in Requests, NEW label, NEW a, Begin(q, label, a), label \notin Relying
        PROVE  Goal
    BY <1>c, OthersAlone
  <1>1. ASSUME NEW q \in Requests, Relies(q) PROVE Goal
    <2>1. CASE q = r
      BY <1>1, <2>1
    <2>2. CASE q # r
      <3>1. \/ Finish({q})
            \/ (\E label : Goto(q, label)) /\ \A p \in Requests \ {q} : arg'[p] = arg[p]
            \/ \E label, a : Begin(q, label, a)
        BY <1>1 DEF Relies, CreateFindPending, AcceptInsert, AcceptUpdate, AcceptFind, TypeOK
      <3>2. QED BY <1>a, <2>2, <3>1, OthersAlone DEF Kept
    <2>3. QED BY <2>1, <2>2
  <1>2. ASSUME NEW q \in Requests,
               \/ \E l \in Locations, e \in Emails : LocationRead(q, l, e)
               \/ \E l \in Locations, e \in Emails, c \in Companies : LocationCreate(q, l, e, c)
               \/ \E e \in Emails, c \in Companies : Create(q, e, c)
               \/ \E i \in DOMAIN invs : RevokeRead(q, i) \/ ResendRead(q, i)
        PROVE  Goal
    <2>1. \E label \in {"update", "user", "pending", "revoke", "extend"} :
             \E a : Begin(q, label, a)
      BY <1>2 DEF LocationRead, LocationCreate, Create, RevokeRead, ResendRead
    <2>2. QED BY <1>c, <2>1 DEF Relying
  <1>3. ASSUME NEW q \in Requests,
               \/ LocationUpdate(q) \/ CreateFindUser(q) \/ CreateInsert(q) \/ Mail(q)
               \/ AcceptCommit(q) \/ ResendUpdate(q) \/ ResendMail(q) \/ RevokeUpdate(q)
        PROVE  Goal
    <2>1. \/ Finish({q})
          \/ /\ \E label \in {"user", "pending", "mail", "remail"} : Goto(q, label)
             /\ \A p \in Requests \ {q} : arg'[p] = arg[p]
      BY <1>3 DEF LocationUpdate, CreateFindUser, CreateInsert, Mail, AcceptCommit, ResendUpdate,
         ResendMail, RevokeUpdate, TypeOK
    <2>2. QED BY <1>a, <1>b, <2>1 DEF Relying
  <1>4. ASSUME NEW S, Fail(S) PROVE Goal
    BY <1>4, <1>a DEF Fail
  <1>5. ASSUME UNCHANGED <<pc, arg>> PROVE Goal
    BY <1>5 DEF Kept
  <1>6. QED
    BY <1>1, <1>2, <1>3, <1>4, <1>5
       DEF Next, Step, Relies, LocationAdd, Register, RemoveUser, Tick, vars

\* No step brings an address back from being crossed, and requests on one address
\* stay crossed.
LEMMA ApartStep ==
    ASSUME TypeOK, Apart, [Next]_vars
    PROVE  Apart' /\ crossed \subseteq crossed'
  <1>0. "none" \notin Emails
    BY ConstantsAssumption
  <1>1. ASSUME NEW S, Finish(S) PROVE Apart' /\ crossed \subseteq crossed'
    BY <1>0, <1>1 DEF Apart, Finish, NoArg
  <1>2. ASSUME NEW r \in Requests, NEW label, Goto(r, label),
               \A q \in Requests : arg'[q].email = arg[q].email
        PROVE  Apart' /\ crossed \subseteq crossed'
    BY <1>2 DEF Apart, Goto
  <1>3. ASSUME NEW r \in Requests, NEW label, NEW a, Begin(r, label, a)
        PROVE  Apart' /\ crossed \subseteq crossed'
    <2>1. arg' = [arg EXCEPT ![r] = a] /\ arg \in [Requests -> Arg]
      BY <1>3 DEF Begin, TypeOK
    <2>2. /\ crossed \subseteq crossed'
          /\ (\E q \in Requests : arg[q].email = a.email) => a.email \in crossed'
      BY <1>3 DEF Begin
    <2>3. QED BY <2>1, <2>2 DEF Apart
  <1>4. ASSUME UNCHANGED <<arg, crossed>> PROVE Apart' /\ crossed \subseteq crossed'
    BY <1>4 DEF Apart
  <1>5. ASSUME NEW r \in Requests, Step(r) PROVE Apart' /\ crossed \subseteq crossed'
    <2>1. \A n \in Nat : /\ [arg EXCEPT ![r].inv = n] \in [Requests -> Arg]
                         /\ \A q \in Requests : [arg EXCEPT ![r].inv = n][q].email = arg[q].email
      BY ArgUpdate, ArgFields DEF TypeOK
    <2>2. \A n \in Nat : /\ [arg EXCEPT ![r].expires = n] \in [Requests -> Arg]
                         /\ \A q \in Requests : [arg EXCEPT ![r].expires = n][q].email = arg[q].email
      BY ArgUpdate, ArgFields DEF TypeOK
    <2>3. now + Lifetime \in Nat /\ Len(invs) + 1 \in Nat
      BY ConstantsAssumption DEF TypeOK
    <2>4. \/ Finish({r})
          \/ /\ \E label : Goto(r, label)
             /\ \/ arg' = arg
                \/ arg' = [arg EXCEPT ![r].inv = Len(invs) + 1]
                \/ arg' = [arg EXCEPT ![r].expires = now + Lifetime]
      BY <1>5 DEF Step, LocationUpdate, CreateFindUser, CreateFindPending, CreateInsert, Mail,
         AcceptInsert, AcceptUpdate, AcceptCommit, ResendUpdate, ResendMail, RevokeUpdate
    <2>5. QED BY <1>1, <1>2, <2>1, <2>2, <2>3, <2>4
  <1>6. ASSUME NEW r \in Requests,
               \/ \E l \in Locations, e \in Emails : LocationRead(r, l, e)
               \/ \E l \in Locations, e \in Emails, c \in Companies : LocationCreate(r, l, e, c)
               \/ \E e \in Emails, c \in Companies : Create(r, e, c)
               \/ \E i \in DOMAIN invs : \/ RevokeRead(r, i) \/ ResendRead(r, i)
                                       \/ \E k \in links : AcceptFind(r, k, i)
        PROVE  Apart' /\ crossed \subseteq crossed'
    <2>1. \E label, a : Begin(r, label, a)
      BY <1>6 DEF LocationRead, LocationCreate, Create, RevokeRead, ResendRead, AcceptFind
    <2>2. QED BY <1>3, <2>1
  <1>7. ASSUME NEW S, Fail(S) PROVE Apart' /\ crossed \subseteq crossed'
    BY <1>7, <1>1 DEF Fail
  <1>8. QED
    BY <1>4, <1>5, <1>6, <1>7 DEF Next, LocationAdd, Register, RemoveUser, Tick, vars, history

\* How the table changes: a row is inserted by a request that then mails its link,
\* and a row that is accepted or rejected was so by a request that thereby ends.
Inserts(r) ==
    /\ pc[r] = "insert" /\ pc'[r] = "mail"
    /\ DOMAIN invs' = DOMAIN invs \cup {Len(invs) + 1} /\ Len(invs) + 1 \notin DOMAIN invs
    /\ \A i \in DOMAIN invs : invs'[i] = invs[i]
    /\ invs'[Len(invs) + 1].email = arg[r].email
    /\ invs'[Len(invs) + 1].company = arg[r].company
    /\ arg[r].email \in Emails
    /\ resent' = resent /\ now' = now /\ crossed' = crossed

Settles(r, n) ==
    /\ pc'[r] = "idle" /\ pc[r] \in {"commit", "revoke"} /\ n = arg[r].inv
    /\ n \in DOMAIN invs /\ arg[r].email = invs[n].email
    /\ Updated(n) /\ invs'[n].status \in {"accepted", "rejected"}
    /\ invs'[n].status = "accepted" => pc[r] = "commit"
    /\ resent' = resent /\ now' = now

Extends(n) ==
    /\ n \in DOMAIN invs /\ Updated(n) /\ invs'[n].status = "pending"
    /\ resent' = resent \cup {n} /\ now' = now

LEMMA TableSteps ==
    ASSUME TypeOK, RefInv, [Next]_vars
    PROVE  \/ invs' = invs /\ resent' = resent /\ now' \in Nat /\ now <= now'
           \/ \E r \in Requests : Inserts(r)
           \/ \E r \in Requests : Settles(r, arg[r].inv)
           \/ \E r \in Requests : Extends(arg[r].inv)
  <1>1. ASSUME NEW r \in Requests, CreateInsert(r) PROVE Inserts(r)
    <2>1. pc'[r] = "mail" /\ crossed' = crossed
      BY <1>1, OthersAlone DEF CreateInsert, Goto
    <2>2. QED BY <1>1, <2>1, Inserted DEF CreateInsert, Inserts
  <1>2. ASSUME NEW r \in Requests, AcceptCommit(r) \/ RevokeUpdate(r) PROVE Settles(r, arg[r].inv)
    <2>1. pc'[r] = "idle" /\ pc[r] \in {"commit", "revoke"} /\ resent' = resent /\ now' = now
      BY <1>2 DEF AcceptCommit, RevokeUpdate, Finish
    <2>2. arg[r].inv \in DOMAIN invs /\ arg[r].email = invs[arg[r].inv].email
      BY <2>1 DEF RefInv, Refers
    <2>3. /\ Updated(arg[r].inv) /\ invs'[arg[r].inv].status \in {"accepted", "rejected"}
          /\ invs'[arg[r].inv].status = "accepted" => pc[r] = "commit"
      BY <1>2, InvUpdates DEF AcceptCommit
    <2>4. QED BY <2>1, <2>2, <2>3 DEF Settles
  <1>3. ASSUME NEW r \in Requests, ResendUpdate(r) PROVE Extends(arg[r].inv)
    BY <1>3, InvUpdates DEF ResendUpdate, Extends
  <1>4. ASSUME invs' = invs, resent' = resent, now' = now \/ Tick
        PROVE  now' \in Nat /\ now <= now'
    BY <1>4, ConstantsAssumption DEF Tick, TypeOK
  <1>5. \/ invs' = invs /\ resent' = resent /\ (now' = now \/ Tick)
        \/ \E r \in Requests : \/ CreateInsert(r) \/ AcceptCommit(r)
                               \/ ResendUpdate(r) \/ RevokeUpdate(r)
    BY DEF Next, Step, LocationCreate, LocationAdd, LocationRead, LocationUpdate, Create,
       CreateFindUser, CreateFindPending, Mail, AcceptFind, AcceptInsert, AcceptUpdate, ResendRead,
       ResendMail, RevokeRead, Register, RemoveUser, Tick, Fail, rows, history, vars
  <1>6. QED BY <1>1, <1>2, <1>3, <1>4, <1>5

\* An old invitation that is live, and was not resent, was live before.
LEMMA LiveShrinks ==
    ASSUME TypeOK, RefInv, [Next]_vars, NEW i \in DOMAIN invs, i \notin resent', Live(i)'
    PROVE  /\ Live(i) /\ i \notin resent
           /\ invs'[i].email = invs[i].email /\ invs'[i].company = invs[i].company
  <1>0. invs[i].expires \in Nat /\ now \in Nat
    <2>1. invs[i] \in Row /\ now \in Nat
      BY DEF TypeOK
    <2>2. QED BY <2>1 DEF Row
  <1>1. CASE invs' = invs /\ resent' = resent /\ now' \in Nat /\ now <= now'
    BY <1>0, <1>1 DEF Live
  <1>2. ASSUME NEW r \in Requests, Inserts(r) PROVE Live(i) /\ i \notin resent /\ invs'[i] = invs[i]
    BY <1>2 DEF Inserts, Live
  <1>3. ASSUME NEW r \in Requests, Settles(r, arg[r].inv)
        PROVE  Live(i) /\ i \notin resent /\ invs'[i] = invs[i]
    BY <1>3 DEF Settles, Updated, Live
  <1>4. ASSUME NEW r \in Requests, Extends(arg[r].inv)
        PROVE  Live(i) /\ i \notin resent /\ invs'[i] = invs[i]
    BY <1>4 DEF Extends, Updated, Live
  <1>5. QED BY <1>1, <1>2, <1>3, <1>4, TableSteps

\* An inserted invitation that is like a live one was inserted by a request that
\* overlaps with whoever relies on there being none.
LEMMA CheckedStep ==
    ASSUME TypeOK, RefInv, OverlapInv, [Next]_vars, NEW r \in Requests
    PROVE  Checked(r)'
  <1>0. Apart /\ Checked(r) /\ crossed \subseteq crossed'
    BY ApartStep DEF OverlapInv
  <1>1. CASE Kept(r)
    <2>1. ASSUME pc[r] = "insert", arg[r].email \notin crossed, NEW i \in DOMAIN invs' \ resent',
                 Live(i)', invs'[i].email = arg[r].email, invs'[i].company = arg[r].company
          PROVE  FALSE
      <3>1. CASE i \in DOMAIN invs
        BY <1>0, <2>1, <3>1, LiveShrinks DEF Checked
      <3>2. CASE i \notin DOMAIN invs
        <4>1. PICK q \in Requests : Inserts(q)
          BY <2>1, <3>2, TableSteps DEF Settles, Extends, Updated
        <4>2. q # r /\ arg[q].email = arg[r].email /\ arg[q].email \in Emails
          BY <1>1, <2>1, <3>2, <4>1 DEF Inserts, Kept
        <4>3. QED BY <1>0, <2>1, <4>2 DEF Apart
      <3>3. QED BY <3>1, <3>2
    <2>2. QED BY <1>0, <1>1, <2>1 DEF Checked, Kept
  <1>2. CASE pc'[r] \notin Relying
    BY <1>2 DEF Checked, Relying
  <1>3. CASE CreateFindPending(r)
    <2>1. CASE Finish({r})
      BY <2>1, OthersAlone DEF Checked, Finish
    <2>2. CASE /\ ~Pending(arg[r].email, arg[r].company)
               /\ arg' = [arg EXCEPT ![r].expires = now + Lifetime]
      <3>1. now + Lifetime \in Nat /\ arg[r] \in Arg
        BY ConstantsAssumption DEF TypeOK
      <3>2. arg'[r].email = arg[r].email /\ arg'[r].company = arg[r].company
        BY <2>2, <3>1 DEF TypeOK, Arg
      <3>3. UNCHANGED <<invs, now>>
        BY <1>3 DEF CreateFindPending, rows
      <3>4. QED BY <2>2, <3>2, <3>3 DEF Checked, Pending, Live
    <2>3. QED BY <1>3, <2>1, <2>2 DEF CreateFindPending
  <1>4. CASE AcceptInsert(r) \/ AcceptUpdate(r) \/ \E k \in links, i \in DOMAIN invs : AcceptFind(r, k, i)
    <2>1. pc'[r] # "insert"
      <3>1. CASE AcceptInsert(r) \/ AcceptUpdate(r)
        BY <3>1, OthersAlone DEF AcceptInsert, AcceptUpdate, Finish
      <3>2. CASE \E k \in links, i \in DOMAIN invs : AcceptFind(r, k, i)
        BY <3>2, OthersAlone DEF AcceptFind
      <3>3. QED BY <1>4, <3>1, <3>2
    <2>2. QED BY <2>1 DEF Checked
  <1>5. QED BY <1>1, <1>2, <1>3, <1>4, Moves DEF Relies

\* Whoever rejects or accepts an invitation overlaps with the others who work on it.
LEMMA OpenedStep ==
    ASSUME TypeOK, RefInv, OverlapInv, [Next]_vars, NEW r \in Requests
    PROVE  Opened(r)'
  <1>0. Apart /\ Opened(r) /\ crossed \subseteq crossed'
    BY ApartStep DEF OverlapInv
  <1>1. CASE Kept(r)
    <2>1. SUFFICES ASSUME pc[r] \in {"join", "accept", "commit"}, arg[r].email \notin crossed
                   PROVE  invs'[arg[r].inv].status = "pending"
      BY <1>0, <1>1 DEF Opened, Kept
    <2> DEFINE n == arg[r].inv
    <2>2. /\ n \in DOMAIN invs /\ arg[r].email = invs[n].email /\ arg[r].email \in Emails
          /\ invs[n].status = "pending"
      BY <1>0, <2>1, OnInvType DEF RefInv, Refers, Opened
    <2>3. ASSUME NEW q \in Requests, Settles(q, arg[q].inv), arg[q].inv = n PROVE FALSE
      <3>1. q # r /\ arg[q].email = arg[r].email
        BY <1>1, <2>1, <2>2, <2>3 DEF Settles, Kept
      <3>2. QED BY <1>0, <2>1, <2>2, <3>1 DEF Apart
    <2> HIDE DEF n
    <2>4. invs'[n].status = "pending"
      BY <2>2, <2>3, TableSteps DEF Inserts, Settles, Extends, Updated
    <2>5. QED BY <2>4 DEF n
  <1>2. CASE pc'[r] \notin Relying
    BY <1>2 DEF Opened, Relying
  <1>3. CASE CreateFindPending(r)
    BY <1>3, OthersAlone DEF CreateFindPending, Opened, Finish
  <1>4. CASE AcceptInsert(r) \/ AcceptUpdate(r)
    <2>1. UNCHANGED invs /\ pc[r] \in {"join", "accept"}
      BY <1>4 DEF AcceptInsert, AcceptUpdate, rows
    <2>2. pc'[r] = "idle" \/ arg' = arg
      BY <1>4 DEF AcceptInsert, AcceptUpdate, Finish
    <2>3. QED BY <1>0, <2>1, <2>2 DEF Opened
  <1>5. ASSUME NEW k \in links, NEW i \in DOMAIN invs, AcceptFind(r, k, i) PROVE Opened(r)'
    <2>1. arg'[r].inv = i /\ invs' = invs /\ invs[i].status = "pending"
      BY <1>5, OnInvType, OthersAlone DEF AcceptFind, rows
    <2>2. QED BY <2>1 DEF Opened
  <1>6. QED BY <1>1, <1>2, <1>3, <1>4, <1>5, Moves DEF Relies

LEMMA OneLiveStep ==
    ASSUME TypeOK, RefInv, OverlapInv, [Next]_vars
    PROVE  OneLive'
  <1>0. OneLive /\ crossed \subseteq crossed' /\ \A r \in Requests : Checked(r)
    BY ApartStep DEF OverlapInv
  <1>1. SUFFICES ASSUME NEW i \in DOMAIN invs' \ resent', NEW j \in DOMAIN invs' \ resent', Twice(i, j)'
                 PROVE  invs'[i].email \in crossed'
    BY DEF OneLive
  <1>2. CASE i \in DOMAIN invs /\ j \in DOMAIN invs
    BY <1>0, <1>1, <1>2, LiveShrinks DEF OneLive, Twice
  <1>3. CASE i \notin DOMAIN invs \/ j \notin DOMAIN invs
    <2>1. PICK r \in Requests : Inserts(r)
      BY <1>3, TableSteps DEF Settles, Extends, Updated
    <2> DEFINE n == Len(invs) + 1
    <2>2. /\ pc[r] = "insert" /\ crossed' = crossed
          /\ invs'[n].email = arg[r].email /\ invs'[n].company = arg[r].company
          /\ DOMAIN invs' = DOMAIN invs \cup {n}
      BY <2>1 DEF Inserts
    <2>3. ASSUME NEW m \in DOMAIN invs \ resent', Live(m)',
                 invs'[m].email = arg[r].email, invs'[m].company = arg[r].company
          PROVE  arg[r].email \in crossed
      <3>1. Live(m) /\ m \notin resent /\ invs[m].email = arg[r].email /\ invs[m].company = arg[r].company
        BY <2>3, LiveShrinks
      <3>2. QED BY <1>0, <2>2, <2>3, <3>1 DEF Checked
    <2> HIDE DEF n
    <2>4. QED BY <1>1, <1>3, <2>2, <2>3 DEF Twice
  <1>4. QED BY <1>2, <1>3

LEMMA SpecOverlapInv == Spec => []OverlapInv
  <1>1. Init => OverlapInv
    BY ConstantsAssumption DEF Init, OverlapInv, Apart, Checked, Opened, OneLive, NoArg
  <1>2. IInv /\ OverlapInv /\ [Next]_vars => OverlapInv'
    BY ApartStep, CheckedStep, OpenedStep, OneLiveStep DEF IInv, OverlapInv
  <1>3. QED BY <1>1, <1>2, SpecIInv, PTL DEF Spec

\* A company never has two live invitations to an address, for any number of
\* requests, unless one was resent or two requests about the address overlap
\* (invitations.service.ts, createInvitation).
THEOREM OneInvitationAtATime == Spec => []OneLiveInvitation
  <1>1. IInv /\ OverlapInv => OneLiveInvitation
    BY DEF IInv, OverlapInv, OneLive, Twice, OneLiveInvitation, TypeOK
  <1>2. QED BY <1>1, SpecIInv, SpecOverlapInv, PTL

\* An invitation that was revoked is not accepted unless requests about its
\* address overlap, or it is resent first (invitations.service.ts, revoke, accept).
THEOREM RevokedStaysRevoked == Spec => RevokedIsNotAccepted
  <1> DEFINE A == \A i \in DOMAIN invs :
                     invs[i].status = "rejected" /\ invs[i].email \notin crossed =>
                        invs'[i].status # "accepted"
  <1>1. ASSUME IInv, OverlapInv, [Next]_vars PROVE A
    <2>0. TypeOK /\ RefInv /\ \A r \in Requests : Opened(r)
      BY <1>1 DEF IInv, OverlapInv
    <2>1. SUFFICES ASSUME NEW i \in DOMAIN invs, invs[i].status = "rejected",
                          invs[i].email \notin crossed, invs'[i].status = "accepted"
                   PROVE  FALSE
      OBVIOUS
    <2>2. PICK r \in Requests : Settles(r, arg[r].inv)
      BY <1>1, <2>0, <2>1, TableSteps DEF Inserts, Extends, Updated
    <2>3. arg[r].inv = i /\ pc[r] = "commit" /\ arg[r].email = invs[i].email
      BY <2>1, <2>2 DEF Settles, Updated
    <2>4. QED BY <2>0, <2>1, <2>3 DEF Opened
  <1>2. IInv /\ OverlapInv /\ [Next]_vars => [A]_vars
    BY <1>1
  <1>3. QED BY <1>2, SpecIInv, SpecOverlapInv, PTL DEF Spec, RevokedIsNotAccepted
===============================================================================
