----------------------------- MODULE AccountsProofs -----------------------------
(***************************************************************************)
(* Theorems about Accounts, for any sets of users and requests, any clock  *)
(* and any number of faults.  RegisteredUserIsMailed, a liveness property, *)
(* is left to TLC.                                                         *)
(*                                                                         *)
(* The two promises about codes are inductive only with what a createCode  *)
(* call knows between its statements: after the first one, that every code *)
(* of the user has cooled down; after the second one, also that every one  *)
(* is used.  Both stay true up to the insert because no other call for the *)
(* user is inside createCode.                                              *)
(***************************************************************************)
EXTENDS Accounts, TLAPS, WellFoundedInduction

\* What request r refers to exists, and a code it is verifying with is its own.
Refers(r) ==
    /\ pc[r] = "user" => arg[r].ref \in 1..companies
    /\ pc[r] = "mail" => arg[r].ref \in DOMAIN codes
    /\ pc[r] \in {"find", "use", "verify"} =>
          arg[r].ref \in mailed /\ account[arg[r].user] # 0
    /\ pc[r] \in {"use", "verify"} => arg[r].ref \in CodesOf(arg[r].user)
    /\ pc[r] = "verify" => arg[r].ref \in used

RefInv == \A r \in Requests : Refers(r)

\* A user none of whose createCode calls have overlapped.
Single(u) == \A r, q \in Busy(u) : r = q

Spent(u) ==
    /\ \A c, d \in CodesOf(u) : c < d => c \in used
    /\ \A r \in Busy(u) : pc[r] = "insert" => CodesOf(u) \subseteq used

Cooled(u) ==
    /\ \A c, d \in CodesOf(u) : c < d => codes[c].created + Cooldown <= codes[d].created
    /\ \A r \in Busy(u) : pc[r] \in {"deactivate", "insert"} =>
          \A c \in CodesOf(u) : codes[c].created + Cooldown <= now

CreateInv == \A u \in Users \ overlapped : Single(u) /\ Spent(u) /\ Cooled(u)

IInv == TypeOK /\ RefInv /\ VerifiedByOwnCode /\ CreateInv

-------------------------------------------------------------------------------
\* Facts about the table of codes and about ending requests.

CodeType == [user : Users, created : 0..MaxTime, expires : Nat]

\* A nonempty set of positions in a sequence has a last one.
LEMMA LastPosition ==
    ASSUME NEW n \in Nat, NEW T \in SUBSET (1..n), T # {}
    PROVE  \E c \in T : \A d \in T : d <= c
  <1> DEFINE M == {n - c : c \in T}
  <1>1. M \subseteq Nat /\ M # {}
    <2>1. \A c \in T : c \in Nat /\ n - c \in Nat
      OBVIOUS
    <2>2. M \subseteq Nat
      BY <2>1
    <2>3. PICK c \in T : TRUE
      OBVIOUS
    <2>4. n - c \in M
      BY <2>3
    <2>5. QED BY <2>2, <2>4
  <1>2. PICK m \in M : \A k \in M : ~(<<k, m>> \in OpToRel(<, Nat))
    BY <1>1, NatLessThanWellFounded, WFMin, Zenon
  <1>3. \A k \in M : ~(k < m)
    BY <1>1, <1>2 DEF OpToRel
  <1>4. PICK c \in T : m = n - c
    OBVIOUS
  <1>5. ASSUME NEW d \in T PROVE d <= c
    <2>1. n - d \in M
      OBVIOUS
    <2>2. ~(n - d < n - c)
      BY <1>3, <1>4, <2>1
    <2>3. c \in Nat /\ d \in Nat
      OBVIOUS
    <2>4. QED BY <2>2, <2>3
  <1>6. QED BY <1>5

LEMMA CodesTyped ==
    ASSUME TypeOK, NEW u \in Users
    PROVE  /\ Len(codes) \in Nat /\ CodesOf(u) \subseteq 1..Len(codes)
           /\ \A c \in CodesOf(u) : codes[c].created \in Nat /\ c \in Nat
  <1>1. codes \in Seq(CodeType)
    BY DEF TypeOK, CodeType
  <1>2. Len(codes) \in Nat /\ DOMAIN codes = 1..Len(codes)
    BY <1>1
  <1>3. CodesOf(u) \subseteq 1..Len(codes)
    BY <1>2 DEF CodesOf
  <1>4. ASSUME NEW c \in CodesOf(u) PROVE codes[c].created \in Nat /\ c \in Nat
    <2>1. c \in 1..Len(codes)
      BY <1>3
    <2>2. codes[c] \in CodeType
      BY <1>1, <2>1
    <2>3. QED BY <1>2, <2>1, <2>2, ConstantsAssumption DEF CodeType
  <1>5. QED BY <1>2, <1>3, <1>4

\* The insert appends a code of the caller's user and leaves the others alone.
LEMMA InsertedCode ==
    ASSUME TypeOK, NEW r \in Requests, CreateCodeInsert(r)
    PROVE  /\ Len(codes) \in Nat
           /\ DOMAIN codes = 1..Len(codes)
           /\ DOMAIN codes' = 1..(Len(codes) + 1)
           /\ DOMAIN codes \subseteq DOMAIN codes'
           /\ codes' \in Seq(CodeType)
           /\ \A c \in DOMAIN codes : codes'[c] = codes[c]
           /\ codes'[Len(codes) + 1].user = arg[r].user
           /\ codes'[Len(codes) + 1].created = now
           /\ \A u \in Users :
                 CodesOf(u)' = IF u = arg[r].user THEN CodesOf(u) \cup {Len(codes) + 1}
                                                  ELSE CodesOf(u)
  <1> DEFINE new == [user |-> arg[r].user, created |-> now, expires |-> now + Lifetime]
  <1>1. codes \in Seq(CodeType) /\ new \in CodeType
    BY ConstantsAssumption DEF TypeOK, CodeType
  <1>2. codes' = Append(codes, new)
    BY DEF CreateCodeInsert
  <1>3. /\ Len(codes) \in Nat
        /\ DOMAIN codes = 1..Len(codes)
        /\ DOMAIN codes' = 1..(Len(codes) + 1)
        /\ codes' \in Seq(CodeType)
        /\ \A c \in DOMAIN codes : codes'[c] = codes[c]
        /\ codes'[Len(codes) + 1] = new
    BY <1>1, <1>2
  <1>4. ASSUME NEW u \in Users
        PROVE  CodesOf(u)' = IF u = arg[r].user THEN CodesOf(u) \cup {Len(codes) + 1}
                                                ELSE CodesOf(u)
    BY <1>3 DEF CodesOf
  <1>5. DOMAIN codes \subseteq DOMAIN codes'
    BY <1>3
  <1>6. QED BY <1>3, <1>4, <1>5

-------------------------------------------------------------------------------
\* Types are preserved by every step.
ArgType == [user : Users, ref : Nat]

LEMMA NoArgType == NoArg \in ArgType /\ \A u \in Users : [NoArg EXCEPT !.user = u] \in ArgType
  BY ConstantsAssumption DEF NoArg, ArgType

LEMMA RefUpdate ==
    ASSUME TypeOK, NEW r \in Requests, NEW n \in Nat
    PROVE  [arg EXCEPT ![r].ref = n] \in [Requests -> ArgType]
  <1>1. arg \in [Requests -> ArgType]
    BY DEF TypeOK, ArgType
  <1>2. [arg[r] EXCEPT !.ref = n] \in ArgType
    BY <1>1 DEF ArgType
  <1>3. QED BY <1>1, <1>2

RequestsOK ==
    /\ pc \in [Requests -> {"idle"} \cup InFlight]
    /\ arg \in [Requests -> ArgType]
    /\ background \subseteq Requests
    /\ ops \in 0..MaxOps

LEMMA BeginTypes ==
    ASSUME TypeOK, NEW r \in Requests, NEW label \in InFlight, NEW a \in ArgType,
           Begin(r, label, a)
    PROVE  RequestsOK'
  BY ConstantsAssumption DEF TypeOK, RequestsOK, ArgType, Begin

LEMMA GotoTypes ==
    ASSUME TypeOK, NEW r \in Requests, NEW label \in InFlight, Goto(r, label)
    PROVE  pc' \in [Requests -> {"idle"} \cup InFlight] /\ ops' \in 0..MaxOps
  BY DEF TypeOK, Goto

LEMMA FinishTypes ==
    ASSUME TypeOK, NEW S, Finish(S)
    PROVE  RequestsOK'
  BY NoArgType DEF TypeOK, RequestsOK, ArgType, Finish

LEMMA TypeStep ==
    ASSUME TypeOK, RefInv, [Next]_vars
    PROVE  TypeOK'
  <1> USE DEF InFlight, InCreateCode
  <1>1. ASSUME NEW r \in Requests, NEW u \in Users, RegisterFind(r, u) PROVE TypeOK'
    <2>1. RequestsOK'
      BY <1>1, BeginTypes, NoArgType DEF RegisterFind
    <2>2. QED BY <1>1, <2>1 DEF RegisterFind, tables, TypeOK, RequestsOK, ArgType
  <1>2. ASSUME NEW r \in Requests, RegisterCompany(r) PROVE TypeOK'
    <2>1. pc' \in [Requests -> {"idle"} \cup InFlight] /\ ops' \in 0..MaxOps
      BY <1>2, GotoTypes DEF RegisterCompany
    <2>2. companies' \in Nat /\ account' \in [Users -> 0..companies']
      BY <1>2 DEF RegisterCompany, TypeOK
    <2>3. arg' \in [Requests -> [user : Users, ref : Nat]]
      BY <1>2, RefUpdate, companies + 1 \in Nat DEF RegisterCompany, TypeOK, ArgType
    <2>4. QED BY <1>2, <2>1, <2>2, <2>3 DEF RegisterCompany, TypeOK
  <1>3. ASSUME NEW r \in Requests, RegisterUser(r) PROVE TypeOK'
    <2>1. CASE account[arg[r].user] = 0 /\ Goto(r, "last")
      <3>1. pc' \in [Requests -> {"idle"} \cup InFlight] /\ ops' \in 0..MaxOps
        BY <2>1, GotoTypes
      <3>2. /\ account' = [account EXCEPT ![arg[r].user] = arg[r].ref]
            /\ background' = background \cup {r}
            /\ arg' = arg
            /\ NoteOverlap(arg[r].user)
        BY <1>3, <2>1 DEF RegisterUser
      <3>3. arg[r].user \in Users /\ arg[r].ref \in 1..companies
        BY <1>3 DEF RegisterUser, RefInv, Refers, TypeOK
      <3>4. /\ account' \in [Users -> 0..companies]
            /\ verified \subseteq {u \in Users : account'[u] # 0}
        BY <3>2, <3>3 DEF TypeOK
      <3>5. overlapped' \subseteq Users
        BY <3>2, <3>3 DEF NoteOverlap, TypeOK
      <3>6. QED BY <1>3, <3>1, <3>2, <3>4, <3>5 DEF RegisterUser, TypeOK
    <2>2. CASE account[arg[r].user] # 0 /\ Finish({r})
      <3>1. RequestsOK'
        BY <2>2, FinishTypes
      <3>2. account' = account /\ overlapped' = overlapped
        BY <1>3, <2>2 DEF RegisterUser
      <3>3. QED BY <1>3, <3>1, <3>2 DEF RegisterUser, TypeOK, RequestsOK, ArgType
    <2>3. QED BY <1>3, <2>1, <2>2 DEF RegisterUser
  <1>4. ASSUME NEW r \in Requests, NEW u \in Users, Resend(r, u) PROVE TypeOK'
    <2>1. RequestsOK'
      BY <1>4, BeginTypes, NoArgType DEF Resend
    <2>2. overlapped' \subseteq Users
      BY <1>4 DEF Resend, NoteOverlap, TypeOK
    <2>3. QED BY <1>4, <2>1, <2>2 DEF Resend, tables, TypeOK, RequestsOK, ArgType
  <1>5. ASSUME NEW r \in Requests, CreateCodeLast(r) PROVE TypeOK'
    <2>1. CASE Goto(r, "deactivate") /\ UNCHANGED <<arg, background, interrupted>>
      BY <1>5, <2>1, GotoTypes DEF CreateCodeLast, tables, TypeOK
    <2>2. CASE Finish({r}) /\ UNCHANGED interrupted
      <3>1. RequestsOK'
        BY <2>2, FinishTypes
      <3>2. QED
        BY <1>5, <2>2, <3>1 DEF CreateCodeLast, tables, TypeOK, RequestsOK, ArgType
    <2>3. ASSUME NEW S \in SUBSET Requests, Finish(S),
                 interrupted' = interrupted \cup {arg[x].user : x \in S}
          PROVE  TypeOK'
      <3>1. RequestsOK'
        BY <2>3, FinishTypes
      <3>2. interrupted' \subseteq Users
        BY <2>3 DEF TypeOK
      <3>3. QED
        BY <1>5, <3>1, <3>2 DEF CreateCodeLast, tables, TypeOK, RequestsOK, ArgType
    <2>4. QED BY <1>5, <2>1, <2>2, <2>3 DEF CreateCodeLast
  <1>6. ASSUME NEW r \in Requests, CreateCodeDeactivate(r) PROVE TypeOK'
    BY <1>6, GotoTypes DEF CreateCodeDeactivate, CodesOf, TypeOK
  <1>7. ASSUME NEW r \in Requests, CreateCodeInsert(r) PROVE TypeOK'
    <2>1. pc' \in [Requests -> {"idle"} \cup InFlight] /\ ops' \in 0..MaxOps
      BY <1>7, GotoTypes DEF CreateCodeInsert
    <2>2. /\ codes' \in Seq(CodeType)
          /\ Len(codes) \in Nat
          /\ DOMAIN codes \subseteq DOMAIN codes'
      BY <1>7, InsertedCode
    <2>3. arg' \in [Requests -> [user : Users, ref : Nat]]
      <3>1. Len(codes) + 1 \in Nat
        BY <2>2
      <3>2. [arg EXCEPT ![r].ref = Len(codes) + 1] \in [Requests -> ArgType]
        BY <3>1, RefUpdate
      <3>3. QED BY <1>7, <3>2 DEF CreateCodeInsert, ArgType
    <2>4. used \subseteq DOMAIN codes' /\ mailed \subseteq DOMAIN codes'
      BY <2>2 DEF TypeOK
    <2>5. QED BY <1>7, <2>1, <2>2, <2>3, <2>4 DEF CreateCodeInsert, TypeOK, CodeType
  <1>8. ASSUME NEW r \in Requests, Mail(r) PROVE TypeOK'
    <2>1. RequestsOK'
      BY <1>8, FinishTypes DEF Mail
    <2>2. mailed' \subseteq DOMAIN codes
      BY <1>8 DEF Mail, RefInv, Refers, TypeOK
    <2>3. QED BY <1>8, <2>1, <2>2 DEF Mail, TypeOK, RequestsOK, ArgType
  <1>9. ASSUME NEW r \in Requests, NEW u \in Users, NEW c \in mailed, Verify(r, u, c)
        PROVE  TypeOK'
    <2>1. [user |-> u, ref |-> c] \in ArgType
      BY DEF TypeOK, ArgType
    <2>2. RequestsOK'
      BY <1>9, <2>1, BeginTypes DEF Verify
    <2>3. QED BY <1>9, <2>2 DEF Verify, tables, TypeOK, RequestsOK, ArgType
  <1>10. ASSUME NEW r \in Requests, VerifyFind(r) PROVE TypeOK'
    <2>1. CASE Goto(r, "use") /\ UNCHANGED <<arg, background>>
      BY <1>10, <2>1, GotoTypes DEF VerifyFind, tables, TypeOK
    <2>2. CASE Finish({r})
      <3>1. RequestsOK'
        BY <2>2, FinishTypes
      <3>2. QED BY <1>10, <3>1 DEF VerifyFind, tables, TypeOK, RequestsOK, ArgType
    <2>3. QED BY <1>10, <2>1, <2>2 DEF VerifyFind
  <1>11. ASSUME NEW r \in Requests, VerifyUse(r) PROVE TypeOK'
    <2>1. used' \subseteq DOMAIN codes
      BY <1>11 DEF VerifyUse, RefInv, Refers, TypeOK
    <2>2. QED BY <1>11, <2>1, GotoTypes DEF VerifyUse, TypeOK
  <1>12. ASSUME NEW r \in Requests, VerifySave(r) PROVE TypeOK'
    <2>1. RequestsOK'
      BY <1>12, FinishTypes DEF VerifySave
    <2>2. verified' \subseteq {u \in Users : account[u] # 0}
      BY <1>12 DEF VerifySave, RefInv, Refers, TypeOK
    <2>3. QED BY <1>12, <2>1, <2>2 DEF VerifySave, TypeOK, RequestsOK, ArgType
  <1>13. CASE Tick
    BY <1>13, ConstantsAssumption DEF Tick, tables, TypeOK
  <1>14. ASSUME NEW S \in SUBSET {r \in Requests : pc[r] \in InFlight}, Fail(S) PROVE TypeOK'
    <2>1. RequestsOK'
      BY <1>14, FinishTypes DEF Fail
    <2>2. interrupted' \subseteq Users /\ faults' \in 0..MaxFaults
      BY <1>14, ConstantsAssumption DEF Fail, TypeOK
    <2>3. QED BY <1>14, <2>1, <2>2 DEF Fail, tables, TypeOK, RequestsOK, ArgType
  <1>15. CASE UNCHANGED vars
    BY <1>15 DEF vars, TypeOK
  <1>16. QED
    BY <1>1, <1>2, <1>3, <1>4, <1>5, <1>6, <1>7, <1>8, <1>9, <1>10, <1>11, <1>12, <1>13,
       <1>14, <1>15 DEF Next, Step

-------------------------------------------------------------------------------
\* No table loses anything, whatever the step.
Grows ==
    /\ now <= now'
    /\ companies <= companies'
    /\ \A u \in Users : account[u] # 0 => account'[u] # 0
    /\ DOMAIN codes \subseteq DOMAIN codes'
    /\ \A c \in DOMAIN codes : codes'[c] = codes[c]
    /\ used \subseteq used'
    /\ mailed \subseteq mailed'

LEMMA TablesGrow ==
    ASSUME TypeOK, RefInv, [Next]_vars
    PROVE  Grows
  <1> USE DEF Grows
  <1>0. now \in Nat /\ companies \in Nat /\ now <= now /\ companies <= companies
    BY ConstantsAssumption DEF TypeOK
  <1>1. ASSUME NEW r \in Requests, NEW u \in Users, RegisterFind(r, u) PROVE Grows
    BY <1>0, <1>1 DEF RegisterFind, tables
  <1>2. ASSUME NEW r \in Requests, RegisterCompany(r) PROVE Grows
    BY <1>0, <1>2 DEF RegisterCompany
  <1>3. ASSUME NEW r \in Requests, RegisterUser(r) PROVE Grows
    <2>1. arg[r].ref # 0
      BY <1>0, <1>3 DEF RegisterUser, RefInv, Refers
    <2>2. \A u \in Users : account[u] # 0 => account'[u] # 0
      BY <1>3, <2>1 DEF RegisterUser, TypeOK
    <2>3. QED BY <1>0, <1>3, <2>2 DEF RegisterUser
  <1>4. ASSUME NEW r \in Requests, NEW u \in Users, Resend(r, u) PROVE Grows
    BY <1>0, <1>4 DEF Resend, tables
  <1>5. ASSUME NEW r \in Requests, CreateCodeLast(r) PROVE Grows
    BY <1>0, <1>5 DEF CreateCodeLast, tables
  <1>6. ASSUME NEW r \in Requests, CreateCodeDeactivate(r) PROVE Grows
    BY <1>0, <1>6 DEF CreateCodeDeactivate
  <1>7. ASSUME NEW r \in Requests, CreateCodeInsert(r) PROVE Grows
    <2>1. /\ DOMAIN codes \subseteq DOMAIN codes'
          /\ \A c \in DOMAIN codes : codes'[c] = codes[c]
      BY <1>7, InsertedCode
    <2>2. QED BY <1>0, <1>7, <2>1 DEF CreateCodeInsert
  <1>8. ASSUME NEW r \in Requests, Mail(r) PROVE Grows
    BY <1>0, <1>8 DEF Mail
  <1>9. ASSUME NEW r \in Requests, NEW u \in Users, NEW c \in mailed, Verify(r, u, c)
        PROVE  Grows
    BY <1>0, <1>9 DEF Verify, tables
  <1>10. ASSUME NEW r \in Requests, VerifyFind(r) PROVE Grows
    BY <1>0, <1>10 DEF VerifyFind, tables
  <1>11. ASSUME NEW r \in Requests, VerifyUse(r) PROVE Grows
    BY <1>0, <1>11 DEF VerifyUse
  <1>12. ASSUME NEW r \in Requests, VerifySave(r) PROVE Grows
    BY <1>0, <1>12 DEF VerifySave
  <1>13. CASE Tick
    BY <1>0, <1>13 DEF Tick, tables
  <1>14. ASSUME NEW S \in SUBSET {r \in Requests : pc[r] \in InFlight}, Fail(S) PROVE Grows
    BY <1>0, <1>14 DEF Fail, tables
  <1>15. CASE UNCHANGED vars
    BY <1>0, <1>15 DEF vars
  <1>16. QED
    BY <1>1, <1>2, <1>3, <1>4, <1>5, <1>6, <1>7, <1>8, <1>9, <1>10, <1>11, <1>12, <1>13,
       <1>14, <1>15 DEF Next, Step

-------------------------------------------------------------------------------
\* What requests refer to survives a step that leaves them alone.
Kept(r) == pc'[r] = pc[r] /\ arg'[r] = arg[r]
Unreferring(r) == pc'[r] \in {"idle", "company"} \cup InCreateCode

LEMMA RefersKept ==
    ASSUME TypeOK, TypeOK', RefInv, Grows, NEW r \in Requests, Kept(r) \/ Unreferring(r)
    PROVE  Refers(r)'
  <1>1. CASE Unreferring(r)
    BY <1>1 DEF Unreferring, InCreateCode, Refers
  <1>2. CASE Kept(r)
    <2>1. Refers(r) /\ arg[r].user \in Users
      BY DEF RefInv, TypeOK
    <2>2. 1..companies \subseteq 1..companies'
      <3>1. companies \in Nat /\ companies' \in Nat /\ companies <= companies'
        BY DEF Grows, TypeOK
      <3>2. QED BY <3>1
    <2>4. pc'[r] = pc[r] /\ arg'[r] = arg[r]
      BY <1>2 DEF Kept
    <2>5. /\ arg[r].ref \in mailed => arg[r].ref \in mailed'
          /\ arg[r].ref \in used => arg[r].ref \in used'
          /\ arg[r].ref \in DOMAIN codes => arg[r].ref \in DOMAIN codes'
          /\ account[arg[r].user] # 0 => account'[arg[r].user] # 0
      BY <2>1 DEF Grows
    <2>6. arg[r].ref \in CodesOf(arg[r].user) => (arg[r].ref \in CodesOf(arg[r].user))'
      BY <2>4 DEF Grows, CodesOf
    <2>7. QED BY <2>1, <2>2, <2>4, <2>5, <2>6 DEF Refers
  <1>3. QED BY <1>1, <1>2

\* Ending requests, or one request's step, leaves the other requests alone.
LEMMA OthersAlone ==
    ASSUME TypeOK, NEW r \in Requests, NEW q \in Requests
    PROVE  /\ q # r => \A label : Goto(r, label) => pc'[q] = pc[q]
           /\ q # r => \A label, a : Begin(r, label, a) => Kept(q)
           /\ \A S : Finish(S) => Kept(q) \/ pc'[q] = "idle"
           /\ \A label : Goto(r, label) \/ (\E a : Begin(r, label, a)) => pc'[r] = label
  BY DEF TypeOK, Goto, Begin, Finish, Kept

LEMMA RefStep ==
    ASSUME TypeOK, TypeOK', RefInv, Grows, [Next]_vars
    PROVE  RefInv'
  <1>0. ASSUME NEW r \in Requests, Refers(r)',
               \A q \in Requests \ {r} : Kept(q) \/ Unreferring(q)
        PROVE  RefInv'
    BY <1>0, RefersKept DEF RefInv
  <1>1. ASSUME NEW r \in Requests, NEW u \in Users, RegisterFind(r, u) PROVE RefInv'
    <2>1. \A q \in Requests \ {r} : Kept(q)
      BY <1>1, OthersAlone DEF RegisterFind
    <2>2. Unreferring(r)
      BY <1>1, OthersAlone DEF RegisterFind, Unreferring
    <2>3. QED BY <2>1, <2>2, RefersKept DEF RefInv
  <1>2. ASSUME NEW r \in Requests, RegisterCompany(r) PROVE RefInv'
    <2>1. \A q \in Requests \ {r} : Kept(q)
      BY <1>2, OthersAlone DEF RegisterCompany, Kept, TypeOK
    <2>2. pc'[r] = "user" /\ arg'[r].ref = companies' /\ companies' \in 1..companies'
      BY <1>2, OthersAlone DEF RegisterCompany, TypeOK
    <2>3. Refers(r)'
      BY <2>2 DEF Refers
    <2>4. QED BY <1>0, <2>1, <2>3
  <1>3. ASSUME NEW r \in Requests, RegisterUser(r) PROVE RefInv'
    <2>1. \A q \in Requests \ {r} : Kept(q) \/ Unreferring(q)
      BY <1>3, OthersAlone DEF RegisterUser, Kept, Unreferring
    <2>2. Unreferring(r)
      BY <1>3, OthersAlone DEF RegisterUser, Finish, Unreferring, InCreateCode
    <2>3. QED BY <2>1, <2>2, RefersKept DEF RefInv
  <1>4. ASSUME NEW r \in Requests, NEW u \in Users, Resend(r, u) PROVE RefInv'
    <2>1. \A q \in Requests \ {r} : Kept(q)
      BY <1>4, OthersAlone DEF Resend
    <2>2. Unreferring(r)
      BY <1>4, OthersAlone DEF Resend, Unreferring, InCreateCode
    <2>3. QED BY <2>1, <2>2, RefersKept DEF RefInv
  <1>5. ASSUME NEW r \in Requests, CreateCodeLast(r) PROVE RefInv'
    <2>1. (Goto(r, "deactivate") /\ UNCHANGED arg) \/ \E S : Finish(S)
      BY <1>5, Zenon DEF CreateCodeLast
    <2>2. ASSUME NEW q \in Requests PROVE Kept(q) \/ Unreferring(q)
      BY <2>1, OthersAlone DEF Kept, Unreferring, InCreateCode
    <2>3. QED BY <2>2, RefersKept DEF RefInv
  <1>6. ASSUME NEW r \in Requests, CreateCodeDeactivate(r) PROVE RefInv'
    <2>1. ASSUME NEW q \in Requests PROVE Kept(q) \/ Unreferring(q)
      BY <1>6, OthersAlone DEF CreateCodeDeactivate, Kept, Unreferring, InCreateCode
    <2>2. QED BY <2>1, RefersKept DEF RefInv
  <1>7. ASSUME NEW r \in Requests, CreateCodeInsert(r) PROVE RefInv'
    <2>1. \A q \in Requests \ {r} : Kept(q)
      BY <1>7, OthersAlone DEF CreateCodeInsert, Kept, TypeOK
    <2>2. pc'[r] = "mail" /\ arg'[r].ref = Len(codes) + 1
      BY <1>7, OthersAlone DEF CreateCodeInsert, TypeOK
    <2>3. Len(codes) + 1 \in DOMAIN codes'
      BY <1>7, InsertedCode
    <2>4. Refers(r)'
      BY <2>2, <2>3 DEF Refers
    <2>5. QED BY <1>0, <2>1, <2>4
  <1>8. ASSUME NEW S, Finish(S) PROVE RefInv'
    <2>1. ASSUME NEW q \in Requests PROVE Kept(q) \/ Unreferring(q)
      BY <1>8, OthersAlone DEF Unreferring
    <2>2. QED BY <2>1, RefersKept DEF RefInv
  <1>9. ASSUME NEW r \in Requests, NEW u \in Users, NEW c \in mailed, Verify(r, u, c)
        PROVE  RefInv'
    <2>1. \A q \in Requests \ {r} : Kept(q)
      BY <1>9, OthersAlone DEF Verify
    <2>2. /\ pc'[r] = "find" /\ arg'[r] = [user |-> u, ref |-> c]
          /\ mailed' = mailed /\ account' = account /\ account[u] # 0
      BY <1>9 DEF Verify, Begin, TypeOK, tables
    <2>3. Refers(r)'
      BY <2>2 DEF Refers
    <2>4. QED BY <1>0, <2>1, <2>3
  <1>10. ASSUME NEW r \in Requests, VerifyFind(r), ~Finish({r}) PROVE RefInv'
    <2>1. \A q \in Requests \ {r} : Kept(q)
      BY <1>10, OthersAlone DEF VerifyFind, Kept
    <2>2. /\ pc[r] = "find" /\ pc'[r] = "use" /\ arg' = arg /\ UNCHANGED tables
          /\ arg[r].ref \in CodesOf(arg[r].user)
      BY <1>10, OthersAlone DEF VerifyFind
    <2>3. (arg[r].ref \in CodesOf(arg[r].user))'
      BY <2>2 DEF CodesOf, tables
    <2>4. Refers(r)
      BY DEF RefInv
    <2>5. Refers(r)'
      BY <2>2, <2>3, <2>4 DEF Refers, tables
    <2>6. QED BY <1>0, <2>1, <2>5
  <1>11. ASSUME NEW r \in Requests, VerifyUse(r) PROVE RefInv'
    <2>1. \A q \in Requests \ {r} : Kept(q)
      BY <1>11, OthersAlone DEF VerifyUse, Kept
    <2>2. /\ pc[r] = "use" /\ pc'[r] = "verify" /\ arg' = arg
          /\ account' = account /\ codes' = codes /\ mailed' = mailed
          /\ used' = used \cup {arg[r].ref}
      BY <1>11, OthersAlone DEF VerifyUse
    <2>3. Refers(r)
      BY DEF RefInv
    <2>4. (arg[r].ref \in CodesOf(arg[r].user))'
      BY <2>2, <2>3 DEF CodesOf, Refers
    <2>5. Refers(r)'
      BY <2>2, <2>3, <2>4 DEF Refers
    <2>6. QED BY <1>0, <2>1, <2>5
  <1>12. CASE Tick \/ UNCHANGED vars
    <2>1. \A q \in Requests : Kept(q)
      BY <1>12 DEF Tick, vars, Kept
    <2>2. QED BY <2>1, RefersKept DEF RefInv
  <1>13. QED
    BY <1>1, <1>2, <1>3, <1>4, <1>5, <1>6, <1>7, <1>8, <1>9, <1>10, <1>11, <1>12
       DEF Next, Step, Mail, VerifySave, Fail

\* Only verifyEmail's last statement verifies a user, with a code it has spent.
LEMMA VerifiedStep ==
    ASSUME TypeOK, RefInv, VerifiedByOwnCode, Grows, [Next]_vars
    PROVE  VerifiedByOwnCode'
  <1>1. ASSUME NEW u \in Users, CodesOf(u) \cap mailed \cap used # {}
        PROVE  (CodesOf(u) \cap mailed \cap used # {})'
    BY <1>1 DEF CodesOf, Grows
  <1>2. CASE verified' = verified
    <2>1. \A u \in verified : u \in Users
      BY DEF TypeOK
    <2>2. ASSUME NEW u \in verified PROVE (CodesOf(u) \cap mailed \cap used # {})'
      BY <1>1, <2>1 DEF VerifiedByOwnCode
    <2>3. QED BY <1>2, <2>2 DEF VerifiedByOwnCode
  <1>3. ASSUME NEW r \in Requests, VerifySave(r) PROVE VerifiedByOwnCode'
    <2>1. /\ verified' = verified \cup {arg[r].user}
          /\ codes' = codes /\ mailed' = mailed /\ used' = used
          /\ Refers(r) /\ pc[r] = "verify"
      BY <1>3 DEF VerifySave, RefInv
    <2>2. CodesOf(arg[r].user) \cap mailed \cap used # {}
      BY <2>1 DEF Refers
    <2>3. ASSUME NEW u \in verified' PROVE CodesOf(u) \cap mailed \cap used # {}
      BY <2>1, <2>2 DEF VerifiedByOwnCode
    <2>4. QED BY <2>1, <2>3 DEF VerifiedByOwnCode, CodesOf
  <1>4. verified' = verified \/ \E r \in Requests : VerifySave(r)
    BY DEF Next, Step, RegisterFind, RegisterCompany, RegisterUser, Resend, CreateCodeLast,
       CreateCodeDeactivate, CreateCodeInsert, Mail, Verify, VerifyFind, VerifyUse, Tick,
       Fail, tables, vars
  <1>5. QED BY <1>2, <1>3, <1>4

-------------------------------------------------------------------------------
\* The codes of a user stay spent and cooled down through every step.

\* A step that puts no request into or through createCode and adds no code.
Quiet == \A q \in Requests : pc'[q] \in InCreateCode => Kept(q)

LEMMA QuietStep ==
    ASSUME TypeOK, TypeOK', CreateInv, Grows, Quiet, codes' = codes,
           overlapped \subseteq overlapped'
    PROVE  CreateInv'
  <1> SUFFICES ASSUME NEW u \in Users \ overlapped' PROVE (Single(u) /\ Spent(u) /\ Cooled(u))'
    BY DEF CreateInv
  <1>1. Single(u) /\ Spent(u) /\ Cooled(u)
    BY DEF CreateInv
  <1>2. CodesOf(u)' = CodesOf(u)
    BY DEF CodesOf
  <1>3. Busy(u)' \subseteq Busy(u) /\ \A r \in Busy(u)' : pc'[r] = pc[r]
    BY DEF Busy, Quiet, Kept
  <1>4. Single(u)'
    BY <1>1, <1>3 DEF Single
  <1>5. Spent(u)'
    BY <1>1, <1>2, <1>3 DEF Spent, Grows
  <1>6. Cooled(u)'
    <2>1. \A c \in CodesOf(u) : codes[c].created \in Nat
      BY CodesTyped
    <2>2. now \in Nat /\ now' \in Nat /\ now <= now'
      BY DEF TypeOK, Grows
    <2>3. ASSUME NEW c \in CodesOf(u), codes[c].created + Cooldown <= now
          PROVE  codes[c].created + Cooldown <= now'
      BY <2>1, <2>2, <2>3, ConstantsAssumption
    <2>4. QED BY <1>1, <1>2, <1>3, <2>3 DEF Cooled
  <1>7. QED BY <1>4, <1>5, <1>6

\* Request r enters createCode for user u.
LEMMA EnterStep ==
    ASSUME TypeOK, CreateInv, NEW r \in Requests, NEW u \in Users,
           NoteOverlap(u), pc[r] \notin InCreateCode, pc'[r] = "last", arg'[r].user = u,
           \A q \in Requests \ {r} : Kept(q),
           now' = now, codes' = codes, used' = used
    PROVE  CreateInv'
  <1> SUFFICES ASSUME NEW v \in Users \ overlapped' PROVE (Single(v) /\ Spent(v) /\ Cooled(v))'
    BY DEF CreateInv
  <1>1. v \notin overlapped /\ (v = u => Busy(u) = {})
    BY DEF NoteOverlap
  <1>2. Single(v) /\ Spent(v) /\ Cooled(v)
    BY <1>1 DEF CreateInv
  <1>3. CodesOf(v)' = CodesOf(v)
    BY DEF CodesOf
  <1>4. Busy(v)' = IF v = u THEN {r} ELSE Busy(v)
    BY <1>1 DEF Busy, Kept, InCreateCode
  <1>5. \A q \in Busy(v)' : (pc'[q] = pc[q] /\ q \in Busy(v)) \/ pc'[q] = "last"
    BY <1>4 DEF Busy, Kept
  <1>6. Single(v)'
    BY <1>2, <1>4 DEF Single
  <1>7. Spent(v)'
    BY <1>2, <1>3, <1>5 DEF Spent
  <1>8. Cooled(v)'
    BY <1>2, <1>3, <1>5 DEF Cooled
  <1>9. QED BY <1>6, <1>7, <1>8

\* Request r moves on inside createCode, at which its user's codes stay the same.
LEMMA AdvanceStep ==
    ASSUME TypeOK, CreateInv, NEW r \in Requests, NEW label \in {"deactivate", "insert"},
           pc[r] \in InCreateCode, pc'[r] = label,
           \A q \in Requests \ {r} : Kept(q), arg' = arg,
           now' = now, codes' = codes, used \subseteq used', overlapped' = overlapped,
           label = "insert" => CodesOf(arg[r].user) \subseteq used',
           Cooled(arg[r].user) => \A c \in CodesOf(arg[r].user) : codes[c].created + Cooldown <= now
    PROVE  CreateInv'
  <1> SUFFICES ASSUME NEW u \in Users \ overlapped' PROVE (Single(u) /\ Spent(u) /\ Cooled(u))'
    BY DEF CreateInv
  <1>1. Single(u) /\ Spent(u) /\ Cooled(u)
    BY DEF CreateInv
  <1>2. CodesOf(u)' = CodesOf(u)
    BY DEF CodesOf
  <1>3. Busy(u)' = Busy(u)
    BY DEF Busy, Kept, InCreateCode
  <1>4. \A q \in Busy(u) : IF q = r THEN pc'[q] = label /\ u = arg[r].user ELSE pc'[q] = pc[q]
    BY DEF Busy, Kept
  <1>5. Single(u)'
    BY <1>1, <1>3 DEF Single
  <1>6. Spent(u)'
    BY <1>1, <1>2, <1>3, <1>4 DEF Spent
  <1>7. Cooled(u)'
    BY <1>1, <1>2, <1>3, <1>4 DEF Cooled
  <1>8. QED BY <1>5, <1>6, <1>7

\* When the newest code of a user has cooled down, each of them has.
LEMMA NewestCooled ==
    ASSUME TypeOK, NEW u \in Users, Cooled(u),
           ~\E c \in CodesOf(u) : (\A d \in CodesOf(u) : d <= c) /\ TooSoon(c)
    PROVE  \A c \in CodesOf(u) : codes[c].created + Cooldown <= now
  <1>1. CASE CodesOf(u) = {}
    BY <1>1
  <1>2. CASE CodesOf(u) # {}
    <2>1. Len(codes) \in Nat /\ CodesOf(u) \subseteq 1..Len(codes)
      BY CodesTyped
    <2>2. PICK c \in CodesOf(u) : \A d \in CodesOf(u) : d <= c
      BY <1>2, <2>1, LastPosition
    <2>3. now \in Nat /\ \A d \in CodesOf(u) : codes[d].created \in Nat /\ d \in Nat
      BY CodesTyped DEF TypeOK
    <2>4. ~(now - codes[c].created < Cooldown)
      BY <2>2 DEF TooSoon
    <2>5. codes[c].created + Cooldown <= now
      BY <2>3, <2>4, ConstantsAssumption
    <2>6. ASSUME NEW d \in CodesOf(u) PROVE codes[d].created + Cooldown <= now
      <3>1. d = c \/ d < c
        BY <2>2, <2>3
      <3>2. d < c => codes[d].created + Cooldown <= codes[c].created
        BY DEF Cooled
      <3>3. QED BY <2>3, <2>5, <3>1, <3>2, ConstantsAssumption
    <2>7. QED BY <2>6
  <1>3. QED BY <1>1, <1>2

\* The insert itself: the codes before it are spent and cooled down, and the
\* request that makes it was alone inside createCode.
LEMMA InsertStep ==
    ASSUME TypeOK, CreateInv, NEW r \in Requests, CreateCodeInsert(r)
    PROVE  CreateInv'
  <1> DEFINE n == Len(codes) + 1
  <1>0. arg[r].user \in Users /\ pc[r] = "insert" /\ r \in Busy(arg[r].user)
    BY DEF TypeOK, CreateCodeInsert, Busy, InCreateCode
  <1> SUFFICES ASSUME NEW u \in Users \ overlapped' PROVE (Single(u) /\ Spent(u) /\ Cooled(u))'
    BY DEF CreateInv
  <1>1. Single(u) /\ Spent(u) /\ Cooled(u)
    BY DEF CreateInv, CreateCodeInsert
  <1>2. used' = used /\ now' = now
    BY DEF CreateCodeInsert
  <1>3. Busy(u)' = Busy(u) \ {r} /\ \A q \in Busy(u)' : pc'[q] = pc[q]
    <2>1. \A q \in Requests \ {r} : Kept(q)
      BY OthersAlone DEF CreateCodeInsert, Kept, TypeOK
    <2>2. pc'[r] = "mail"
      BY OthersAlone DEF CreateCodeInsert
    <2>3. QED BY <2>1, <2>2 DEF Busy, Kept, InCreateCode
  <1>4. Single(u)'
    BY <1>1, <1>3 DEF Single
  <1>5. \A c \in CodesOf(u) : codes'[c] = codes[c] /\ c < n /\ c \in Nat /\ ~(n < c)
    BY InsertedCode DEF CodesOf
  <1>6. CASE u # arg[r].user
    <2>1. CodesOf(u)' = CodesOf(u)
      BY <1>6, InsertedCode
    <2>2. Spent(u)'
      BY <1>1, <1>2, <1>3, <2>1 DEF Spent
    <2>3. Cooled(u)'
      BY <1>1, <1>2, <1>3, <1>5, <2>1 DEF Cooled
    <2>4. QED BY <1>4, <2>2, <2>3
  <1>7. CASE u = arg[r].user
    <2>1. CodesOf(u)' = CodesOf(u) \cup {n} /\ codes'[n].created = now
      BY <1>7, InsertedCode
    <2>2. Busy(u)' = {}
      BY <1>0, <1>1, <1>3, <1>7 DEF Single
    <2>3. CodesOf(u) \subseteq used /\ \A c \in CodesOf(u) : codes[c].created + Cooldown <= now
      BY <1>0, <1>1, <1>7 DEF Spent, Cooled
    <2>4. n \in Nat /\ ~(n < n)
      BY InsertedCode
    <2>5. Spent(u)'
      BY <1>1, <1>2, <1>5, <2>1, <2>2, <2>3, <2>4 DEF Spent
    <2>6. Cooled(u)'
      BY <1>1, <1>2, <1>5, <2>1, <2>2, <2>3, <2>4 DEF Cooled
    <2>7. QED BY <1>4, <2>5, <2>6
  <1>8. QED BY <1>6, <1>7

LEMMA CreateStep ==
    ASSUME TypeOK, TypeOK', RefInv, CreateInv, Grows, [Next]_vars
    PROVE  CreateInv'
  <1>1. ASSUME NEW S, Finish(S), codes' = codes, overlapped' = overlapped PROVE CreateInv'
    <2>1. Quiet
      BY <1>1, OthersAlone DEF Quiet, InCreateCode
    <2>2. QED BY <1>1, <2>1, QuietStep
  <1>2. ASSUME NEW r \in Requests, NEW label \in {"company", "user", "find", "use", "verify"},
               Goto(r, label) \/ (\E a : Begin(r, label, a)),
               \A q \in Requests \ {r} : Kept(q), codes' = codes, overlapped' = overlapped
        PROVE  CreateInv'
    <2>1. pc'[r] = label
      BY <1>2, OthersAlone
    <2>2. Quiet
      BY <1>2, <2>1 DEF Quiet, InCreateCode
    <2>3. QED BY <1>2, <2>2, QuietStep
  <1>3. ASSUME NEW r \in Requests, RegisterUser(r), account[arg[r].user] = 0 PROVE CreateInv'
    <2>1. /\ NoteOverlap(arg[r].user) /\ pc[r] \notin InCreateCode /\ pc'[r] = "last"
          /\ arg' = arg /\ \A q \in Requests \ {r} : pc'[q] = pc[q]
          /\ now' = now /\ codes' = codes /\ used' = used
      BY <1>3, OthersAlone DEF RegisterUser, InCreateCode
    <2>2. arg[r].user \in Users
      BY DEF TypeOK
    <2>3. QED BY <2>1, <2>2, EnterStep DEF Kept
  <1>4. ASSUME NEW r \in Requests, NEW u \in Users, Resend(r, u) PROVE CreateInv'
    <2>1. /\ NoteOverlap(u) /\ pc[r] \notin InCreateCode /\ pc'[r] = "last"
          /\ now' = now /\ codes' = codes /\ used' = used
      BY <1>4, OthersAlone DEF Resend, Begin, InCreateCode, tables
    <2>2. \A q \in Requests \ {r} : Kept(q)
      BY <1>4, OthersAlone DEF Resend
    <2>3. arg'[r].user = u
      BY <1>4 DEF Resend, Begin, TypeOK, NoArg
    <2>4. QED BY <2>1, <2>2, <2>3, EnterStep
  <1>5. ASSUME NEW r \in Requests, CreateCodeLast(r) PROVE CreateInv'
    <2>1. CASE \E S : Finish(S)
      BY <1>1, <1>5, <2>1 DEF CreateCodeLast, tables
    <2>2. CASE ~\E S : Finish(S)
      <3>1. /\ pc[r] = "last" /\ Goto(r, "deactivate") /\ arg' = arg
            /\ ~\E c \in CodesOf(arg[r].user) :
                  (\A d \in CodesOf(arg[r].user) : d <= c) /\ TooSoon(c)
            /\ now' = now /\ codes' = codes /\ used' = used /\ overlapped' = overlapped
        BY <1>5, <2>2, Zenon DEF CreateCodeLast, tables
      <3>2. pc'[r] = "deactivate" /\ \A q \in Requests \ {r} : Kept(q)
        BY <3>1, OthersAlone DEF Kept
      <3>3. arg[r].user \in Users
        BY DEF TypeOK
      <3>4. Cooled(arg[r].user) =>
               \A c \in CodesOf(arg[r].user) : codes[c].created + Cooldown <= now
        BY <3>1, <3>3, NewestCooled
      <3>5. QED BY <3>1, <3>2, <3>4, AdvanceStep DEF InCreateCode
    <2>3. QED BY <2>1, <2>2
  <1>6. ASSUME NEW r \in Requests, CreateCodeDeactivate(r) PROVE CreateInv'
    <2>1. /\ pc[r] = "deactivate" /\ arg' = arg /\ now' = now /\ codes' = codes
          /\ used' = used \cup CodesOf(arg[r].user) /\ overlapped' = overlapped
      BY <1>6 DEF CreateCodeDeactivate
    <2>2. pc'[r] = "insert" /\ \A q \in Requests \ {r} : Kept(q)
      BY <1>6, <2>1, OthersAlone DEF CreateCodeDeactivate, Kept
    <2>3. Cooled(arg[r].user) =>
             \A c \in CodesOf(arg[r].user) : codes[c].created + Cooldown <= now
      <3>1. r \in Busy(arg[r].user)
        BY <2>1 DEF Busy, InCreateCode
      <3>2. QED BY <2>1, <3>1 DEF Cooled
    <2>4. QED BY <2>1, <2>2, <2>3, AdvanceStep DEF InCreateCode
  <1>7. ASSUME NEW r \in Requests, CreateCodeInsert(r) PROVE CreateInv'
    BY <1>7, InsertStep
  <1>8. ASSUME NEW r \in Requests, NEW u \in Users, RegisterFind(r, u) PROVE CreateInv'
    BY <1>2, <1>8, OthersAlone DEF RegisterFind, tables
  <1>9. ASSUME NEW r \in Requests, RegisterCompany(r) PROVE CreateInv'
    <2>1. \A q \in Requests \ {r} : Kept(q)
      BY <1>9, OthersAlone DEF RegisterCompany, Kept, TypeOK
    <2>2. QED BY <1>2, <1>9, <2>1 DEF RegisterCompany
  <1>10. ASSUME NEW r \in Requests, NEW u \in Users, NEW c \in mailed, Verify(r, u, c)
         PROVE  CreateInv'
    BY <1>2, <1>10, OthersAlone DEF Verify, tables
  <1>11. ASSUME NEW r \in Requests, VerifyFind(r), ~Finish({r}) PROVE CreateInv'
    <2>1. Goto(r, "use") /\ arg' = arg /\ codes' = codes /\ overlapped' = overlapped
      BY <1>11 DEF VerifyFind, tables
    <2>2. \A q \in Requests \ {r} : Kept(q)
      BY <2>1, OthersAlone DEF Kept
    <2>3. QED BY <1>2, <2>1, <2>2
  <1>12. ASSUME NEW r \in Requests, VerifyUse(r) PROVE CreateInv'
    <2>1. \A q \in Requests \ {r} : Kept(q)
      BY <1>12, OthersAlone DEF VerifyUse, Kept
    <2>2. QED BY <1>2, <1>12, <2>1 DEF VerifyUse
  <1>13. CASE Tick \/ UNCHANGED vars
    <2>1. Quiet /\ codes' = codes /\ overlapped' = overlapped
      BY <1>13 DEF Tick, vars, tables, Quiet, Kept
    <2>2. QED BY <2>1, QuietStep
  <1>14. ASSUME NEW r \in Requests,
                Mail(r) \/ VerifySave(r) \/ (RegisterUser(r) /\ account[arg[r].user] # 0)
                \/ (VerifyFind(r) /\ Finish({r}))
         PROVE  CreateInv'
    <2>1. Finish({r}) /\ codes' = codes
      BY <1>14 DEF Mail, VerifySave, RegisterUser, VerifyFind, tables
    <2>2. overlapped' = overlapped
      BY <1>14 DEF Mail, VerifySave, RegisterUser, VerifyFind, tables
    <2>3. QED BY <1>1, <2>1, <2>2
  <1>15. ASSUME NEW S, Fail(S) PROVE CreateInv'
    BY <1>1, <1>15 DEF Fail, tables
  <1>16. QED
    BY <1>3, <1>4, <1>5, <1>6, <1>7, <1>8, <1>9, <1>10, <1>11, <1>12, <1>13, <1>14, <1>15
       DEF Next, Step

-------------------------------------------------------------------------------
LEMMA InitIInv == Init => IInv
  <1> SUFFICES ASSUME Init PROVE IInv
    OBVIOUS
  <1>1. TypeOK
    <2>1. /\ now \in 0..MaxTime /\ ops \in 0..MaxOps /\ faults \in 0..MaxFaults
          /\ companies \in Nat /\ account \in [Users -> 0..companies]
      BY ConstantsAssumption DEF Init
    <2>2. codes \in Seq([user : Users, created : 0..MaxTime, expires : Nat])
      BY DEF Init
    <2>3. arg \in [Requests -> [user : Users, ref : Nat]]
      BY NoArgType DEF Init, ArgType
    <2>4. QED BY <2>1, <2>2, <2>3 DEF Init, TypeOK
  <1>2. RefInv
    BY DEF Init, RefInv, Refers
  <1>3. VerifiedByOwnCode
    BY DEF Init, VerifiedByOwnCode
  <1>4. CreateInv
    BY DEF Init, CreateInv, Single, Spent, Cooled, CodesOf, Busy, InCreateCode
  <1>5. QED BY <1>1, <1>2, <1>3, <1>4 DEF IInv

LEMMA StepIInv == IInv /\ [Next]_vars => IInv'
  <1> SUFFICES ASSUME IInv, [Next]_vars PROVE IInv'
    OBVIOUS
  <1>1. TypeOK /\ RefInv /\ VerifiedByOwnCode /\ CreateInv
    BY DEF IInv
  <1>2. TypeOK' /\ Grows
    BY <1>1, TypeStep, TablesGrow
  <1>3. RefInv' /\ VerifiedByOwnCode' /\ CreateInv'
    BY <1>1, <1>2, RefStep, VerifiedStep, CreateStep
  <1>4. QED BY <1>2, <1>3 DEF IInv

LEMMA SpecIInv == Spec => []IInv
  BY InitIInv, StepIInv, PTL DEF Spec

-------------------------------------------------------------------------------
\* Every reachable state of registration and verification is well typed: in
\* particular a user's company exists, and only users that exist are verified.
THEOREM AccountsTypeCorrect == Spec => []TypeOK
  <1>1. IInv => TypeOK
    BY DEF IInv
  <1>2. QED BY <1>1, SpecIInv, PTL

\* createCode's update before its insert: as long as a user's calls of it do not
\* overlap, every code but the newest is used, whatever fails in between.
THEOREM NewestCodeOnly == Spec => []OnlyNewestCodeIsLive
  <1>1. IInv => OnlyNewestCodeIsLive
    BY DEF IInv, CreateInv, Spent, OnlyNewestCodeIsLive
  <1>2. QED BY <1>1, SpecIInv, PTL

\* createCode's check of the newest code: as long as a user's calls of it do not
\* overlap, any two codes of the user, not only neighbours, are Cooldown apart.
THEOREM CooldownKept == Spec => []CodesAreCooledDown
  <1>1. IInv => CodesAreCooledDown
    BY DEF IInv, CreateInv, Cooled, CodesAreCooledDown
  <1>2. QED BY <1>1, SpecIInv, PTL

\* verifyEmail: a verified user has spent a code of its own that was mailed,
\* however its requests interleave with those of others.
THEOREM VerificationEarned == Spec => []VerifiedByOwnCode
  <1>1. IInv => VerifiedByOwnCode
    BY DEF IInv
  <1>2. QED BY <1>1, SpecIInv, PTL
===============================================================================
