----------------------------- MODULE SessionsProofs -----------------------------
(***************************************************************************)
(* What the tokens of Sessions say is about as old as they are, for any    *)
(* number of users, requests and instants.                                 *)
(*                                                                         *)
(* A token says what its user's row held when it was read.  The history    *)
(* "held" keeps, for every profile a user has had, the last instant at     *)
(* which the row had it; the argument is that no step takes that instant   *)
(* back, so that it stays at or after the one at which the row was read,   *)
(* for a request that has yet to sign as for a token that has been signed. *)
(***************************************************************************)
EXTENDS Api, TLAPS

\* The life of a token signed with a secret.
Life(secret) == IF secret = "access" THEN AccessLife ELSE RefreshLife

\* The handlers, the users and the clock have their shape.
Clocks ==
    /\ DOMAIN pc = Requests
    /\ DOMAIN arg = Requests
    /\ DOMAIN users = UserIds
    /\ \A u \in UserIds : \A x \in users[u] : x.profile \in Profiles
    /\ now \in Nat
    /\ held \in [UserIds -> [Profiles -> Nat]]
    /\ \A u \in UserIds : \A p \in Profiles : held[u][p] <= now

\* What was read at an instant is still what the row had then, or later.
Backed(u, p, read) ==
    /\ u \in UserIds /\ p \in Profiles
    /\ read \in Nat /\ read <= now /\ read <= LastHeld(u, p)

Signing ==
    \A r \in Requests : pc[r] = "issue" => Backed(arg[r].row, arg[r].loaded, arg[r].read)

Signed ==
    \A t \in tokens :
        /\ Backed(t.user, t.claims, t.read)
        /\ t.issued \in Nat
        /\ t.expires = t.issued + Life(t.secret)

\* A behaviour whose requests are for another service signs nothing.
IInv ==
    IF part = "sessions" THEN Clocks /\ Signing /\ Signed ELSE tokens = {}

-------------------------------------------------------------------------------
\* What the steps of a request do to the others.

\* A request that moves leaves the others where they are, and takes no time.
Moved(r, label, a) ==
    pc' = [pc EXCEPT ![r] = label] /\ arg' = [arg EXCEPT ![r] = a] /\ UNCHANGED now

LEMMA MovesAlone ==
    ASSUME Clocks, NEW r \in Requests, NEW label, NEW a, Moved(r, label, a)
    PROVE  /\ DOMAIN pc' = Requests /\ DOMAIN arg' = Requests
           /\ \A q \in Requests :
                 \/ q # r /\ pc'[q] = pc[q] /\ arg'[q] = arg[q]
                 \/ q = r /\ pc'[q] = label /\ arg'[q] = a
BY DEF Clocks, Moved

\* The users, the clock and what they had stay: so does what was read.
LEMMA BackedStays ==
    ASSUME UNCHANGED <<users, now, held>>, NEW u, NEW p, NEW read, Backed(u, p, read)
    PROVE  Backed(u, p, read)'
BY DEF Backed, LastHeld, Profiled

\* A step that touches neither tokens nor users, and after which no other request
\* than before is about to sign, keeps the invariant.
LEMMA StillSigned ==
    ASSUME part = "sessions", UNCHANGED <<userTables, sessionTables, part, now>>, IInv,
           DOMAIN pc' = Requests, DOMAIN arg' = Requests,
           \A q \in Requests : pc'[q] = "issue" => pc[q] = "issue" /\ arg'[q] = arg[q]
    PROVE  IInv'
<1>0. UNCHANGED <<users, tokens, now, held>>
  BY DEF userTables, sessionTables
<1>1. Clocks'
  BY <1>0 DEF IInv, Clocks
<1>2. Signing'
  BY <1>0, BackedStays DEF IInv, Signing
<1>3. Signed'
  BY <1>0, BackedStays DEF IInv, Signed
<1>4. QED
  BY <1>1, <1>2, <1>3 DEF IInv

\* What moves a request without beginning a signature.
LEMMA MoveKeeps ==
    ASSUME part = "sessions", UNCHANGED <<userTables, sessionTables, part>>, IInv,
           NEW r \in Requests, NEW label, NEW a, label # "issue", Moved(r, label, a)
    PROVE  IInv'
<1>1. Clocks
  BY DEF IInv
<1>2. UNCHANGED now
  BY DEF Moved
<1>3. QED
  BY <1>1, <1>2, MovesAlone, StillSigned

-------------------------------------------------------------------------------
\* The steps, one by one.

LEMMA InitSigned == Init => IInv
<1>. SUFFICES ASSUME Init PROVE IInv
  OBVIOUS
<1>1. tokens = {} /\ now = 0 /\ held = [u \in UserIds |-> [p \in Profiles |-> 0]]
  BY DEF Init, SessionInit, CacheInit
<1>2. pc = [r \in Requests |-> "idle"] /\ arg = [r \in Requests |-> NoArg]
  BY DEF Init, CacheInit
<1>3. users = [u \in UserIds |-> {[profile |-> CHOOSE p \in Profiles : TRUE,
                                   prefs |-> [k \in PrefKeys |-> Unset]]}]
  BY DEF Init, UserInit
<1>4. (CHOOSE p \in Profiles : TRUE) \in Profiles
  BY UsersAssumption
<1>5. Clocks
  <2>1. \A u \in UserIds : \A x \in users[u] : x.profile \in Profiles
    BY <1>3, <1>4
  <2>2. DOMAIN users = UserIds
    BY <1>3
  <2>3. now \in Nat /\ held \in [UserIds -> [Profiles -> Nat]]
        /\ \A u \in UserIds : \A p \in Profiles : held[u][p] <= now
    BY <1>1
  <2>4. DOMAIN pc = Requests /\ DOMAIN arg = Requests
    BY <1>2
  <2>5. QED
    BY <2>1, <2>2, <2>3, <2>4 DEF Clocks
<1>6. Signing
  BY <1>2 DEF Signing
<1>7. Signed
  BY <1>1 DEF Signed
<1>8. QED
  BY <1>1, <1>5, <1>6, <1>7 DEF IInv

\* Enter, Begin, Goto and Finish move one request, Fail too; Restart moves all.
LEMMA Moves ==
    /\ \A r \in Requests : \A label, a : Enter(r, label, a) => Moved(r, label, a)
    /\ \A r \in Requests : \A label, a : Begin(r, label, a) => Moved(r, label, a)
    /\ \A r \in Requests : \A label, a : Goto(r, label, a) => Moved(r, label, a)
    /\ \A r \in Requests : Finish(r) => Moved(r, "idle", NoArg)
BY DEF Begin, Enter, Goto, Finish, Moved

\* Time passes, and a row that has a profile has it now.
LEMMA ClockKeeps ==
    ASSUME part = "sessions", Tick, UNCHANGED <<userTables, sessionTables, part>>, IInv
    PROVE  IInv'
<1>1. now' = now + 1 /\ UNCHANGED <<pc, arg, users, tokens, held>>
  BY DEF Tick, userTables, sessionTables
<1>2. ASSUME NEW u, NEW p, NEW read, Backed(u, p, read)
      PROVE  Backed(u, p, read)'
  BY <1>1, <1>2 DEF IInv, Clocks, Backed, LastHeld, Profiled
<1>3. Clocks'
  BY <1>1 DEF IInv, Clocks
<1>4. Signing'
  BY <1>1, <1>2 DEF IInv, Signing
<1>5. Signed'
  BY <1>1, <1>2 DEF IInv, Signed
<1>6. QED
  BY <1>1, <1>3, <1>4, <1>5 DEF IInv

LEMMA InterceptorKeeps ==
    ASSUME part = "sessions", Interceptor, UNCHANGED part, IInv
    PROVE  IInv'
<1>1. UNCHANGED <<userTables, sessionTables, part>>
  BY DEF Interceptor, tables
<1>2. CASE Tick
  BY <1>1, <1>2, ClockKeeps
<1>3. ASSUME NEW r \in Requests, Fail(r)
      PROVE  IInv'
  BY <1>1, <1>3, MoveKeeps DEF Fail, Moved
<1>4. ASSUME NEW r \in Requests, NEW k \in Keys, Get(r, k)
      PROVE  IInv'
  BY <1>1, <1>4, Moves, MoveKeeps DEF Get
<1>5. CASE Restart
  <2>1. /\ pc' = [r \in Requests |-> "idle"] /\ arg' = [r \in Requests |-> NoArg]
        /\ UNCHANGED now
    BY <1>5 DEF Restart
  <2>2. QED
    BY <1>1, <2>1, StillSigned
<1>6. QED
  BY <1>2, <1>3, <1>4, <1>5 DEF Interceptor

LEMMA CacheStepKeeps ==
    ASSUME part = "sessions", UNCHANGED part, IInv, NEW r \in Requests, CacheStep(r)
    PROVE  IInv'
<1>1. UNCHANGED <<userTables, sessionTables, part>>
  BY DEF CacheStep, tables
<1>2. ASSUME NEW v, Read(r, v)
      PROVE  IInv'
  <2>1. CASE v = {}
    BY <1>1, <1>2, <2>1, Moves, MoveKeeps DEF Read
  <2>2. CASE v # {}
    BY <1>1, <1>2, <2>2, Moves, MoveKeeps DEF Read
  <2>3. QED
    BY <2>1, <2>2
<1>3. CASE Fill(r)
  BY <1>1, <1>3, MoveKeeps DEF Fill, Moved
<1>4. CASE Evict(r)
  BY <1>1, <1>4, Moves, MoveKeeps DEF Evict
<1>5. QED
  BY <1>2, <1>3, <1>4 DEF CacheStep

-------------------------------------------------------------------------------
\* The routes of the sessions.

\* A request that is about to sign has just read the row.
LEMMA LoadKeeps ==
    ASSUME part = "sessions", UNCHANGED <<userTables, sessionTables, part>>, IInv,
           NEW r \in Requests, NEW u \in UserIds, Load(r, u)
    PROVE  IInv'
<1>1. PICK x \in users[u] : Begin(r, "issue", [NoArg EXCEPT !.row = u, !.loaded = x.profile,
                                                          !.read = now])
  BY DEF Load
<1>. DEFINE a == [NoArg EXCEPT !.row = u, !.loaded = x.profile, !.read = now]
<1>2. a.row = u /\ a.loaded = x.profile /\ a.read = now
  BY DEF NoArg
<1>. HIDE DEF a
<1>3. Moved(r, "issue", a)
  BY <1>1, Moves DEF a
<1>4. /\ DOMAIN pc' = Requests /\ DOMAIN arg' = Requests
      /\ \A q \in Requests :
            \/ q # r /\ pc'[q] = pc[q] /\ arg'[q] = arg[q]
            \/ q = r /\ pc'[q] = "issue" /\ arg'[q] = a
  BY <1>3, MovesAlone DEF IInv
<1>5. UNCHANGED <<users, tokens, now, held>>
  BY <1>3 DEF Moved, userTables, sessionTables
<1>6. Clocks'
  BY <1>4, <1>5 DEF IInv, Clocks
<1>7. Backed(u, x.profile, now)
  BY DEF IInv, Clocks, Backed, LastHeld, Profiled
<1>8. Signing'
  BY <1>2, <1>4, <1>5, <1>7, BackedStays DEF IInv, Signing
<1>9. Signed'
  BY <1>5, BackedStays DEF IInv, Signed
<1>10. QED
  BY <1>6, <1>8, <1>9 DEF IInv

\* The tokens take over what the request has read, and the instant it did.
LEMMA IssueKeeps ==
    ASSUME part = "sessions", UNCHANGED <<userTables, part>>, IInv,
           NEW r \in Requests, Issue(r)
    PROVE  IInv'
<1>1. UNCHANGED <<users, now, held>>
  BY DEF Issue, Finish, Goto, userTables
<1>2. Moved(r, "idle", NoArg)
  BY Moves DEF Issue
<1>3. /\ DOMAIN pc' = Requests /\ DOMAIN arg' = Requests
      /\ \A q \in Requests :
            \/ q # r /\ pc'[q] = pc[q] /\ arg'[q] = arg[q]
            \/ q = r /\ pc'[q] = "idle" /\ arg'[q] = NoArg
  BY <1>2, MovesAlone DEF IInv
<1>4. Clocks'
  BY <1>1, <1>3 DEF IInv, Clocks
<1>5. Signing'
  BY <1>1, <1>3, BackedStays DEF IInv, Signing
<1>6. Backed(arg[r].row, arg[r].loaded, arg[r].read) /\ now \in Nat
  BY DEF Issue, IInv, Signing, Clocks
<1>7. ASSUME NEW t \in tokens', t \notin tokens
      PROVE  /\ t.user = arg[r].row /\ t.claims = arg[r].loaded
             /\ t.read = arg[r].read
             /\ t.issued = now /\ t.expires = now + Life(t.secret)
  BY <1>7 DEF Issue, Token, Life
<1>8. Signed'
  <2>. SUFFICES ASSUME NEW t \in tokens'
                PROVE  /\ Backed(t.user, t.claims, t.read)'
                       /\ t.issued \in Nat
                       /\ t.expires = t.issued + Life(t.secret)
    BY DEF Signed
  <2>1. CASE t \in tokens
    BY <1>1, <2>1, BackedStays DEF IInv, Signed
  <2>2. CASE t \notin tokens
    BY <1>1, <1>6, <1>7, <2>2, BackedStays
  <2>3. QED
    BY <2>1, <2>2
<1>9. QED
  BY <1>4, <1>5, <1>8 DEF IInv

\* A change of a row: the history takes down what it had, so that nothing read
\* becomes older than it was.
LEMMA RowChangeKeeps ==
    ASSUME part = "sessions", UNCHANGED <<tokens, part>>, IInv,
           held' = [u \in UserIds |-> [p \in Profiles |-> LastHeld(u, p)]],
           DOMAIN users' = UserIds,
           \A u \in UserIds : \A x \in users'[u] : x.profile \in Profiles,
           NEW r \in Requests, NEW label, NEW a, label # "issue", Moved(r, label, a)
    PROVE  IInv'
<1>0. UNCHANGED now
  BY DEF Moved
<1>1. /\ DOMAIN pc' = Requests /\ DOMAIN arg' = Requests
      /\ \A q \in Requests :
            \/ q # r /\ pc'[q] = pc[q] /\ arg'[q] = arg[q]
            \/ q = r /\ pc'[q] = label /\ arg'[q] = a
  BY MovesAlone DEF IInv
<1>2. \A u \in UserIds : \A p \in Profiles :
         LastHeld(u, p) \in Nat /\ LastHeld(u, p) <= now /\ held'[u][p] = LastHeld(u, p)
  BY DEF IInv, Clocks, LastHeld
<1>3. ASSUME NEW u, NEW p, NEW read, Backed(u, p, read)
      PROVE  Backed(u, p, read)'
  <2>1. LastHeld(u, p)' = now \/ LastHeld(u, p)' = LastHeld(u, p)
    BY <1>0, <1>2, <1>3 DEF LastHeld, Backed
  <2>2. QED
    BY <1>0, <1>2, <1>3, <2>1 DEF Backed
<1>4. held' \in [UserIds -> [Profiles -> Nat]]
  BY <1>2
<1>5. Clocks'
  BY <1>0, <1>1, <1>2, <1>4 DEF IInv, Clocks
<1>6. Signing'
  BY <1>1, <1>3 DEF IInv, Signing
<1>7. Signed'
  BY <1>3 DEF IInv, Signed
<1>8. QED
  BY <1>5, <1>6, <1>7 DEF IInv

LEMMA RequestKeeps ==
    ASSUME part = "sessions", UNCHANGED part, IInv, NEW r \in Requests, Request(r)
    PROVE  IInv'
<1>1. CASE Issue(r) /\ UNCHANGED userTables
  BY <1>1, IssueKeeps
<1>2. CASE Reread(r, users[arg[r].row] # {}) /\ UNCHANGED <<userTables, sessionTables>>
  <2>1. CASE users[arg[r].row] # {}
    BY <1>2, <2>1, Moves, MoveKeeps DEF Reread
  <2>2. CASE users[arg[r].row] = {}
    BY <1>2, <2>2, Moves, MoveKeeps DEF Reread
  <2>3. QED
    BY <2>1, <2>2
<1>3. ASSUME UNCHANGED <<userTables, sessionTables>>, NEW u \in UserIds, Login(r, u)
      PROVE  IInv'
  BY <1>3, LoadKeeps DEF Login
<1>4. ASSUME UNCHANGED <<userTables, sessionTables>>, NEW t \in tokens, Refresh(r, t)
      PROVE  IInv'
  <2>1. t.user \in UserIds
    BY DEF IInv, Signed, Backed
  <2>2. QED
    BY <1>4, <2>1, LoadKeeps DEF Refresh
<1>5. ASSUME held' = [u \in UserIds |-> [p \in Profiles |-> LastHeld(u, p)]],
             UNCHANGED tokens, NEW u \in UserIds, UserRemove(r, u)
      PROVE  IInv'
  <2>. DEFINE a == [Route({AllUsers, UserKey(u)}) EXCEPT !.row = u]
  <2>1. users' = [users EXCEPT ![u] = {}] /\ Moved(r, "evict", a)
    BY <1>5, Moves DEF UserRemove
  <2>. HIDE DEF a
  <2>2. DOMAIN users' = UserIds /\ \A v \in UserIds : \A x \in users'[v] : x.profile \in Profiles
    BY <2>1 DEF IInv, Clocks
  <2>3. QED
    BY <1>5, <2>1, <2>2, RowChangeKeeps
<1>6. ASSUME held' = [u \in UserIds |-> [p \in Profiles |-> LastHeld(u, p)]],
             UNCHANGED tokens, NEW u \in UserIds, NEW p \in Profiles,
             UserUpdate(r, u, p)
      PROVE  IInv'
  <2>. DEFINE a == [Route({AllUsers, UserKey(u)}) EXCEPT !.row = u]
  <2>1. /\ users' = [users EXCEPT ![u] = {[x EXCEPT !.profile = p] : x \in users[u]}]
        /\ Moved(r, "reread", a)
    BY <1>6, Moves DEF UserUpdate, With
  <2>. HIDE DEF a
  <2>2. ASSUME NEW x \in users'[u]
        PROVE  x.profile \in Profiles
    <3>1. PICK y \in users[u] : x = [y EXCEPT !.profile = p]
      BY <2>1 DEF IInv, Clocks
    <3>2. x.profile = p \/ x.profile = y.profile
      BY <3>1
    <3>3. QED
      BY <3>2 DEF IInv, Clocks
  <2>3. DOMAIN users' = UserIds /\ \A v \in UserIds : \A x \in users'[v] : x.profile \in Profiles
    BY <2>1, <2>2 DEF IInv, Clocks
  <2>4. QED
    BY <1>6, <2>1, <2>3, RowChangeKeeps
<1>7. QED
  BY <1>1, <1>2, <1>3, <1>4, <1>5, <1>6 DEF Request, SessionStep, SessionRequest

\* No token is signed for another service's requests.
LEMMA ElsewhereNoTokens ==
    ASSUME part # "sessions", tokens = {}, [Next]_vars
    PROVE  part' # "sessions" /\ tokens' = {}
<1>1. CASE Interceptor /\ UNCHANGED part
  BY <1>1 DEF Interceptor, tables, sessionTables
<1>2. ASSUME NEW r \in Requests, CacheStep(r), UNCHANGED part
      PROVE  part' # "sessions" /\ tokens' = {}
  BY <1>2 DEF CacheStep, tables, sessionTables
<1>3. ASSUME NEW r \in Requests, Request(r), UNCHANGED part
      PROVE  part' # "sessions" /\ tokens' = {}
  BY <1>3 DEF Request, sessionTables
<1>4. CASE UNCHANGED vars
  BY <1>4 DEF vars, tables, sessionTables
<1>5. QED
  BY <1>1, <1>2, <1>3, <1>4 DEF Next

LEMMA NextSigned ==
    ASSUME IInv, [Next]_vars
    PROVE  IInv'
<1>1. CASE part # "sessions"
  BY <1>1, ElsewhereNoTokens DEF IInv
<1>2. CASE part = "sessions"
  <2>1. CASE Interceptor /\ UNCHANGED part
    BY <1>2, <2>1, InterceptorKeeps
  <2>2. ASSUME NEW r \in Requests, CacheStep(r), UNCHANGED part
        PROVE  IInv'
    BY <1>2, <2>2, CacheStepKeeps
  <2>3. ASSUME NEW r \in Requests, Request(r), UNCHANGED part
        PROVE  IInv'
    BY <1>2, <2>3, RequestKeeps
  <2>4. CASE UNCHANGED vars
    <3>1. UNCHANGED <<userTables, sessionTables, part, pc, arg, now>>
      BY <2>4 DEF vars, tables, requestVars
    <3>2. QED
      BY <1>2, <3>1, StillSigned DEF IInv, Clocks
  <2>5. QED
    BY <2>1, <2>2, <2>3, <2>4 DEF Next
<1>3. QED
  BY <1>1, <1>2

-------------------------------------------------------------------------------
\* Whatever is signed, refreshed, changed or removed, what a token that JwtAuthGuard
\* accepts says of its user was true less than the life of an access token ago, or
\* longer only by the time between the row's read and the signature.
THEOREM TokensTellTheRecentPast == Spec => []ClaimsExpire
<1>1. IInv => ClaimsExpire
  <2>. SUFFICES ASSUME IInv, NEW t \in tokens, Accepted(t)
                PROVE  now - LastHeld(t.user, t.claims) < AccessLife + (t.issued - t.read)
    BY DEF ClaimsExpire
  <2>1. part = "sessions"
    BY DEF IInv
  <2>2. /\ Backed(t.user, t.claims, t.read)
        /\ t.issued \in Nat /\ t.expires = t.issued + AccessLife
        /\ now < t.expires
    BY <2>1 DEF IInv, Signed, Accepted, Verifies, Life
  <2>3. LastHeld(t.user, t.claims) \in Nat /\ now \in Nat /\ AccessLife \in Nat
    BY <2>1, <2>2, SessionsAssumption DEF IInv, Clocks, Backed, LastHeld
  <2>4. QED
    BY <2>2, <2>3 DEF Backed
<1>2. QED
  BY <1>1, InitSigned, NextSigned, PTL DEF Spec
===============================================================================
