-------------------------------- MODULE Sessions --------------------------------
(***************************************************************************)
(* The sessions of users: AuthService signs tokens that say what the       *)
(* user's row held, and the guard of every route takes their word for it   *)
(* until they expire.  No token is ever stored or taken back.              *)
(*                                                                         *)
(* A user's profile stands for all that goes into the payload.             *)
(***************************************************************************)
EXTENDS Users

CONSTANTS
    AccessLife, RefreshLife     \* how long tokens live

ASSUME SessionsAssumption == {AccessLife, RefreshLife} \subseteq Nat

VARIABLES
    tokens,     \* the tokens handed out
    held        \* history: when a user's row last had a profile before the present one

sessionTables == <<tokens, held>>

Secrets == {"access", "refresh"}

\* read: when the row was read for the token.
SessionOK ==
    /\ tokens \subseteq [user : UserIds, claims : Profiles, secret : Secrets,
                         read : 0..MaxTime, issued : 0..MaxTime, expires : Nat]
    /\ held \in [UserIds -> [Profiles -> 0..MaxTime]]

SessionInit ==
    /\ tokens = {}
    /\ held = [u \in UserIds |-> [p \in Profiles |-> 0]]

-------------------------------------------------------------------------------
Verifies(t, secret) == t.secret = secret /\ now < t.expires

\* JwtAuthGuard.  The payload is the request's user, whose roles RolesGuard reads.
Accepted(t) == Verifies(t, "access")

\* "jwt.refreshSecret" is not configured, and the module's own secret takes its place.
ModuleSecret == "access"

\* The user's row is read for a new pair of tokens.
Load(r, u) ==
    \E x \in users[u] :
        Begin(r, "issue", [NoArg EXCEPT !.row = u, !.loaded = x.profile, !.read = now])

\* The password has been found right; the row's lastLoginAt is written before Issue.
Login(r, u) == Load(r, u)

\* *(Mutant)* The new tokens repeat what the old one says.
RefreshRepeat(r, t) ==
    /\ Verifies(t, ModuleSecret)
    /\ Begin(r, "issue", [NoArg EXCEPT !.row = t.user, !.loaded = t.claims, !.read = now])

Refresh(r, t) == Verifies(t, ModuleSecret) /\ Load(r, t.user)

Token(a, secret, life) ==
    [user |-> a.row, claims |-> a.loaded, secret |-> secret,
     read |-> a.read, issued |-> now, expires |-> now + life]

\* generateTokens, which reads the company of an administrator before it signs.
Issue(r) ==
    /\ pc[r] = "issue"
    /\ tokens' = tokens \cup {Token(arg[r], "access", AccessLife), Token(arg[r], "refresh", RefreshLife)}
    /\ Finish(r)
    /\ UNCHANGED held

Profiled(u, p) == \E x \in users[u] : x.profile = p
LastHeld(u, p) == IF Profiled(u, p) THEN now ELSE held[u][p]

SessionStep(r) ==
    \/ Issue(r) /\ UNCHANGED userTables
    \/ Reread(r, users[arg[r].row] # {}) /\ UNCHANGED <<userTables, sessionTables>>

\* Sessions begin and go on while the users' rows change and go.
SessionRequest(r) ==
    \/ /\ \/ \E u \in UserIds : Login(r, u)
          \/ \E t \in tokens : Refresh(r, t)
       /\ UNCHANGED <<userTables, sessionTables>>
    \/ /\ \E u \in UserIds : UserRemove(r, u) \/ \E p \in Profiles : UserUpdate(r, u, p)
       /\ held' = [u \in UserIds |-> [p \in Profiles |-> LastHeld(u, p)]]
       /\ UNCHANGED tokens

-------------------------------------------------------------------------------
\* What a token that the guard accepts says of its user was true less than one access
\* token's life ago, or longer only by the time the token took from the row's read to
\* its signature: however often a session is refreshed, a removed user or a role taken
\* away does not live on in it.
ClaimsExpire ==
    \A t \in tokens :
        Accepted(t) => now - LastHeld(t.user, t.claims) < AccessLife + (t.issued - t.read)
===============================================================================
