--------------------------------- MODULE Users ---------------------------------
(***************************************************************************)
(* UsersService behind its controller's routes: the profile of a user and  *)
(* the preferences in it, one JSON column that is read, changed and        *)
(* written as a whole.                                                     *)
(***************************************************************************)
EXTENDS ResponseCache

CONSTANTS
    UserIds,    \* numbers of users
    Profiles,   \* the profiles a user can have
    PrefKeys, PrefValues

Unset == "unset"

ASSUME UsersAssumption == UserIds \subseteq Nat \ {0} /\ Profiles # {} /\ Unset \notin PrefValues

VARIABLES
    users,      \* the users; {} in place of one that was deleted
    tangled     \* history: users with two requests about their preferences at once

userTables == <<users, tangled>>

Preferences == [PrefKeys -> PrefValues \cup {Unset}]
UserOK ==
    /\ \A u \in UserIds : users[u] \in SUBSET [profile : Profiles, prefs : Preferences]
    /\ \A u \in UserIds : Cardinality(users[u]) <= 1
    /\ tangled \subseteq UserIds

UserInit ==
    /\ users = [u \in UserIds |-> {[profile |-> CHOOSE p \in Profiles : TRUE,
                                    prefs |-> [k \in PrefKeys |-> Unset]]}]
    /\ tangled = {}

-------------------------------------------------------------------------------
\* What reads of the keys show.  "users:me:{{user.id}}" has a placeholder that the
\* interceptor does not know, and is one key for the profiles of all callers.
UserKey(u) == <<"user", u>>
AllUsers == <<"users", 0>>
Me == <<"me", 0>>
UserKeys == {AllUsers, Me} \cup {UserKey(u) : u \in UserIds}
Profile(u) == {<<u, x>> : x \in users[u]}
UserViews(k) ==
    CASE k = AllUsers -> {{{Profile(u) : u \in UserIds} \ {{}}}}
      [] k = Me -> {Profile(u) : u \in UserIds}
      [] OTHER -> {Profile(k[2])}

With(row, field(_)) == {field(x) : x \in row}

\* PATCH: update writes before it looks whether the user is there.
UserUpdate(r, u, p) ==
    /\ Begin(r, "reread", [Route({AllUsers, UserKey(u)}) EXCEPT !.row = u])
    /\ users' = [users EXCEPT ![u] = With(@, LAMBDA x : [x EXCEPT !.profile = p])]
    /\ UNCHANGED tangled

UserRemove(r, u) ==
    /\ users[u] # {}
    /\ Begin(r, "evict", [Route({AllUsers, UserKey(u)}) EXCEPT !.row = u])
    /\ users' = [users EXCEPT ![u] = {}]
    /\ UNCHANGED tangled

\* updatePreference and deletePreference (v is Unset): the routes name no keys.
PrefRead(r, u, k, v) ==
    /\ \E x \in users[u] :
          /\ v = Unset => x.prefs[k] # Unset
          /\ Begin(r, "prefs", [NoArg EXCEPT !.row = u, !.other = k,
                                   !.loaded = [x.prefs EXCEPT ![k] = v]])
    /\ tangled' = IF \E q \in Requests : pc[q] = "prefs" /\ arg[q].row = u
                    THEN tangled \cup {u} ELSE tangled
    /\ UNCHANGED users

\* *(Mutant)* Only the changed key is written.
PrefReplace(r) ==
    LET a == arg[r] IN
    /\ pc[r] = "prefs"
    /\ users' = [users EXCEPT ![a.row] = With(@, LAMBDA x :
                    [x EXCEPT !.prefs = [k \in PrefKeys |-> IF k = a.other THEN a.loaded[k] ELSE Unset]])]
    /\ Finish(r)
    /\ UNCHANGED tangled

PrefWrite(r) ==
    LET a == arg[r] IN
    /\ pc[r] = "prefs"
    /\ users' = [users EXCEPT ![a.row] = With(@, LAMBDA x : [x EXCEPT !.prefs = a.loaded])]
    /\ Finish(r)
    /\ UNCHANGED tangled

UserStep(r) ==
    \/ Reread(r, users[arg[r].row] # {}) /\ UNCHANGED userTables
    \/ PrefWrite(r)

UserRequest(r) ==
    \E u \in UserIds :
        \/ UserRemove(r, u) \/ \E p \in Profiles : UserUpdate(r, u, p)
        \/ \E k \in PrefKeys, v \in PrefValues \cup {Unset} : PrefRead(r, u, k, v)

-------------------------------------------------------------------------------
\* Saving a preference changes no other one, unless two requests of the user
\* overlapped, each with its own copy of all preferences.
PreferencesKept ==
    \A u \in UserIds : \A x \in users[u], y \in users'[u] : \A k \in PrefKeys :
        x.prefs[k] # y.prefs[k] =>
            \/ u \in tangled
            \/ \E r \in Requests : pc[r] = "prefs" /\ pc'[r] = "idle"
                                   /\ arg[r].row = u /\ arg[r].other = k
===============================================================================
