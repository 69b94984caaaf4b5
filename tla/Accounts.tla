-------------------------------- MODULE Accounts --------------------------------
(***************************************************************************)
(* Registration and e-mail verification: AuthService (register,            *)
(* sendVerificationEmail, verifyEmail, resendVerificationEmail) over       *)
(* VerificationCodeService (createCode, verifyCode).                       *)
(*                                                                         *)
(* Every await is a step: findOne, update and save are three statements    *)
(* without a transaction.  A request that the code refuses before its      *)
(* first write leaves no trace and is not a step.  Time counts units of    *)
(* the cooldown's granularity.                                             *)
(***************************************************************************)
EXTENDS Naturals, Sequences, FiniteSets

CONSTANTS
    Users,      \* e-mail addresses; each can have one account
    Requests,   \* request handlers that can be active at once
    Cooldown,   \* createCode refuses a code this soon after the last one
    Lifetime,   \* a code expires this long after it is made
    MaxTime,    \* bound on the clock
    MaxOps,     \* bound on requests in a behaviour
    MaxFaults   \* bound on crashes and failing calls in a behaviour

ASSUME ConstantsAssumption ==
    /\ Users # {}
    /\ Cooldown \in Nat /\ Lifetime \in Nat
    /\ MaxTime \in Nat /\ MaxOps \in Nat /\ MaxFaults \in Nat

VARIABLES
    now,         \* the clock
    companies,   \* number of companies saved; they are numbered from 1
    account,     \* account[u]: the company of u's users row, 0 when there is none
    verified,    \* users whose isVerified is true
    codes,       \* the verification_codes table, in order of createdAt
    used,        \* codes whose isUsed is true
    mailed,      \* codes whose message went out
    pc,          \* pc[r]: the await request r is at
    arg,         \* arg[r]: its user, the company or code it works on
    background,  \* requests whose createCode nobody awaits
    ops,         \* requests so far
    faults,      \* faults so far
    overlapped,  \* history: users for whom two createCode calls have overlapped
    interrupted  \* history: users one of whose requests failed midway

vars == <<now, companies, account, verified, codes, used, mailed, pc, arg, background,
          ops, faults, overlapped, interrupted>>
tables == <<companies, account, verified, codes, used, mailed>>

InCreateCode == {"last", "deactivate", "insert"}
InFlight == {"company", "user", "mail", "find", "use", "verify"} \cup InCreateCode
NoArg == [user |-> CHOOSE u \in Users : TRUE, ref |-> 0]

CodesOf(u) == {c \in DOMAIN codes : codes[c].user = u}
Busy(u) == {r \in Requests : pc[r] \in InCreateCode /\ arg[r].user = u}

TypeOK ==
    /\ now \in 0..MaxTime
    /\ companies \in Nat
    /\ account \in [Users -> 0..companies]
    /\ verified \subseteq {u \in Users : account[u] # 0}
    /\ codes \in Seq([user : Users, created : 0..MaxTime, expires : Nat])
    /\ used \subseteq DOMAIN codes
    /\ mailed \subseteq DOMAIN codes
    /\ pc \in [Requests -> {"idle"} \cup InFlight]
    /\ arg \in [Requests -> [user : Users, ref : Nat]]
    /\ background \subseteq Requests
    /\ ops \in 0..MaxOps
    /\ faults \in 0..MaxFaults
    /\ overlapped \subseteq Users
    /\ interrupted \subseteq Users

Init ==
    /\ now = 0
    /\ companies = 0
    /\ account = [u \in Users |-> 0]
    /\ verified = {}
    /\ codes = <<>>
    /\ used = {}
    /\ mailed = {}
    /\ pc = [r \in Requests |-> "idle"]
    /\ arg = [r \in Requests |-> NoArg]
    /\ background = {}
    /\ ops = 0
    /\ faults = 0
    /\ overlapped = {}
    /\ interrupted = {}

-------------------------------------------------------------------------------
Begin(r, label, a) ==
    /\ pc[r] = "idle"
    /\ ops < MaxOps
    /\ ops' = ops + 1
    /\ pc' = [pc EXCEPT ![r] = label]
    /\ arg' = [arg EXCEPT ![r] = a]
    /\ UNCHANGED background

\* Request r goes on to its next await.
Goto(r, label) ==
    /\ pc' = [pc EXCEPT ![r] = label]
    /\ UNCHANGED ops

\* The requests in S are over.
Finish(S) ==
    /\ pc' = [r \in Requests |-> IF r \in S THEN "idle" ELSE pc[r]]
    /\ arg' = [r \in Requests |-> IF r \in S THEN NoArg ELSE arg[r]]
    /\ background' = background \ S
    /\ UNCHANGED ops

\* Entering createCode for u while another call for u is inside it.
NoteOverlap(u) ==
    overlapped' = IF Busy(u) = {} THEN overlapped ELSE overlapped \cup {u}

-------------------------------------------------------------------------------
\* register

\* No user has the address yet.
RegisterFind(r, u) ==
    /\ account[u] = 0
    /\ Begin(r, "company", [NoArg EXCEPT !.user = u])
    /\ UNCHANGED <<now, tables, faults, overlapped, interrupted>>

\* (Mutant) The user is given the id of a company that was never saved.
RegisterCompanyUncounted(r) ==
    /\ pc[r] = "company"
    /\ arg' = [arg EXCEPT ![r].ref = companies + 1]
    /\ Goto(r, "user")
    /\ UNCHANGED <<now, tables, background, faults, overlapped, interrupted>>

RegisterCompany(r) ==
    /\ pc[r] = "company"
    /\ companies' = companies + 1
    /\ arg' = [arg EXCEPT ![r].ref = companies + 1]
    /\ Goto(r, "user")
    /\ UNCHANGED <<now, account, verified, codes, used, mailed, background, faults,
                   overlapped, interrupted>>

\* (Mutant) A registration that answers without sending a code.
RegisterUserSilently(r) ==
    LET u == arg[r].user IN
    /\ pc[r] = "user"
    /\ account' = IF account[u] = 0 THEN [account EXCEPT ![u] = arg[r].ref] ELSE account
    /\ Finish({r})
    /\ UNCHANGED <<now, companies, verified, codes, used, mailed, faults, overlapped,
                   interrupted>>

\* The address is unique: a second save throws and leaves its company behind.
\* Otherwise register answers and sendVerificationEmail goes on by itself.
RegisterUser(r) ==
    LET u == arg[r].user IN
    /\ pc[r] = "user"
    /\ \/ /\ account[u] = 0
          /\ account' = [account EXCEPT ![u] = arg[r].ref]
          /\ Goto(r, "last")
          /\ background' = background \cup {r}
          /\ UNCHANGED arg
          /\ NoteOverlap(u)
       \/ /\ account[u] # 0
          /\ Finish({r})
          /\ UNCHANGED <<account, overlapped>>
    /\ UNCHANGED <<now, companies, verified, codes, used, mailed, faults, interrupted>>

-------------------------------------------------------------------------------
\* resendVerificationEmail, then createCode and the message for both callers.

Resend(r, u) ==
    /\ account[u] # 0
    /\ u \notin verified
    /\ Begin(r, "last", [NoArg EXCEPT !.user = u])
    /\ NoteOverlap(u)
    /\ UNCHANGED <<now, tables, faults, interrupted>>

TooSoon(c) == now - codes[c].created < Cooldown

\* (Mutant) A findOne without its order clause, which returns the oldest code.
CreateCodeLastOldest(r) ==
    LET cs == CodesOf(arg[r].user) IN
    /\ pc[r] = "last"
    /\ \/ /\ cs = {} \/ \E c \in cs : (\A d \in cs : c <= d) /\ ~TooSoon(c)
          /\ Goto(r, "deactivate")
          /\ UNCHANGED <<arg, background, interrupted>>
       \/ /\ \E c \in cs : (\A d \in cs : c <= d) /\ TooSoon(c)
          /\ Finish({r})
          /\ UNCHANGED interrupted
    /\ UNCHANGED <<now, tables, faults, overlapped>>

\* The cooldown is measured from the newest code.  A refusal is the answer of a
\* resend.  In register's background call nothing awaits the promise: the
\* rejection is unhandled and ends the process, with every request it serves.
CreateCodeLast(r) ==
    LET u == arg[r].user
        refused == \E c \in CodesOf(u) : (\A d \in CodesOf(u) : d <= c) /\ TooSoon(c)
    IN
    /\ pc[r] = "last"
    /\ \/ /\ ~refused
          /\ Goto(r, "deactivate")
          /\ UNCHANGED <<arg, background, interrupted>>
       \/ /\ refused /\ r \notin background
          /\ Finish({r})
          /\ UNCHANGED interrupted
       \/ /\ refused /\ r \in background
          /\ \E S \in SUBSET {x \in Requests : pc[x] \in InFlight} :
                /\ r \in S
                /\ Finish(S)
                /\ interrupted' = interrupted \cup {arg[x].user : x \in S}
    /\ UNCHANGED <<now, tables, faults, overlapped>>

\* (Mutant) The update of the previous codes left out.
CreateCodeKeepsPrevious(r) ==
    /\ pc[r] = "deactivate"
    /\ Goto(r, "insert")
    /\ UNCHANGED <<now, tables, arg, background, faults, overlapped, interrupted>>

CreateCodeDeactivate(r) ==
    /\ pc[r] = "deactivate"
    /\ used' = used \cup CodesOf(arg[r].user)
    /\ Goto(r, "insert")
    /\ UNCHANGED <<now, companies, account, verified, codes, mailed, arg, background, faults,
                   overlapped, interrupted>>

CreateCodeInsert(r) ==
    /\ pc[r] = "insert"
    /\ codes' = Append(codes, [user |-> arg[r].user, created |-> now,
                               expires |-> now + Lifetime])
    /\ arg' = [arg EXCEPT ![r].ref = Len(codes) + 1]
    /\ Goto(r, "mail")
    /\ UNCHANGED <<now, companies, account, verified, used, mailed, background, faults,
                   overlapped, interrupted>>

Mail(r) ==
    /\ pc[r] = "mail"
    /\ mailed' = mailed \cup {arg[r].ref}
    /\ Finish({r})
    /\ UNCHANGED <<now, companies, account, verified, codes, used, faults, overlapped,
                   interrupted>>

-------------------------------------------------------------------------------
\* verifyEmail

\* The code a caller submits is one that was mailed, to whomever.
Verify(r, u, c) ==
    /\ account[u] # 0
    /\ u \notin verified
    /\ Begin(r, "find", [user |-> u, ref |-> c])
    /\ UNCHANGED <<now, tables, faults, overlapped, interrupted>>

\* (Mutant) A findOne that does not ask whose code it is.
VerifyFindAnyones(r) ==
    LET c == arg[r].ref IN
    /\ pc[r] = "find"
    /\ IF c \notin used /\ now < codes[c].expires
         THEN Goto(r, "use") /\ UNCHANGED <<arg, background>>
         ELSE Finish({r})
    /\ UNCHANGED <<now, tables, faults, overlapped, interrupted>>

VerifyFind(r) ==
    LET c == arg[r].ref IN
    /\ pc[r] = "find"
    /\ IF c \in CodesOf(arg[r].user) /\ c \notin used /\ now < codes[c].expires
         THEN Goto(r, "use") /\ UNCHANGED <<arg, background>>
         ELSE Finish({r})
    /\ UNCHANGED <<now, tables, faults, overlapped, interrupted>>

VerifyUse(r) ==
    /\ pc[r] = "use"
    /\ used' = used \cup {arg[r].ref}
    /\ Goto(r, "verify")
    /\ UNCHANGED <<now, companies, account, verified, codes, mailed, arg, background, faults,
                   overlapped, interrupted>>

VerifySave(r) ==
    /\ pc[r] = "verify"
    /\ verified' = verified \cup {arg[r].user}
    /\ Finish({r})
    /\ UNCHANGED <<now, companies, account, codes, used, mailed, faults, overlapped,
                   interrupted>>

-------------------------------------------------------------------------------
\* Time and faults.

Tick ==
    /\ now < MaxTime
    /\ now' = now + 1
    /\ UNCHANGED <<tables, pc, arg, background, ops, faults, overlapped, interrupted>>

\* A call of each request in S throws, or the process that serves them dies.
\* The call had no effect; what was written before it stays.
Fail(S) ==
    /\ faults < MaxFaults
    /\ faults' = faults + 1
    /\ Finish(S)
    /\ interrupted' = interrupted \cup {arg[r].user : r \in S}
    /\ UNCHANGED <<now, tables, overlapped>>

Step(r) ==
    \/ RegisterCompany(r) \/ RegisterUser(r)
    \/ CreateCodeLast(r) \/ CreateCodeDeactivate(r) \/ CreateCodeInsert(r) \/ Mail(r)
    \/ VerifyFind(r) \/ VerifyUse(r) \/ VerifySave(r)

Next ==
    \/ \E r \in Requests :
          \/ Step(r)
          \/ \E u \in Users :
                \/ RegisterFind(r, u) \/ Resend(r, u)
                \/ \E c \in mailed : Verify(r, u, c)
    \/ Tick
    \/ \E S \in SUBSET {r \in Requests : pc[r] \in InFlight} : S # {} /\ Fail(S)

Spec == Init /\ [][Next]_vars

\* The event loop resumes every pending await; nobody has to send a request.
FairSpec == Spec /\ \A r \in Requests : WF_vars(Step(r))

-------------------------------------------------------------------------------
\* While createCode calls for a user never overlap, only the newest code of the
\* user can be unused, however its calls are cut short: the update comes before
\* the insert, so a crash between them loses a code and never leaves two.
OnlyNewestCodeIsLive ==
    \A u \in Users \ overlapped :
        \A c, d \in CodesOf(u) : c < d => c \in used

\* While its createCode calls never overlap, a user's codes are made at least
\* Cooldown apart, whoever asked for them and whatever failed in between.
CodesAreCooledDown ==
    \A u \in Users \ overlapped :
        \A c, d \in CodesOf(u) : c < d => codes[c].created + Cooldown <= codes[d].created

\* A verified user has spent a code of its own that was mailed: neither another
\* user's code nor an unsent one verifies an address, and verifyCode marks the
\* code before verifyEmail marks the user.
VerifiedByOwnCode ==
    \A u \in verified : CodesOf(u) \cap mailed \cap used # {}

\* Every registered user is eventually sent a code, although nothing awaits the
\* call that register starts, unless a request for the user failed midway.
RegisteredUserIsMailed ==
    \A u \in Users :
        account[u] # 0 ~> (CodesOf(u) \cap mailed # {} \/ u \in interrupted)

\* The specification of the verification codes: only the latest code is valid.
OnlyLatestCodeValid ==
    \A u \in Users : \A c, d \in CodesOf(u) :
        c < d => c \in used \/ codes[c].expires <= now
===============================================================================
