------------------------------- MODULE ApiProofs --------------------------------
(***************************************************************************)
(* What is proved of the services behind the interceptor, for any number   *)
(* of requests, rows and dates.                                            *)
(*                                                                         *)
(* Of a department's OEE settings one at a time is in force. As long as    *)
(* they are entered one by one and in the order of their dates, those that *)
(* are not archived follow each other: every one but the latest is closed  *)
(* by the day the next begins. A request that closes the latest works on a *)
(* copy of it, and the copy is right because no other request about the    *)
(* department is under way.                                                *)
(*                                                                         *)
(* The life of a stored answer begins when its answer was read, and since  *)
(* then the database has shown the answer; so it has an answer that a GET  *)
(* holds and has yet to store. A step stores only what was on its way, and *)
(* what it reads is shown; and answers expire. No step takes one back, so  *)
(* nothing else bounds the age of what is served.                          *)
(*                                                                         *)
(* A row that is read and written later loses nothing: the copy that is    *)
(* written differs from the row in what was asked, and no other request    *)
(* holds one. What a delete takes along is computed over the references of *)
(* all tables, and found to be a user's codes and nothing else.            *)
(***************************************************************************)
EXTENDS Api, TLAPS, FiniteSetTheorems, Functions

DeptRow == [name : Names, active : BOOLEAN, filters : BOOLEAN]
OeeRow == [dept : Nat, from : Dates, to : Dates \cup {Open}, archived : BOOLEAN]

\* What a request for the departments works on.
DeptArg(label, a) ==
    /\ label \in {"filters", "rename", "activate", "delete"} => a.row \in DOMAIN depts
    /\ label = "rename" => a.loaded \in Names
    /\ label = "activate" => a.loaded \in BOOLEAN
    /\ label \in OeeSteps => a.other \in DOMAIN depts
    /\ label \in {"close", "archive"} =>
          a.row \in DOMAIN oee /\ oee[a.row].dept = a.other
    /\ label \in {"close", "insert"} => a.loaded[1] \in Dates
    /\ label = "close" => a.loaded[2] \in OeeRow /\ a.loaded[2].dept = a.other
    /\ label = "archive" => a.loaded \in OeeRow /\ a.loaded.dept = a.other

Rows ==
    /\ depts \in Seq(DeptRow)
    /\ oee \in Seq(OeeRow)
    /\ \A s \in DOMAIN oee : oee[s].dept \in DOMAIN depts

DeptInv ==
    /\ DOMAIN pc = Requests /\ DOMAIN arg = Requests
    /\ Rows
    /\ \A r \in Requests : DeptArg(pc[r], arg[r])

-------------------------------------------------------------------------------
\* The settings of department i follow each other.
Follows(s, t) == oee[s].to # Open /\ oee[s].to <= oee[t].from
InOrder(i) ==
    \A s, t \in Kept(i) :
        s # t => /\ oee[s].from # oee[t].from
                 /\ oee[s].from < oee[t].from => Follows(s, t)

On(r, i) == pc[r] \in OeeSteps /\ arg[r].other = i
OneAtATime(i) == \A p, q \in Requests : On(p, i) /\ On(q, i) => p = q

\* What a request about the settings of department i holds.
Prepared(label, a, i) ==
    /\ label = "close" =>
          /\ a.row \in Kept(i)
          /\ \A t \in Kept(i) : oee[t].from <= oee[a.row].from
          /\ oee[a.row].from < a.loaded[1]
          /\ a.loaded[2] = [oee[a.row] EXCEPT !.to = a.loaded[1]]
    /\ label = "insert" =>
          \A t \in Kept(i) :
              oee[t].from < a.loaded[1] /\ oee[t].to # Open /\ oee[t].to <= a.loaded[1]
    /\ label = "archive" => a.loaded = [oee[a.row] EXCEPT !.archived = TRUE]

Regular(i) ==
    /\ InOrder(i)
    /\ OneAtATime(i)
    /\ \A r \in Requests : On(r, i) => Prepared(pc[r], arg[r], i)

OeeInv ==
    IF part = "departments" THEN DeptInv /\ \A i \in DOMAIN depts \ irregular : Regular(i)
    ELSE oee = <<>>

-------------------------------------------------------------------------------
\* Helpers.

\* Every set of naturals that is not empty has a least element.
LEMMA LeastOf ==
    ASSUME NEW T, T \subseteq Nat, T # {}
    PROVE  \E x \in T : \A y \in T : x <= y
<1>1. \E x \in T : \A y \in T : <<y, x>> \notin OpToRel(<, Nat)
  BY WFMin, NatLessThanWellFounded, Zenon
<1>2. PICK x \in T : \A y \in T : <<y, x>> \notin OpToRel(<, Nat)
  BY <1>1
<1>3. \A y \in T : ~(y < x)
  BY <1>2 DEF OpToRel
<1>4. QED
  BY <1>3

\* The settings of a department have a latest one, if there are any.
LEMMA LatestSetting ==
    ASSUME Rows, NEW i, Kept(i) # {}
    PROVE  CurrentSettings(i) # {}
<1>. DEFINE Upto(n) == {s \in Kept(i) : s <= n}
            Late(n) == Upto(n) = {} \/ \E s \in Upto(n) : \A t \in Upto(n) : oee[t].from <= oee[s].from
            Bad == {n \in Nat : ~Late(n)}
<1>1. Kept(i) \subseteq 1..Len(oee) /\ Len(oee) \in Nat
  BY DEF Kept, Rows
<1>2. \A s \in Kept(i) : oee[s].from \in Nat
  <2>1. \A s \in Kept(i) : oee[s] \in OeeRow
    BY <1>1 DEF Rows
  <2>2. QED
    BY <2>1, DepartmentsAssumption DEF OeeRow
<1>3. Bad = {}
  <2>1. SUFFICES ASSUME Bad # {} PROVE FALSE
    OBVIOUS
  <2>2. PICK n \in Bad : \A m \in Bad : n <= m
    BY <2>1, LeastOf
  <2>3. n # 0
    BY <1>1, <2>2
  <2>4. n - 1 \in Nat /\ n - 1 \notin Bad
    BY <2>2, <2>3
  <2>5. Late(n - 1)
    BY <2>4
  <2>6. Upto(n) \subseteq Upto(n - 1) \cup {n} /\ Upto(n - 1) \subseteq Upto(n)
    BY <1>1, <2>2
  <2>. HIDE DEF Upto
  <2>7. CASE n \notin Upto(n)
    <3>1. Upto(n) = Upto(n - 1)
      BY <2>6, <2>7
    <3>2. QED
      BY <2>2, <2>5, <3>1
  <2>8. CASE n \in Upto(n)
    <3>1. \A s \in Upto(n) : oee[s].from \in Nat
      BY <1>2 DEF Upto
    <3>2. CASE \A t \in Upto(n) : oee[t].from <= oee[n].from
      BY <2>2, <2>8, <3>2
    <3>3. CASE \E t \in Upto(n) : ~(oee[t].from <= oee[n].from)
      <4>1. PICK u \in Upto(n) : ~(oee[u].from <= oee[n].from)
        BY <3>3
      <4>2. u \in Upto(n - 1)
        BY <2>6, <2>8, <3>1, <4>1
      <4>3. PICK s \in Upto(n - 1) : \A t \in Upto(n - 1) : oee[t].from <= oee[s].from
        BY <2>5, <4>2
      <4>4. s \in Upto(n) /\ \A t \in Upto(n) : oee[t].from <= oee[s].from
        BY <2>6, <2>8, <3>1, <4>1, <4>2, <4>3
      <4>5. QED
        BY <2>2, <4>4
    <3>4. QED
      BY <3>2, <3>3
  <2>9. QED
    BY <2>7, <2>8
<1>4. Late(Len(oee))
  BY <1>1, <1>3
<1>5. Upto(Len(oee)) = Kept(i)
  BY <1>1
<1>6. QED
  BY <1>4, <1>5 DEF CurrentSettings

\* A request that moves leaves the others where they are.
Moved(r, label, a) == pc' = [pc EXCEPT ![r] = label] /\ arg' = [arg EXCEPT ![r] = a]

LEMMA Moves ==
    /\ \A r \in Requests : \A label, a : Enter(r, label, a) => Moved(r, label, a) /\ pc[r] = "idle"
    /\ \A r \in Requests : \A label, a : Begin(r, label, a) => Moved(r, label, a) /\ pc[r] = "idle"
    /\ \A r \in Requests : \A label, a : Goto(r, label, a) => Moved(r, label, a)
    /\ \A r \in Requests : Finish(r) => Moved(r, "idle", NoArg)
BY DEF Begin, Enter, Goto, Finish, Moved

LEMMA MovesAlone ==
    ASSUME DOMAIN pc = Requests, DOMAIN arg = Requests,
           NEW r \in Requests, NEW label, NEW a, Moved(r, label, a)
    PROVE  /\ DOMAIN pc' = Requests /\ DOMAIN arg' = Requests
           /\ \A q \in Requests :
                 \/ q # r /\ pc'[q] = pc[q] /\ arg'[q] = arg[q]
                 \/ q = r /\ pc'[q] = label /\ arg'[q] = a
BY DEF Moved

-------------------------------------------------------------------------------
\* What a step leaves as it is.

\* Only settings of department j change, and rows are only added.
Touches(j) ==
    /\ DOMAIN depts \subseteq DOMAIN depts' /\ DOMAIN oee \subseteq DOMAIN oee'
    /\ \A s \in DOMAIN oee : oee'[s].dept = oee[s].dept
    /\ \A s \in DOMAIN oee : oee'[s] = oee[s] \/ oee[s].dept = j
    /\ \A s \in DOMAIN oee' \ DOMAIN oee : oee'[s].dept = j

LEMMA ArgStays ==
    ASSUME NEW j, Touches(j), NEW label, NEW a, DeptArg(label, a)
    PROVE  DeptArg(label, a)'
BY DEF Touches, DeptArg

LEMMA DeptInvStep ==
    ASSUME DeptInv, Rows', NEW j, Touches(j),
           NEW r \in Requests, NEW label, NEW a, Moved(r, label, a), DeptArg(label, a)'
    PROVE  DeptInv'
<1>1. /\ DOMAIN pc' = Requests /\ DOMAIN arg' = Requests
      /\ \A q \in Requests :
            \/ q # r /\ pc'[q] = pc[q] /\ arg'[q] = arg[q]
            \/ q = r /\ pc'[q] = label /\ arg'[q] = a
  BY MovesAlone DEF DeptInv
<1>2. ASSUME NEW q \in Requests
      PROVE  DeptArg(pc[q], arg[q])'
  <2>1. CASE q = r
    BY <1>1, <2>1
  <2>2. CASE q # r
    BY <1>1, <2>2, ArgStays DEF DeptInv
  <2>3. QED
    BY <2>1, <2>2
<1>3. QED
  BY <1>1, <1>2 DEF DeptInv

\* A department that is not there has no settings and no requests.
LEMMA NewIsRegular ==
    ASSUME DeptInv, NEW i, i \notin DOMAIN depts
    PROVE  Regular(i)
<1>1. Kept(i) = {}
  BY DEF Kept, DeptInv, Rows
<1>2. \A r \in Requests : ~On(r, i)
  BY DEF On, DeptInv, DeptArg
<1>3. QED
  BY <1>1, <1>2 DEF Regular, InOrder, OneAtATime

\* A step of a request about one department does nothing to the others.
LEMMA OthersStay ==
    ASSUME DeptInv, NEW j, Touches(j), NEW r \in Requests, NEW label, NEW a,
           Moved(r, label, a), label \in OeeSteps => a.other = j,
           NEW i, i # j, Regular(i)
    PROVE  Regular(i)'
<1>1. \A q \in Requests :
         \/ q # r /\ pc'[q] = pc[q] /\ arg'[q] = arg[q]
         \/ q = r /\ pc'[q] = label /\ arg'[q] = a
  BY MovesAlone DEF DeptInv
<1>2. \A q \in Requests : On(q, i)' => On(q, i) /\ pc'[q] = pc[q] /\ arg'[q] = arg[q]
  BY <1>1 DEF On
<1>3. Kept(i)' = Kept(i)
  BY DEF Kept, Touches
<1>4. \A s \in DOMAIN oee : oee[s].dept = i => oee'[s] = oee[s]
  BY DEF Touches
<1>5. \A s \in Kept(i) : oee'[s] = oee[s]
  BY <1>4 DEF Kept
<1>6. InOrder(i)'
  BY <1>3, <1>5 DEF Regular, InOrder, Follows
<1>7. OneAtATime(i)'
  BY <1>2 DEF Regular, OneAtATime
<1>8. ASSUME NEW q \in Requests, On(q, i)'
      PROVE  Prepared(pc[q], arg[q], i)'
  <2>1. /\ pc'[q] = pc[q] /\ arg'[q] = arg[q] /\ Prepared(pc[q], arg[q], i)
        /\ DeptArg(pc[q], arg[q]) /\ arg[q].other = i
    BY <1>2, <1>8 DEF Regular, DeptInv, On
  <2>2. pc[q] \in {"close", "archive"} => oee'[arg[q].row] = oee[arg[q].row]
    BY <1>4, <2>1 DEF DeptArg
  <2>3. QED
    BY <1>3, <1>5, <2>1, <2>2 DEF Prepared
<1>9. QED
  BY <1>6, <1>7, <1>8 DEF Regular

\* A request that does nothing to the settings.
LEMMA QuietKeeps ==
    ASSUME part = "departments", UNCHANGED <<part, oee, irregular>>, OeeInv,
           depts' \in Seq(DeptRow), DOMAIN depts \subseteq DOMAIN depts',
           NEW r \in Requests, NEW label, NEW a, Moved(r, label, a),
           label \notin OeeSteps, DeptArg(label, a)'
    PROVE  OeeInv'
<1>1. DeptInv
  BY DEF OeeInv
<1>2. Touches(0)
  BY DEF Touches
<1>3. Rows'
  BY <1>1 DEF DeptInv, Rows
<1>4. DeptInv'
  BY <1>1, <1>2, <1>3, DeptInvStep
<1>5. 0 \notin DOMAIN depts'
  BY <1>3 DEF Rows
<1>6. ASSUME NEW i \in DOMAIN depts' \ irregular'
      PROVE  Regular(i)'
  <2>1. Regular(i)
    BY <1>1, NewIsRegular DEF OeeInv
  <2>2. QED
    BY <1>1, <1>2, <1>5, <2>1, OthersStay
<1>7. QED
  BY <1>4, <1>6 DEF OeeInv

\* One that goes on with nothing that it must know of the tables.
LEMMA PlainKeeps ==
    ASSUME part = "departments", UNCHANGED <<part, deptTables>>, OeeInv,
           NEW r \in Requests, NEW label, NEW a, Moved(r, label, a),
           label \in {"idle", "read", "fill", "reread", "evict"}
    PROVE  OeeInv'
<1>1. UNCHANGED <<depts, oee, irregular>>
  BY DEF deptTables
<1>2. DeptArg(label, a)' /\ label \notin OeeSteps
  BY DEF DeptArg, OeeSteps
<1>3. depts' \in Seq(DeptRow)
  BY <1>1 DEF OeeInv, DeptInv, Rows
<1>4. QED
  BY <1>1, <1>2, <1>3, QuietKeeps

-------------------------------------------------------------------------------
\* The routes that change settings.

\* What a step about department j must show: the rest is OthersStay.
LEMMA OeeStepKeeps ==
    ASSUME part = "departments", UNCHANGED <<part, depts>>, OeeInv, irregular \subseteq irregular',
           Rows', NEW j \in DOMAIN depts, Touches(j),
           NEW r \in Requests, NEW label, NEW a, Moved(r, label, a),
           label \in OeeSteps => a.other = j, DeptArg(label, a)',
           j \notin irregular' => Regular(j)'
    PROVE  OeeInv'
<1>1. DeptInv
  BY DEF OeeInv
<1>2. DeptInv'
  BY <1>1, DeptInvStep
<1>3. ASSUME NEW i \in DOMAIN depts' \ irregular'
      PROVE  Regular(i)'
  <2>1. CASE i = j
    BY <1>3, <2>1
  <2>2. CASE i # j
    <3>1. Regular(i)
      BY <1>3 DEF OeeInv
    <3>2. QED
      BY <1>1, <2>2, <3>1, OthersStay
  <2>3. QED
    BY <2>1, <2>2
<1>4. QED
  BY <1>2, <1>3 DEF OeeInv

\* The request that begins when no other is about the department.
LEMMA FirstOn ==
    ASSUME DeptInv, NEW j, Regular(j), ~OeeBusy(j), UNCHANGED oee,
           NEW r \in Requests, NEW label, NEW a, Moved(r, label, a), Prepared(label, a, j)
    PROVE  Regular(j)'
<1>1. \A q \in Requests :
         \/ q # r /\ pc'[q] = pc[q] /\ arg'[q] = arg[q]
         \/ q = r /\ pc'[q] = label /\ arg'[q] = a
  BY MovesAlone DEF DeptInv
<1>2. \A q \in Requests : On(q, j)' => q = r
  BY <1>1 DEF On, OeeBusy
<1>3. InOrder(j)'
  BY DEF Regular, InOrder, Follows, Kept
<1>4. OneAtATime(j)'
  BY <1>2 DEF OneAtATime
<1>5. \A q \in Requests : On(q, j)' => Prepared(pc[q], arg[q], j)'
  BY <1>1, <1>2 DEF Prepared, Kept
<1>6. QED
  BY <1>3, <1>4, <1>5 DEF Regular

\* The request on its own goes on, or is done with the settings.
LEMMA LastOn ==
    ASSUME DeptInv, NEW j, Regular(j), NEW r \in Requests, On(r, j),
           NEW label, NEW a, Moved(r, label, a), InOrder(j)',
           label \in OeeSteps => Prepared(label, a, j)'
    PROVE  Regular(j)'
<1>1. \A q \in Requests :
         \/ q # r /\ pc'[q] = pc[q] /\ arg'[q] = arg[q]
         \/ q = r /\ pc'[q] = label /\ arg'[q] = a
  BY MovesAlone DEF DeptInv
<1>2. \A q \in Requests : On(q, j)' => q = r
  BY <1>1 DEF On, Regular, OneAtATime
<1>3. OneAtATime(j)'
  BY <1>2 DEF OneAtATime
<1>4. \A q \in Requests : On(q, j)' => Prepared(pc[q], arg[q], j)'
  BY <1>1, <1>2 DEF On
<1>5. QED
  BY <1>3, <1>4 DEF Regular

\* createOeeSetting has found the latest setting, or that there is none.
LEMMA OeeReadKeeps ==
    ASSUME part = "departments", UNCHANGED part, OeeInv, NEW r \in Requests,
           NEW i \in DOMAIN depts, NEW from \in Dates,
           OeeRead(r, i, from)
    PROVE  OeeInv'
<1>1. DeptInv /\ Rows
  BY DEF OeeInv, DeptInv
<1>2. UNCHANGED <<depts, oee>> /\ irregular \subseteq irregular'
  BY DEF OeeRead
<1>3. Rows' /\ Touches(i)
  BY <1>1, <1>2 DEF Rows, Touches
<1>4. i \notin irregular' =>
         ~OeeBusy(i) /\ Regular(i) /\ \A s \in Kept(i) : ~(from <= oee[s].from)
  BY <1>2 DEF OeeRead, OeeInv
<1>5. \A s \in Kept(i) : s \in DOMAIN oee /\ oee[s] \in OeeRow /\ oee[s].from \in Nat
  <2>1. \A s \in Kept(i) : s \in DOMAIN oee /\ oee[s] \in OeeRow
    BY <1>1 DEF Kept, Rows
  <2>2. QED
    BY <2>1, DepartmentsAssumption DEF OeeRow
<1>6. from \in Nat
  BY DepartmentsAssumption
<1>. DEFINE b == [Route({Dept(i)}) EXCEPT !.other = i, !.loaded = <<from>>]
<1>7. CASE CurrentSettings(i) = {}
  <2>1. b.other = i /\ b.loaded = <<from>>
    BY DEF Route, NoArg
  <2>2. Begin(r, "insert", b)
    BY <1>7 DEF OeeRead
  <2>. HIDE DEF b
  <2>3. Moved(r, "insert", b)
    BY <2>2, Moves
  <2>4. Kept(i) = {}
    BY <1>1, <1>7, LatestSetting
  <2>5. DeptArg("insert", b)'
    BY <1>2, <2>1 DEF DeptArg
  <2>6. Prepared("insert", b, i)
    BY <2>4 DEF Prepared
  <2>7. i \notin irregular' => Regular(i)'
    BY <1>1, <1>2, <1>4, <2>3, <2>6, FirstOn
  <2>8. QED
    BY <1>2, <1>3, <2>1, <2>3, <2>5, <2>7, OeeStepKeeps
<1>8. CASE CurrentSettings(i) # {}
  <2>1. PICK s \in CurrentSettings(i) :
           Begin(r, "close", [b EXCEPT !.row = s, !.loaded = <<from, [oee[s] EXCEPT !.to = from]>>])
    BY <1>8 DEF OeeRead
  <2>. PICK a : a = [b EXCEPT !.row = s, !.loaded = <<from, [oee[s] EXCEPT !.to = from]>>]
    OBVIOUS
  <2>2. a.other = i /\ a.row = s /\ a.loaded = <<from, [oee[s] EXCEPT !.to = from]>>
    BY DEF Route, NoArg, b
  <2>3. Begin(r, "close", a)
    BY <2>1
  <2>4. Moved(r, "close", a)
    BY <2>3, Moves
  <2>5. s \in Kept(i) /\ \A t \in Kept(i) : oee[t].from <= oee[s].from
    BY DEF CurrentSettings
  <2>6. [oee[s] EXCEPT !.to = from] \in OeeRow /\ [oee[s] EXCEPT !.to = from].dept = i
    BY <1>5, <2>5 DEF OeeRow, Kept
  <2>7. DeptArg("close", a)'
    <3>1. s \in DOMAIN oee' /\ oee'[s].dept = i /\ i \in DOMAIN depts'
      BY <1>2, <1>5, <2>5 DEF Kept
    <3>2. a.loaded[1] = from /\ a.loaded[2] = [oee[s] EXCEPT !.to = from]
      BY <2>2
    <3>3. QED
      BY <2>2, <2>6, <3>1, <3>2 DEF DeptArg
  <2>8. i \notin irregular' => Prepared("close", a, i)
    BY <1>4, <1>5, <1>6, <2>2, <2>5 DEF Prepared
  <2>9. i \notin irregular' => Regular(i)'
    BY <1>1, <1>2, <1>4, <2>4, <2>8, FirstOn
  <2>10. QED
    BY <1>2, <1>3, <2>2, <2>4, <2>7, <2>9, OeeStepKeeps
<1>9. QED
  BY <1>7, <1>8

LEMMA OeeArchiveReadKeeps ==
    ASSUME part = "departments", UNCHANGED part, OeeInv, NEW r \in Requests,
           NEW s \in DOMAIN oee, OeeArchiveRead(r, s)
    PROVE  OeeInv'
<1>. PICK i : i = oee[s].dept
  OBVIOUS
<1>. PICK a : a = [Route({Dept(i)}) EXCEPT !.row = s, !.other = i,
                                                !.loaded = [oee[s] EXCEPT !.archived = TRUE]]
  OBVIOUS
<1>1. DeptInv /\ Rows /\ i \in DOMAIN depts
  BY DEF OeeInv, DeptInv, Rows
<1>2. UNCHANGED <<depts, oee>> /\ irregular \subseteq irregular'
  BY DEF OeeArchiveRead
<1>3. Rows' /\ Touches(i)
  BY <1>1, <1>2 DEF Rows, Touches
<1>4. i \notin irregular' => ~OeeBusy(i) /\ Regular(i)
  BY <1>1, <1>2 DEF OeeArchiveRead, OeeInv
<1>5. a.row = s /\ a.other = i /\ a.loaded = [oee[s] EXCEPT !.archived = TRUE]
  BY DEF Route, NoArg
<1>6. Begin(r, "archive", a)
  BY DEF OeeArchiveRead
<1>7. Moved(r, "archive", a)
  BY <1>6, Moves
<1>8. oee[s] \in OeeRow
  BY <1>1 DEF Rows
<1>9. [oee[s] EXCEPT !.archived = TRUE] \in OeeRow /\ [oee[s] EXCEPT !.archived = TRUE].dept = i
  BY <1>8 DEF OeeRow
<1>10. DeptArg("archive", a)'
  BY <1>1, <1>2, <1>5, <1>9 DEF DeptArg
<1>11. Prepared("archive", a, i)
  BY <1>5 DEF Prepared
<1>12. i \notin irregular' => Regular(i)'
  BY <1>1, <1>2, <1>4, <1>7, <1>11, FirstOn
<1>13. QED
  BY <1>1, <1>2, <1>3, <1>5, <1>7, <1>10, <1>12, OeeStepKeeps

\* save: the copy is the row as it is, closed by the day the next setting begins.
LEMMA OeeCloseKeeps ==
    ASSUME part = "departments", UNCHANGED part, OeeInv, NEW r \in Requests, OeeClose(r),
           NEW a, a = arg[r], NEW i, i = a.other
    PROVE  OeeInv'
<1>1. DeptInv /\ Rows /\ DeptArg("close", a)
  BY DEF OeeInv, DeptInv, OeeClose
<1>2. UNCHANGED <<depts, irregular>> /\ oee' = [oee EXCEPT ![a.row] = a.loaded[2]]
  BY DEF OeeClose
<1>3. Moved(r, "insert", a) /\ On(r, i)
  BY Moves DEF OeeClose, On, OeeSteps
<1>4. /\ i \in DOMAIN depts /\ a.row \in DOMAIN oee /\ oee[a.row].dept = i
      /\ a.loaded[1] \in Dates /\ a.loaded[2] \in OeeRow /\ a.loaded[2].dept = i
  BY <1>1 DEF DeptArg, OeeSteps
<1>5. oee' \in Seq(OeeRow) /\ DOMAIN oee' = DOMAIN oee
  BY <1>1, <1>2, <1>4 DEF Rows
<1>6. \A s \in DOMAIN oee : oee'[s] = IF s = a.row THEN a.loaded[2] ELSE oee[s]
  BY <1>2
<1>7. Rows' /\ Touches(i)
  BY <1>1, <1>2, <1>4, <1>5, <1>6 DEF Rows, Touches
<1>8. DeptArg("insert", a)'
  BY <1>2, <1>4 DEF DeptArg, OeeSteps
<1>9. ASSUME i \notin irregular'
      PROVE  Regular(i)'
  <2>1. Regular(i)
    BY <1>2, <1>4, <1>9 DEF OeeInv
  <2>2. Prepared("close", a, i)
    BY <1>3, <2>1 DEF Regular, OeeClose
  <2>3. /\ a.row \in Kept(i)
        /\ \A t \in Kept(i) : oee[t].from <= oee[a.row].from
        /\ oee[a.row].from < a.loaded[1]
        /\ a.loaded[2] = [oee[a.row] EXCEPT !.to = a.loaded[1]]
    BY <2>2 DEF Prepared
  <2>4. \A s \in Kept(i) : s \in DOMAIN oee /\ oee[s] \in OeeRow
    BY <1>1 DEF Kept, Rows
  <2>5. \A s \in Kept(i) : oee[s].from \in Nat /\ oee[s].to \in Nat
    <3>1. Dates \subseteq Nat /\ Dates \cup {Open} \subseteq Nat
      BY DepartmentsAssumption DEF Open
    <3>2. QED
      BY <2>4, <3>1 DEF OeeRow
  <2>6. /\ oee'[a.row].from = oee[a.row].from /\ oee'[a.row].to = a.loaded[1]
        /\ oee'[a.row].dept = i /\ oee'[a.row].archived = oee[a.row].archived
    BY <1>4, <1>6, <2>3, <2>4 DEF OeeRow
  <2>7. Kept(i)' = Kept(i)
    BY <1>5, <1>6, <2>3, <2>6 DEF Kept
  <2>8. a.loaded[1] \in Nat /\ a.loaded[1] # Open
    BY <1>4, DepartmentsAssumption
  <2>9. InOrder(i)
    BY <2>1 DEF Regular
  <2>10. InOrder(i)'
    <3>. SUFFICES ASSUME NEW s \in Kept(i), NEW t \in Kept(i), s # t
                  PROVE  /\ oee'[s].from # oee'[t].from
                         /\ oee'[s].from < oee'[t].from =>
                               oee'[s].to # Open /\ oee'[s].to <= oee'[t].from
      BY <2>7 DEF InOrder, Follows
    <3>1. oee'[s].from = oee[s].from /\ oee'[t].from = oee[t].from
      BY <1>6, <2>4, <2>6
    <3>2. s = a.row => ~(oee[s].from < oee[t].from)
      BY <2>3, <2>5
    <3>3. s # a.row => oee'[s] = oee[s]
      BY <1>6, <2>4
    <3>4. QED
      BY <2>9, <3>1, <3>2, <3>3 DEF InOrder, Follows
  <2>11. Prepared("insert", a, i)'
    <3>. SUFFICES ASSUME NEW t \in Kept(i)
                  PROVE  /\ oee'[t].from < a.loaded[1]
                         /\ oee'[t].to # Open /\ oee'[t].to <= a.loaded[1]
      BY <2>7 DEF Prepared
    <3>1. CASE t = a.row
      BY <2>3, <2>6, <2>8, <3>1
    <3>2. CASE t # a.row
      <4>1. oee'[t] = oee[t]
        BY <1>6, <2>4, <3>2
      <4>2. oee[t].from # oee[a.row].from /\ oee[t].from <= oee[a.row].from
        BY <2>3, <2>9, <3>2 DEF InOrder
      <4>3. oee[t].from < oee[a.row].from
        BY <2>3, <2>5, <4>2
      <4>4. oee[t].to # Open /\ oee[t].to <= oee[a.row].from
        BY <2>3, <2>9, <3>2, <4>3 DEF InOrder, Follows
      <4>5. QED
        BY <2>3, <2>5, <2>8, <4>1, <4>3, <4>4
    <3>3. QED
      BY <3>1, <3>2
  <2>12. QED
    BY <1>1, <1>3, <2>1, <2>10, <2>11, LastOn
<1>10. QED
  BY <1>2, <1>3, <1>4, <1>7, <1>8, <1>9, OeeStepKeeps

\* The new setting begins after all that are kept, which are closed by then.
LEMMA OeeInsertKeeps ==
    ASSUME part = "departments", UNCHANGED part, OeeInv, NEW r \in Requests, OeeInsert(r),
           NEW a, a = arg[r], NEW i, i = a.other
    PROVE  OeeInv'
<1>. DEFINE row == [dept |-> i, from |-> a.loaded[1], to |-> Open, archived |-> FALSE]
            n == Len(oee) + 1
<1>1. DeptInv /\ Rows /\ DeptArg("insert", a)
  BY DEF OeeInv, DeptInv, OeeInsert
<1>2. UNCHANGED <<depts, irregular>> /\ oee' = Append(oee, row)
  BY DEF OeeInsert
<1>3. Moved(r, "evict", a) /\ On(r, i) /\ pc[r] = "insert"
  BY Moves DEF OeeInsert, On, OeeSteps
<1>4. i \in DOMAIN depts /\ i \in Nat /\ a.loaded[1] \in Dates
  BY <1>1 DEF DeptArg, OeeSteps, Rows
<1>5. row \in OeeRow /\ row.dept = i /\ row.from = a.loaded[1] /\ row.to = Open /\ ~row.archived
  BY <1>4 DEF OeeRow
<1>. HIDE DEF row
<1>6. /\ oee' \in Seq(OeeRow) /\ DOMAIN oee = 1..Len(oee) /\ Len(oee) \in Nat
      /\ DOMAIN oee' = 1..n /\ oee'[n] = row
      /\ \A s \in 1..Len(oee) : oee'[s] = oee[s]
  BY <1>1, <1>2, <1>5 DEF Rows
<1>7. DOMAIN oee' = DOMAIN oee \cup {n} /\ n \notin DOMAIN oee
  BY <1>6
<1>. HIDE DEF n
<1>8. Rows' /\ Touches(i)
  BY <1>1, <1>2, <1>4, <1>5, <1>6, <1>7 DEF Rows, Touches
<1>9. DeptArg("evict", a)' /\ "evict" \notin OeeSteps
  BY DEF DeptArg, OeeSteps
<1>10. ASSUME i \notin irregular'
       PROVE  Regular(i)'
  <2>1. Regular(i)
    BY <1>2, <1>4, <1>10 DEF OeeInv
  <2>2. Prepared("insert", a, i)
    BY <1>3, <2>1 DEF Regular
  <2>3. \A t \in Kept(i) : oee[t].from < a.loaded[1] /\ oee[t].to # Open /\ oee[t].to <= a.loaded[1]
    BY <2>2 DEF Prepared
  <2>4. Kept(i)' = Kept(i) \cup {n}
    BY <1>5, <1>6, <1>7 DEF Kept
  <2>5. \A t \in Kept(i) : t # n /\ oee'[t] = oee[t]
    BY <1>6, <1>7 DEF Kept
  <2>6. \A t \in Kept(i) : oee[t] \in OeeRow
    BY <1>1 DEF Kept, Rows
  <2>7. \A t \in Kept(i) : oee[t].from \in Nat
    BY <2>6, DepartmentsAssumption DEF OeeRow
  <2>8. InOrder(i)
    BY <2>1 DEF Regular
  <2>9. a.loaded[1] \in Nat
    BY <1>4, DepartmentsAssumption
  <2>10. InOrder(i)'
    <3>. SUFFICES ASSUME NEW s \in Kept(i) \cup {n}, NEW t \in Kept(i) \cup {n}, s # t
                  PROVE  /\ oee'[s].from # oee'[t].from
                         /\ oee'[s].from < oee'[t].from =>
                               oee'[s].to # Open /\ oee'[s].to <= oee'[t].from
      BY <2>4 DEF InOrder, Follows
    <3>1. CASE s = n
      <4>1. t \in Kept(i) /\ oee'[t] = oee[t]
        BY <2>5, <3>1
      <4>2. oee[t].from < a.loaded[1] /\ oee[t].from \in Nat
        BY <2>3, <2>7, <4>1
      <4>3. QED
        BY <1>5, <1>6, <2>9, <3>1, <4>1, <4>2
    <3>2. CASE t = n /\ s # n
      <4>1. s \in Kept(i) /\ oee'[s] = oee[s]
        BY <2>5, <3>2
      <4>2. oee[s].from < a.loaded[1] /\ oee[s].from \in Nat
            /\ oee[s].to # Open /\ oee[s].to <= a.loaded[1]
        BY <2>3, <2>7, <4>1
      <4>3. QED
        BY <1>5, <1>6, <2>9, <3>2, <4>1, <4>2
    <3>3. CASE s # n /\ t # n
      BY <2>5, <2>8, <3>3 DEF InOrder, Follows
    <3>4. QED
      BY <3>1, <3>2, <3>3
  <2>11. QED
    BY <1>1, <1>3, <1>9, <2>1, <2>10, LastOn
<1>11. QED
  BY <1>2, <1>3, <1>4, <1>8, <1>9, <1>10, OeeStepKeeps

LEMMA OeeArchiveKeeps ==
    ASSUME part = "departments", UNCHANGED part, OeeInv, NEW r \in Requests, OeeArchive(r),
           NEW a, a = arg[r], NEW i, i = a.other
    PROVE  OeeInv'
<1>1. DeptInv /\ Rows /\ DeptArg("archive", a)
  BY DEF OeeInv, DeptInv, OeeArchive
<1>2. UNCHANGED <<depts, irregular>> /\ oee' = [oee EXCEPT ![a.row] = a.loaded]
  BY DEF OeeArchive
<1>3. Moved(r, "evict", a) /\ On(r, i) /\ pc[r] = "archive"
  BY Moves DEF OeeArchive, On, OeeSteps
<1>4. /\ i \in DOMAIN depts /\ a.row \in DOMAIN oee /\ oee[a.row].dept = i
      /\ a.loaded \in OeeRow /\ a.loaded.dept = i
  BY <1>1 DEF DeptArg, OeeSteps
<1>5. oee' \in Seq(OeeRow) /\ DOMAIN oee' = DOMAIN oee
  BY <1>1, <1>2, <1>4 DEF Rows
<1>6. \A s \in DOMAIN oee : oee'[s] = IF s = a.row THEN a.loaded ELSE oee[s]
  BY <1>2
<1>7. Rows' /\ Touches(i)
  BY <1>1, <1>2, <1>4, <1>5, <1>6 DEF Rows, Touches
<1>8. DeptArg("evict", a)' /\ "evict" \notin OeeSteps
  BY DEF DeptArg, OeeSteps
<1>9. ASSUME i \notin irregular'
      PROVE  Regular(i)'
  <2>1. Regular(i)
    BY <1>2, <1>4, <1>9 DEF OeeInv
  <2>2. Prepared("archive", a, i)
    BY <1>3, <2>1 DEF Regular
  <2>3. oee[a.row] \in OeeRow
    BY <1>1, <1>4 DEF Rows
  <2>4. a.loaded.archived
    BY <2>2, <2>3 DEF Prepared, OeeRow
  <2>5. Kept(i)' \subseteq Kept(i) \ {a.row}
    BY <1>4, <1>5, <1>6, <2>4 DEF Kept
  <2>6. \A s \in Kept(i)' : oee'[s] = oee[s]
    BY <1>6, <2>5 DEF Kept
  <2>7. InOrder(i)'
    BY <2>1, <2>5, <2>6 DEF Regular, InOrder, Follows
  <2>8. QED
    BY <1>1, <1>3, <1>8, <2>1, <2>7, LastOn
<1>10. QED
  BY <1>2, <1>3, <1>4, <1>7, <1>8, <1>9, OeeStepKeeps

-------------------------------------------------------------------------------
\* The routes that change departments.

LEMMA DeptCreateKeeps ==
    ASSUME part = "departments", UNCHANGED part, OeeInv, NEW r \in Requests,
           NEW name \in Names, DeptCreate(r, name)
    PROVE  OeeInv'
<1>. PICK i : i = Len(depts) + 1
  OBVIOUS
<1>. PICK a : a = [Route({AllDepts}) EXCEPT !.row = i]
  OBVIOUS
<1>1. a.row = i
  BY DEF Route, NoArg
<1>2. /\ Begin(r, "filters", a) /\ UNCHANGED <<oee, irregular>>
      /\ depts' = Append(depts, [name |-> name, active |-> TRUE, filters |-> FALSE])
  BY DEF DeptCreate
<1>3. Moved(r, "filters", a)
  BY <1>2, Moves
<1>4. depts \in Seq(DeptRow) /\ [name |-> name, active |-> TRUE, filters |-> FALSE] \in DeptRow
  BY DEF OeeInv, DeptInv, Rows, DeptRow
<1>5. depts' \in Seq(DeptRow) /\ DOMAIN depts' = 1..i /\ DOMAIN depts = 1..Len(depts)
      /\ Len(depts) \in Nat
  BY <1>2, <1>4
<1>6. DOMAIN depts \subseteq DOMAIN depts' /\ i \in DOMAIN depts'
  BY <1>5
<1>7. DeptArg("filters", a)' /\ "filters" \notin OeeSteps
  BY <1>1, <1>6 DEF DeptArg, OeeSteps
<1>8. QED
  BY <1>2, <1>3, <1>5, <1>6, <1>7, QuietKeeps

\* One of a department's columns is written.
LEMMA DeptColumnKeeps ==
    ASSUME part = "departments", UNCHANGED <<part, oee, irregular>>, OeeInv,
           NEW i \in DOMAIN depts, NEW row \in DeptRow, depts' = [depts EXCEPT ![i] = row],
           NEW r \in Requests, NEW label, NEW a, Moved(r, label, a),
           label \in {"reread", "evict"}
    PROVE  OeeInv'
<1>1. depts \in Seq(DeptRow)
  BY DEF OeeInv, DeptInv, Rows
<1>2. depts' \in Seq(DeptRow) /\ DOMAIN depts \subseteq DOMAIN depts'
  BY <1>1
<1>3. DeptArg(label, a)' /\ label \notin OeeSteps
  BY DEF DeptArg, OeeSteps
<1>4. QED
  BY <1>2, <1>3, QuietKeeps

LEMMA DeptFiltersKeeps ==
    ASSUME part = "departments", UNCHANGED part, OeeInv, NEW r \in Requests, DeptFilters(r)
    PROVE  OeeInv'
<1>. PICK i : i = arg[r].row
  OBVIOUS
<1>1. i \in DOMAIN depts /\ depts \in Seq(DeptRow)
  BY DEF OeeInv, DeptInv, DeptArg, DeptFilters, Rows
<1>. PICK row : row = [depts[i] EXCEPT !.filters = TRUE]
  OBVIOUS
<1>2. depts[i] \in DeptRow
  BY <1>1
<1>3. row \in DeptRow
  BY <1>2 DEF DeptRow
<1>4. depts' = [depts EXCEPT ![i] = row] /\ UNCHANGED <<oee, irregular>>
  BY DEF DeptFilters
<1>5. Moved(r, "reread", arg[r])
  BY Moves DEF DeptFilters
<1>6. QED
  BY <1>1, <1>3, <1>4, <1>5, DeptColumnKeeps

LEMMA DeptReadKeeps ==
    ASSUME part = "departments", UNCHANGED part, OeeInv, NEW r \in Requests,
           NEW i \in DOMAIN depts, NEW label, NEW v, DeptRead(r, i, label, v),
           \/ label = "rename" /\ v \in Names
           \/ label = "activate" /\ v \in BOOLEAN
           \/ label = "delete"
    PROVE  OeeInv'
<1>. PICK a : a = [Route({AllDepts, Dept(i)}) EXCEPT !.row = i, !.loaded = v]
  OBVIOUS
<1>1. a.row = i /\ a.loaded = v
  BY DEF Route, NoArg
<1>2. Moved(r, label, a) /\ UNCHANGED <<depts, oee, irregular>>
  BY Moves DEF DeptRead, deptTables
<1>3. DeptArg(label, a)' /\ label \notin OeeSteps
  BY <1>1, <1>2 DEF DeptArg, OeeSteps
<1>4. depts' \in Seq(DeptRow)
  BY <1>2 DEF OeeInv, DeptInv, Rows
<1>5. QED
  BY <1>2, <1>3, <1>4, QuietKeeps

LEMMA DeptWriteKeeps ==
    ASSUME part = "departments", UNCHANGED part, OeeInv, NEW r \in Requests, DeptWrite(r)
    PROVE  OeeInv'
<1>. PICK a : a = arg[r]
  OBVIOUS
<1>. PICK i : i = arg[r].row
  OBVIOUS
<1>1. DeptArg(pc[r], arg[r]) /\ depts \in Seq(DeptRow)
  BY DEF OeeInv, DeptInv, Rows
<1>2. a.row = arg[r].row /\ a.loaded = arg[r].loaded
  OBVIOUS
<1>3. i \in DOMAIN depts /\ depts[i] \in DeptRow
  BY <1>1 DEF DeptArg, DeptWrite
<1>4. UNCHANGED <<oee, irregular>>
  BY DEF DeptWrite
<1>5. CASE pc[r] = "rename" /\ depts' = [depts EXCEPT ![a.row].name = a.loaded]
           /\ Goto(r, "reread", a)
  <2>. PICK row : row = [depts[i] EXCEPT !.name = arg[r].loaded]
    OBVIOUS
  <2>1. row \in DeptRow
    BY <1>1, <1>3, <1>5 DEF DeptRow, DeptArg
  <2>2. depts' = [depts EXCEPT ![i] = row] /\ Moved(r, "reread", a)
    BY <1>2, <1>5, Moves
  <2>3. QED
    BY <1>3, <1>4, <2>1, <2>2, DeptColumnKeeps
<1>6. CASE pc[r] = "activate" /\ depts' = [depts EXCEPT ![a.row].active = a.loaded]
           /\ Goto(r, "reread", a)
  <2>. PICK row : row = [depts[i] EXCEPT !.active = arg[r].loaded]
    OBVIOUS
  <2>1. row \in DeptRow
    BY <1>1, <1>3, <1>6 DEF DeptRow, DeptArg
  <2>2. depts' = [depts EXCEPT ![i] = row] /\ Moved(r, "reread", a)
    BY <1>2, <1>6, Moves
  <2>3. QED
    BY <1>3, <1>4, <2>1, <2>2, DeptColumnKeeps
<1>7. CASE pc[r] = "delete" /\ depts' = [depts EXCEPT ![a.row].active = FALSE]
           /\ Goto(r, "evict", a)
  <2>. PICK row : row = [depts[i] EXCEPT !.active = FALSE]
    OBVIOUS
  <2>1. row \in DeptRow
    BY <1>3 DEF DeptRow
  <2>2. depts' = [depts EXCEPT ![i] = row] /\ Moved(r, "evict", a)
    BY <1>2, <1>7, Moves
  <2>3. QED
    BY <1>3, <1>4, <2>1, <2>2, DeptColumnKeeps
<1>8. QED
  BY <1>5, <1>6, <1>7 DEF DeptWrite

LEMMA DeptRequestKeeps ==
    ASSUME part = "departments", UNCHANGED part, OeeInv, NEW r \in Requests,
           DeptStep(r) \/ DeptRequest(r)
    PROVE  OeeInv'
<1>1. CASE Reread(r, TRUE) /\ UNCHANGED deptTables
  <2>1. Moved(r, "evict", arg[r])
    BY <1>1, Moves DEF Reread
  <2>2. QED
    BY <1>1, <2>1, PlainKeeps
<1>2. CASE DeptStep(r)
  BY <1>1, <1>2, DeptFiltersKeeps, DeptWriteKeeps, OeeCloseKeeps, OeeInsertKeeps,
     OeeArchiveKeeps DEF DeptStep
<1>3. ASSUME NEW n \in Names, DeptCreate(r, n)
      PROVE  OeeInv'
  BY <1>3, DeptCreateKeeps
<1>4. ASSUME NEW i \in DOMAIN depts,
             \/ \E n \in Names : DeptRead(r, i, "rename", n)
             \/ \E b \in BOOLEAN : DeptRead(r, i, "activate", b)
             \/ DeptRead(r, i, "delete", "")
      PROVE  OeeInv'
  BY <1>4, DeptReadKeeps
<1>5. ASSUME NEW i \in DOMAIN depts, NEW from \in Dates,
             OeeRead(r, i, from)
      PROVE  OeeInv'
  BY <1>5, OeeReadKeeps
<1>6. ASSUME NEW s \in DOMAIN oee, OeeArchiveRead(r, s)
      PROVE  OeeInv'
  BY <1>6, OeeArchiveReadKeeps
<1>7. QED
  BY <1>2, <1>3, <1>4, <1>5, <1>6 DEF DeptRequest

-------------------------------------------------------------------------------
\* The interceptor's own steps.

LEMMA CacheStepMoves ==
    ASSUME NEW r \in Requests, CacheStep(r)
    PROVE  \E label \in {"idle", "fill"} : \E a : Moved(r, label, a)
<1>1. ASSUME NEW v, Read(r, v)
      PROVE  \E label \in {"idle", "fill"} : \E a : Moved(r, label, a)
  BY <1>1, Moves DEF Read
<1>2. CASE Fill(r) \/ Evict(r)
  BY <1>2, Moves DEF Fill, Evict, Moved
<1>3. QED
  BY <1>1, <1>2 DEF CacheStep

LEMMA RestartKeeps ==
    ASSUME part = "departments", UNCHANGED <<part, deptTables>>, OeeInv, Restart
    PROVE  OeeInv'
<1>1. UNCHANGED <<depts, oee, irregular>>
  BY DEF deptTables
<1>2. /\ DOMAIN pc' = Requests /\ DOMAIN arg' = Requests
      /\ \A r \in Requests : pc'[r] = "idle"
  BY DEF Restart
<1>3. DeptInv'
  BY <1>1, <1>2 DEF OeeInv, DeptInv, Rows, DeptArg, OeeSteps
<1>4. \A i : InOrder(i) => InOrder(i)'
  BY <1>1 DEF InOrder, Follows, Kept
<1>5. \A i : \A r \in Requests : ~On(r, i)'
  BY <1>2 DEF On, OeeSteps
<1>6. \A i \in DOMAIN depts' \ irregular' : Regular(i)'
  BY <1>1, <1>4, <1>5 DEF OeeInv, Regular, OneAtATime
<1>7. QED
  BY <1>3, <1>6 DEF OeeInv

LEMMA OeeInterceptorKeeps ==
    ASSUME part = "departments", UNCHANGED part, OeeInv, Interceptor
    PROVE  OeeInv'
<1>1. UNCHANGED <<part, deptTables>>
  BY DEF Interceptor, tables
<1>2. CASE Tick
  <2>1. UNCHANGED <<depts, oee, irregular, pc, arg, part>>
    BY <1>1, <1>2 DEF Tick, deptTables
  <2>2. QED
    BY <2>1 DEF OeeInv, DeptInv, Rows, DeptArg, Regular, InOrder, Follows, Kept,
                OneAtATime, On, Prepared
<1>3. ASSUME NEW r \in Requests, Fail(r)
      PROVE  OeeInv'
  <2>1. Moved(r, "idle", NoArg)
    BY <1>3 DEF Fail, Moved
  <2>2. QED
    BY <1>1, <2>1, PlainKeeps
<1>4. ASSUME NEW r \in Requests, NEW k \in Keys, Get(r, k)
      PROVE  OeeInv'
  BY <1>1, <1>4, Moves, PlainKeeps DEF Get
<1>5. CASE Restart
  BY <1>1, <1>5, RestartKeeps
<1>6. QED
  BY <1>2, <1>3, <1>4, <1>5 DEF Interceptor

LEMMA OeeInit == Init => OeeInv
<1>. SUFFICES ASSUME Init PROVE OeeInv
  OBVIOUS
<1>1. oee = <<>> /\ pc = [r \in Requests |-> "idle"] /\ arg = [r \in Requests |-> NoArg]
  BY DEF Init, DeptInit, CacheInit
<1>. PICK row : row = [name |-> CHOOSE n \in Names : TRUE, active |-> TRUE, filters |-> TRUE]
  OBVIOUS
<1>2. depts = <<row>>
  BY DEF Init, DeptInit
<1>3. (CHOOSE n \in Names : TRUE) \in Names
  BY DepartmentsAssumption
<1>4. row \in DeptRow
  BY <1>3 DEF DeptRow
<1>5. Rows
  <2>1. depts \in Seq(DeptRow)
    BY <1>2, <1>4
  <2>2. oee \in Seq(OeeRow) /\ DOMAIN oee = {}
    BY <1>1
  <2>3. QED
    BY <2>1, <2>2 DEF Rows
<1>6. \A r \in Requests : DeptArg(pc[r], arg[r])
  BY <1>1 DEF DeptArg, OeeSteps
<1>7. \A i : Regular(i)
  BY <1>1 DEF Regular, InOrder, OneAtATime, Kept, On, OeeSteps
<1>8. QED
  BY <1>1, <1>5, <1>6, <1>7 DEF OeeInv, DeptInv

LEMMA OeeNext ==
    ASSUME OeeInv, [Next]_vars
    PROVE  OeeInv'
<1>1. CASE part # "departments"
  <2>1. UNCHANGED part /\ UNCHANGED oee
    <3>1. CASE UNCHANGED vars
      BY <3>1 DEF vars, tables, deptTables
    <3>2. CASE Next
      <4>1. CASE Interceptor \/ \E r \in Requests : CacheStep(r)
        BY <3>2, <4>1 DEF Interceptor, CacheStep, tables, deptTables, Next
      <4>2. CASE \E r \in Requests : Request(r)
        BY <1>1, <3>2, <4>2 DEF Request, deptTables, Next
      <4>3. QED
        BY <3>2, <4>1, <4>2 DEF Next
    <3>3. QED
      BY <3>1, <3>2
  <2>2. QED
    BY <1>1, <2>1 DEF OeeInv
<1>2. CASE part = "departments"
  <2>1. CASE UNCHANGED vars
    <3>1. UNCHANGED <<depts, oee, irregular, pc, arg, part>>
      BY <2>1 DEF vars, tables, deptTables, requestVars
    <3>2. QED
      BY <3>1 DEF OeeInv, DeptInv, Rows, DeptArg, Regular, InOrder, Follows, Kept,
                  OneAtATime, On, Prepared
  <2>2. CASE Interceptor /\ UNCHANGED part
    BY <1>2, <2>2, OeeInterceptorKeeps
  <2>3. ASSUME NEW r \in Requests, CacheStep(r), UNCHANGED part
        PROVE  OeeInv'
    <3>1. UNCHANGED <<part, deptTables>>
      BY <2>3 DEF CacheStep, tables
    <3>2. PICK label \in {"idle", "fill"} : \E a : Moved(r, label, a)
      BY <2>3, CacheStepMoves
    <3>3. QED
      BY <1>2, <3>1, <3>2, PlainKeeps
  <2>4. ASSUME NEW r \in Requests, Request(r), UNCHANGED part
        PROVE  OeeInv'
    BY <1>2, <2>4, DeptRequestKeeps DEF Request
  <2>5. QED
    BY <1>2, <2>1, <2>2, <2>3, <2>4 DEF Next
<1>3. QED
  BY <1>1, <1>2

\* No two settings of a department that are not archived are in force on one day, for
\* any number of requests, departments, settings and dates, as long as a department's
\* settings are entered one at a time and in the order of their dates.
THEOREM SettingsFollowEachOther == Spec => []OneSettingInForce
<1>1. OeeInv => OneSettingInForce
  <2>. SUFFICES ASSUME OeeInv, NEW i \in DOMAIN depts \ irregular,
                       NEW s \in Kept(i), NEW t \in Kept(i), NEW day \in Dates,
                       InForce(s, day), InForce(t, day), s # t
                PROVE  FALSE
    BY DEF OneSettingInForce
  <2>1. part = "departments"
    BY DEF OeeInv, Kept
  <2>2. Rows /\ InOrder(i)
    BY <2>1 DEF OeeInv, DeptInv, Regular
  <2>3. oee[s] \in OeeRow /\ oee[t] \in OeeRow
    BY <2>2 DEF Kept, Rows
  <2>4. Dates \subseteq Nat /\ Dates \cup {Open} \subseteq Nat
    BY DepartmentsAssumption DEF Open
  <2>5. /\ oee[s].from \in Nat /\ oee[s].to \in Nat /\ oee[t].from \in Nat /\ oee[t].to \in Nat
        /\ day \in Nat
    BY <2>3, <2>4 DEF OeeRow
  <2>6. CASE oee[s].from < oee[t].from
    BY <2>2, <2>5, <2>6 DEF InOrder, Follows, InForce
  <2>7. CASE oee[t].from < oee[s].from
    BY <2>2, <2>5, <2>7 DEF InOrder, Follows, InForce
  <2>8. QED
    BY <2>2, <2>5, <2>6, <2>7 DEF InOrder
<1>2. QED
  BY <1>1, OeeInit, OeeNext, PTL DEF Spec

-------------------------------------------------------------------------------
(***************************************************************************)
(* The cache.  A request turns from one await to the next, and of what the *)
(* cache holds and what GETs have read, a step changes little: an answer   *)
(* that is stored was on its way before, and one that a GET has just read  *)
(* is what the database shows.                                             *)
(***************************************************************************)

One(S) == \E x \in S : S = {x}
UserRow == [profile : Profiles, prefs : Preferences]
OrderRow == [number : Numbers, closed : BOOLEAN, there : BOOLEAN]
SegmentRow == [order : OrderIds, start : Times, end : Times \cup {Never}, duration : Int,
               active : BOOLEAN]
ItemRow == [owner : Owners, label : Labels, flag : BOOLEAN, there : BOOLEAN]

UsersTyped ==
    /\ DOMAIN users = UserIds
    /\ \A u \in UserIds : users[u] \subseteq UserRow /\ (users[u] = {} \/ One(users[u]))
    /\ tangled \subseteq UserIds
TablesTyped == DeptOK /\ UsersTyped /\ SessionOK /\ OrderOK /\ CatalogueOK

\* What the requests of the other services work on.
UserArg(label, a) ==
    /\ label = "prefs" => a.row \in UserIds /\ a.loaded \in Preferences
    /\ label = "issue" => a.row \in UserIds /\ a.loaded \in Profiles /\ a.read \in 0..MaxTime
FloorArg(label, a) ==
    /\ label = "start" => a.loaded \in Numbers
    /\ label = "delete_order" => a.row \in DOMAIN orders
    /\ label \in {"patch", "end"} => a.row \in DOMAIN segments /\ a.other \in Times
    /\ label = "end" => a.loaded \in SegmentRow
Settable(f, v) ==
    \/ f = "label" /\ v \in Labels
    \/ f = "flag" /\ v \in BOOLEAN
CatalogueArg(label, a) ==
    /\ label = "plan" => a.loaded \in Labels /\ resource = "plans"
    /\ label \in {"setting", "save"} => a.row \in DOMAIN items
    /\ label = "setting" => Settable(a.other, a.loaded)
    /\ label = "save" => a.loaded \in ItemRow

\* A GET is about a key of the cache, and what it stores is one answer.
CacheArg(label, a) ==
    /\ {"key", "value", "read"} \subseteq DOMAIN a
    /\ label \in {"read", "fill"} => a.key \in Keys
    /\ label = "fill" => One(a.value)

ArgOK(label, a) ==
    DeptArg(label, a) /\ UserArg(label, a) /\ FloorArg(label, a) /\ CatalogueArg(label, a)
    /\ CacheArg(label, a)

Typed ==
    /\ DOMAIN pc = Requests /\ DOMAIN arg = Requests
    /\ part \in Parts
    /\ TablesTyped
    /\ \A r \in Requests : ArgOK(pc[r], arg[r])
    /\ ops \in 0..MaxOps /\ faults \in 0..MaxFaults /\ now \in 0..MaxTime
    /\ DOMAIN cache \subseteq Keys
    /\ \A k \in DOMAIN cache : One(cache[k].value)

\* An entry's life began when its answer was read, and the database has shown the answer
\* since then; so it has one that is on its way.
Timely(c, x) ==
    /\ c.delay \in 0..MaxTime /\ c.expires \in 0..(MaxTime + Ttl)
    /\ c.expires - Ttl - c.delay <= shown[x]
Timed ==
    /\ shown \in [Answers -> 0..now]
    /\ \A k \in DOMAIN cache : Timely(cache[k], <<k, cache[k].value>>)
    /\ \A r \in Requests : pc[r] = "fill" => arg[r].read \in 0..shown[<<arg[r].key, arg[r].value>>]

CacheInv == Typed /\ Timed

-------------------------------------------------------------------------------
\* What a step does to the answers.

\* An answer is stored by the GET that read it, and read when the database shows it.
Stays(k) == k \in DOMAIN cache /\ cache'[k] = cache[k]
Stores(r, k) == pc[r] = "fill" /\ arg[r].key = k /\ cache'[k] = Entry(arg[r])
Waits(r) == pc[r] = "fill" /\ arg'[r] = arg[r]
Finds(r, k, v) ==
    v \in Views(k)' /\ arg'[r].key = k /\ arg'[r].value = v /\ arg'[r].read = now'
Onward ==
    /\ now <= now'
    /\ \A k \in DOMAIN cache' : Stays(k) \/ \E r \in Requests : Stores(r, k)
    /\ \A r \in Requests : pc'[r] = "fill" => Waits(r) \/ \E k, v : Finds(r, k, v)

\* An answer that stays was last shown no earlier than before, and one that is new is
\* shown now.
LEMMA ShownOnward ==
    ASSUME shown \in [Answers -> 0..now], now \in Nat, now' \in Nat, now <= now', Show,
           NEW x \in Answers', x \in Answers \/ x[2] \in Views(x[1])'
    PROVE  /\ shown'[x] \in 0..now'
           /\ x \in Answers => shown[x] <= shown'[x]
           /\ x \notin Answers => shown'[x] = now'
<1>1. shown'[x] = IF x[2] \in Views(x[1])' THEN now' ELSE shown[x]
  BY DEF Show
<1>2. CASE x[2] \in Views(x[1])'
  BY <1>1, <1>2
<1>3. CASE ~(x[2] \in Views(x[1])')
  BY <1>1, <1>3
<1>4. QED
  BY <1>2, <1>3

LEMMA AnswersNamed ==
    /\ \A k \in DOMAIN cache : <<k, cache[k].value>> \in Answers
    /\ \A r \in Requests : pc[r] = "fill" => <<arg[r].key, arg[r].value>> \in Answers
    /\ \A x \in Answers :
          \/ \E k \in DOMAIN cache : x = <<k, cache[k].value>>
          \/ \E r \in Requests : pc[r] = "fill" /\ x = <<arg[r].key, arg[r].value>>
BY DEF Answers

\* A step that is onward keeps the times of all answers.
LEMMA AnswersStay ==
    ASSUME Typed, Timed, Typed', Onward, NEW x \in Answers'
    PROVE  x \in Answers \/ x[2] \in Views(x[1])'
<1>1. CASE \E k \in DOMAIN cache' : x = <<k, cache'[k].value>>
  <2>1. PICK k \in DOMAIN cache' : x = <<k, cache'[k].value>>
    BY <1>1
  <2>2. CASE Stays(k)
    BY <2>1, <2>2, AnswersNamed DEF Stays
  <2>3. ASSUME NEW r \in Requests, Stores(r, k)
        PROVE  x \in Answers
    <3>1. cache'[k].value = arg[r].value
      BY <2>3 DEF Stores, Entry
    <3>2. QED
      BY <2>1, <2>3, <3>1, AnswersNamed DEF Stores
  <2>4. QED
    BY <2>2, <2>3 DEF Onward
<1>2. CASE \E r \in Requests : pc'[r] = "fill" /\ x = <<arg'[r].key, arg'[r].value>>
  <2>1. PICK r \in Requests : pc'[r] = "fill" /\ x = <<arg'[r].key, arg'[r].value>>
    BY <1>2
  <2>2. CASE Waits(r)
    BY <2>1, <2>2, AnswersNamed DEF Waits
  <2>3. ASSUME NEW k, NEW v, Finds(r, k, v)
        PROVE  x[2] \in Views(x[1])'
    <3>1. x = <<k, v>> /\ v \in Views(k)'
      BY <2>1, <2>3 DEF Finds
    <3>2. x[1] = k /\ x[2] = v
      BY <3>1
    <3>3. QED
      BY <3>1, <3>2
  <2>4. QED
    BY <2>1, <2>2, <2>3 DEF Onward
<1>3. QED
  BY <1>1, <1>2 DEF Answers

LEMMA TimedStays ==
    ASSUME Typed, Timed, Typed', Onward, Show
    PROVE  Timed'
<1>1. now \in Nat /\ now' \in Nat /\ now <= now' /\ now' <= MaxTime
      /\ MaxTime \in Nat /\ Ttl \in Nat
  BY BoundsAssumption DEF Typed, Onward
<1>2. shown \in [Answers -> 0..now]
  BY DEF Timed
<1>3. ASSUME NEW x \in Answers'
      PROVE  /\ shown'[x] \in 0..now'
             /\ x \in Answers => shown[x] <= shown'[x]
             /\ x \in Answers => shown[x] \in 0..now
             /\ x \notin Answers => shown'[x] = now'
  BY <1>1, <1>2, AnswersStay, ShownOnward
<1>4. shown' \in [Answers' -> 0..now']
  BY <1>3 DEF Show
<1>5. ASSUME NEW k \in DOMAIN cache'
      PROVE  Timely(cache[k], <<k, cache[k].value>>)'
  <2>. PICK x : x = <<k, cache'[k].value>>
    OBVIOUS
  <2>. PICK c : c = cache'[k]
    OBVIOUS
  <2>1. x \in Answers'
    BY <1>5 DEF Answers
  <2>2. shown'[x] \in 0..now'
    BY <1>3, <2>1
  <2>3. CASE Stays(k)
    <3>1. k \in DOMAIN cache /\ cache[k] = c /\ x = <<k, cache[k].value>>
      BY <2>3 DEF Stays
    <3>2. x \in Answers
      BY <3>1, AnswersNamed
    <3>3. shown[x] <= shown'[x] /\ shown[x] \in 0..now
      BY <1>3, <2>1, <3>2
    <3>4. Timely(c, x)
      BY <3>1 DEF Timed
    <3>5. Timely(c, x)'
      BY <1>1, <2>2, <3>3, <3>4 DEF Timely
    <3>6. QED
      BY <3>5
  <2>4. ASSUME NEW r \in Requests, Stores(r, k)
        PROVE  Timely(c, x)'
    <3>1. /\ c.value = arg[r].value /\ c.delay = now - arg[r].read /\ c.expires = now + Ttl
          /\ pc[r] = "fill" /\ arg[r].key = k
      BY <2>4 DEF Stores, Entry
    <3>2. x = <<arg[r].key, arg[r].value>>
      BY <3>1
    <3>3. x \in Answers
      BY <3>1, <3>2, AnswersNamed
    <3>4. shown[x] <= shown'[x] /\ shown[x] \in 0..now
      BY <1>3, <2>1, <3>3
    <3>5. arg[r].read \in 0..shown[x]
      BY <3>1, <3>2 DEF Timed
    <3>6. arg[r].read \in Nat /\ arg[r].read <= now /\ arg[r].read <= shown'[x]
      BY <1>1, <2>2, <3>4, <3>5
    <3>7. c.delay \in 0..MaxTime /\ c.expires \in 0..(MaxTime + Ttl)
          /\ c.expires - Ttl - c.delay <= shown'[x]
      BY <1>1, <2>2, <3>1, <3>6
    <3>8. QED
      BY <3>7 DEF Timely
  <2>5. QED
    BY <2>3, <2>4 DEF Onward
<1>6. ASSUME NEW r \in Requests, pc'[r] = "fill"
      PROVE  arg'[r].read \in 0..shown'[<<arg'[r].key, arg'[r].value>>]
  <2>. PICK x : x = <<arg'[r].key, arg'[r].value>>
    OBVIOUS
  <2>1. x \in Answers'
    BY <1>6 DEF Answers
  <2>2. CASE Waits(r)
    <3>1. pc[r] = "fill" /\ arg'[r] = arg[r]
      BY <2>2 DEF Waits
    <3>2. x \in Answers /\ arg[r].read \in 0..shown[x]
      BY <3>1, AnswersNamed DEF Timed
    <3>3. shown[x] <= shown'[x] /\ shown[x] \in 0..now /\ shown'[x] \in 0..now'
      BY <1>3, <2>1, <3>2
    <3>4. arg[r].read \in 0..shown'[x]
      BY <1>1, <3>2, <3>3
    <3>5. QED
      BY <3>1, <3>4
  <2>3. ASSUME NEW k, NEW v, Finds(r, k, v)
        PROVE  arg'[r].read \in 0..shown'[x]
    <3>1. x = <<k, v>> /\ v \in Views(k)' /\ arg'[r].read = now'
      BY <2>3 DEF Finds
    <3>2. x[1] = k /\ x[2] = v
      BY <3>1
    <3>3. x[2] \in Views(x[1])'
      BY <3>1, <3>2
    <3>4. shown'[x] = now'
      BY <2>1, <3>3 DEF Show
    <3>5. QED
      BY <1>1, <3>1, <3>4
  <2>4. QED
    BY <1>6, <2>2, <2>3 DEF Onward
<1>7. QED
  BY <1>4, <1>5, <1>6 DEF Timed

\* What is served expires in time.
LEMMA TimedExpires == CacheInv => AnswersExpire
<1>. SUFFICES ASSUME CacheInv, NEW k \in DOMAIN cache, Served(k)
              PROVE  now - shown[<<k, cache[k].value>>] <= Ttl + cache[k].delay
  BY DEF AnswersExpire
<1>. PICK x : x = <<k, cache[k].value>>
  OBVIOUS
<1>1. Timely(cache[k], x) /\ shown[x] \in 0..now /\ now <= cache[k].expires
  BY AnswersNamed DEF CacheInv, Timed, Served
<1>2. now \in Nat /\ MaxTime \in Nat /\ Ttl \in Nat
  BY BoundsAssumption DEF CacheInv, Typed
<1>3. QED
  BY <1>1, <1>2 DEF Timely

-------------------------------------------------------------------------------
\* What the statement of a request does, in the terms of the invariant.

Turn(r, label, a) ==
    /\ DOMAIN pc' = Requests /\ DOMAIN arg' = Requests
    /\ \A q \in Requests :
          \/ q # r /\ pc'[q] = pc[q] /\ arg'[q] = arg[q]
          \/ q = r /\ pc'[q] = label /\ arg'[q] = a

\* Rows are only added, and only ever below the same catalogue.
Grows ==
    /\ part' = part /\ resource' = resource
    /\ DOMAIN depts \subseteq DOMAIN depts' /\ DOMAIN oee \subseteq DOMAIN oee'
    /\ \A s \in DOMAIN oee : oee'[s].dept = oee[s].dept
    /\ DOMAIN orders \subseteq DOMAIN orders' /\ DOMAIN segments \subseteq DOMAIN segments'
    /\ DOMAIN items \subseteq DOMAIN items'

\* The cache is not touched.
Aside == UNCHANGED <<cache, faults, now>> /\ ops' \in 0..MaxOps

Statement(r, label, a) ==
    /\ Turn(r, label, a) /\ label # "fill"
    /\ TablesTyped' /\ Grows /\ ArgOK(label, a)' /\ Aside

\* What is to be shown of every step.
Keeps == Typed' /\ Onward

LEMMA KeysGrow ==
    ASSUME Grows
    PROVE  Keys \subseteq Keys'
BY DEF Grows, Keys, DeptKeys, Dept, UserKeys, FloorKeys, Segment, Segments, CatalogueKeys, Its,
       Item

LEMMA ArgsStay ==
    ASSUME Grows, NEW label, NEW a, ArgOK(label, a)
    PROVE  ArgOK(label, a)'
<1>1. DeptArg(label, a)'
  BY DEF Grows, ArgOK, DeptArg
<1>2. UserArg(label, a)' /\ FloorArg(label, a)'
  BY DEF Grows, ArgOK, UserArg, FloorArg
<1>3. CatalogueArg(label, a)'
  BY DEF Grows, ArgOK, CatalogueArg
<1>4. CacheArg(label, a)'
  BY KeysGrow DEF ArgOK, CacheArg
<1>5. QED
  BY <1>1, <1>2, <1>3, <1>4 DEF ArgOK

\* A request turns while the tables grow, and the others' arguments keep their types.
LEMMA TurnTyped ==
    ASSUME Typed, Grows, TablesTyped',
           NEW r \in Requests, NEW label, NEW a, Turn(r, label, a), ArgOK(label, a)',
           ops' \in 0..MaxOps, faults' \in 0..MaxFaults, now' = now,
           DOMAIN cache' \subseteq Keys, \A k \in DOMAIN cache' : One(cache'[k].value)
    PROVE  Typed'
<1>1. ASSUME NEW q \in Requests
      PROVE  ArgOK(pc[q], arg[q])'
  <2>1. CASE q = r /\ pc'[q] = label /\ arg'[q] = a
    BY <2>1
  <2>2. CASE pc'[q] = pc[q] /\ arg'[q] = arg[q]
    <3>1. ArgOK(pc[q], arg[q])
      BY DEF Typed
    <3>2. QED
      BY <2>2, <3>1, ArgsStay
  <2>3. QED
    BY <2>1, <2>2 DEF Turn
<1>2. part' \in Parts
  BY DEF Typed, Grows, Parts
<1>3. DOMAIN cache' \subseteq Keys'
  BY KeysGrow
<1>4. QED
  BY <1>1, <1>2, <1>3 DEF Typed, Turn

LEMMA StatementKeeps ==
    ASSUME Typed, NEW r \in Requests, NEW label, NEW a, Statement(r, label, a)
    PROVE  Keeps
<1>1. /\ Turn(r, label, a) /\ label # "fill" /\ TablesTyped' /\ Grows /\ ArgOK(label, a)'
      /\ UNCHANGED <<cache, faults, now>> /\ ops' \in 0..MaxOps
  BY DEF Statement, Aside
<1>2. Typed'
  BY <1>1, TurnTyped DEF Typed
<1>3. now <= now'
  BY <1>1 DEF Typed
<1>4. \A k \in DOMAIN cache' : Stays(k)
  BY <1>1 DEF Stays
<1>5. \A q \in Requests : pc'[q] = "fill" => Waits(q)
  BY <1>1 DEF Turn, Waits
<1>6. QED
  BY <1>2, <1>3, <1>4, <1>5 DEF Keeps, Onward

-------------------------------------------------------------------------------
\* The steps of the interceptor, which leave the tables as they are.

LEMMA SameTables ==
    ASSUME UNCHANGED <<tables, part>>
    PROVE  /\ Grows /\ Keys' = Keys /\ \A k : Views(k)' = Views(k)
           /\ TablesTyped => TablesTyped'
<1>1. UNCHANGED <<depts, oee, irregular, users, tangled, tokens, held, orders, segments,
                  rivals, resource, items, mixed, part>>
  BY DEF tables, deptTables, userTables, sessionTables, floorTables, catalogueTables
<1>2. Grows
  BY <1>1 DEF Grows
<1>3. Keys' = Keys
  BY <1>1 DEF Keys, DeptKeys, UserKeys, FloorKeys, CatalogueKeys, Its
<1>4. \A k : Views(k)' = Views(k)
  BY <1>1 DEF Views, DeptView, UserViews, FloorView, CatalogueViews, Profile, SegmentsOf, Present,
              List, ActiveOf, Its
<1>5. TablesTyped => TablesTyped'
  BY <1>1 DEF TablesTyped, DeptOK, UsersTyped, SessionOK, OrderOK, CatalogueOK
<1>6. QED
  BY <1>2, <1>3, <1>4, <1>5

\* What a request is left with that has to remember nothing.
LEMMA DoneArg == ArgOK("idle", NoArg)'
BY DEF ArgOK, DeptArg, UserArg, FloorArg, CatalogueArg, CacheArg, NoArg, OeeSteps

LEMMA MovedTurns ==
    ASSUME Typed, NEW r \in Requests, NEW label, NEW a, Moved(r, label, a)
    PROVE  Turn(r, label, a)
BY MovesAlone DEF Typed, Turn

\* How a request moves without touching the cache.
LEMMA MovesAside ==
    ASSUME Typed, NEW r \in Requests, NEW label, NEW a, Begin(r, label, a) \/ Goto(r, label, a)
    PROVE  Moved(r, label, a) /\ Turn(r, label, a) /\ Aside
<1>1. CASE Begin(r, label, a)
  <2>1. UNCHANGED <<cache, faults, now>> /\ ops < MaxOps /\ ops' = ops + 1
    BY <1>1 DEF Begin, Enter
  <2>2. ops' \in 0..MaxOps
    BY <2>1, BoundsAssumption DEF Typed
  <2>3. QED
    BY <1>1, <2>1, <2>2, Moves, MovedTurns DEF Aside
<1>2. CASE Goto(r, label, a)
  <2>1. UNCHANGED <<cache, faults, now, ops>>
    BY <1>2 DEF Goto
  <2>2. QED
    BY <1>2, <2>1, Moves, MovedTurns DEF Aside, Typed
<1>3. QED
  BY <1>1, <1>2

LEMMA EndsAside ==
    ASSUME Typed, NEW r \in Requests, Finish(r)
    PROVE  Moved(r, "idle", NoArg) /\ Turn(r, "idle", NoArg) /\ Aside
BY MovesAside DEF Finish

\* A request goes on without writing.
LEMMA GoesOn ==
    ASSUME Typed, UNCHANGED <<tables, part>>,
           NEW r \in Requests, NEW label, NEW a, Begin(r, label, a) \/ Goto(r, label, a),
           label # "fill", ArgOK(label, a)'
    PROVE  Keeps
<1>1. Grows /\ TablesTyped'
  BY SameTables DEF Typed
<1>2. Statement(r, label, a)
  BY <1>1, MovesAside DEF Statement
<1>3. QED
  BY <1>2, StatementKeeps

LEMMA EndKeeps ==
    ASSUME Typed, UNCHANGED <<tables, part>>, NEW r \in Requests, Finish(r)
    PROVE  Keeps
BY GoesOn, DoneArg DEF Finish

LEMMA GetKeeps ==
    ASSUME Typed, UNCHANGED <<tables, part>>, NEW r \in Requests, NEW k \in Keys, Get(r, k)
    PROVE  Keeps
<1>. PICK a : a = [NoArg EXCEPT !.key = k]
  OBVIOUS
<1>1. a.key = k /\ {"key", "value", "read"} \subseteq DOMAIN a
  BY DEF NoArg
<1>2. Keys' = Keys /\ Grows /\ TablesTyped'
  BY SameTables DEF Typed
<1>3. ArgOK("read", a)'
  BY <1>1, <1>2 DEF ArgOK, DeptArg, UserArg, FloorArg, CatalogueArg, CacheArg, OeeSteps
<1>4. Enter(r, "read", a) /\ cache' = [j \in DOMAIN cache \ {k} |-> cache[j]]
  BY DEF Get
<1>5. Moved(r, "read", a) /\ ops < MaxOps /\ ops' = ops + 1 /\ UNCHANGED <<faults, now>>
  BY <1>4, Moves DEF Enter
<1>6. Turn(r, "read", a) /\ ops' \in 0..MaxOps
  BY <1>5, MovedTurns, BoundsAssumption DEF Typed
<1>7. \A j \in DOMAIN cache' : Stays(j)
  BY <1>4 DEF Stays
<1>8. DOMAIN cache' \subseteq Keys /\ \A j \in DOMAIN cache' : One(cache'[j].value)
  BY <1>7 DEF Stays, Typed
<1>9. Typed'
  BY <1>2, <1>3, <1>5, <1>6, <1>8, TurnTyped DEF Typed
<1>10. \A q \in Requests : pc'[q] = "fill" => Waits(q)
  BY <1>6 DEF Turn, Waits
<1>11. now <= now'
  BY <1>5 DEF Typed
<1>12. QED
  BY <1>7, <1>9, <1>10, <1>11 DEF Keeps, Onward

\* What a read has found is what the database shows.
LEMMA ReadKeeps ==
    ASSUME Typed, UNCHANGED <<tables, part>>, NEW r \in Requests, pc[r] = "read",
           NEW v \in Views(arg[r].key), v = {} \/ One(v), Read(r, v)
    PROVE  Keeps
<1>1. ArgOK("read", arg[r])
  BY DEF Typed
<1>2. CASE v = {}
  BY <1>2, EndKeeps DEF Read
<1>3. CASE v # {}
  <2>. PICK k : k = arg[r].key
    OBVIOUS
  <2>. PICK t : t = now
    OBVIOUS
  <2>. PICK a : a = [arg[r] EXCEPT !.value = v, !.read = t]
    OBVIOUS
  <2>1. Goto(r, "fill", a)
    BY <1>3 DEF Read
  <2>2. /\ a.key = k /\ a.value = v /\ a.read = t /\ {"key", "value", "read"} \subseteq DOMAIN a
        /\ k \in Keys
    BY <1>1 DEF ArgOK, CacheArg
  <2>3. Keys' = Keys /\ Grows /\ TablesTyped' /\ v \in Views(k)'
    BY SameTables DEF Typed
  <2>4. ArgOK("fill", a)'
    BY <1>3, <2>2, <2>3 DEF ArgOK, DeptArg, UserArg, FloorArg, CatalogueArg, CacheArg, OeeSteps
  <2>5. Turn(r, "fill", a) /\ Aside
    BY <2>1, MovesAside
  <2>6. UNCHANGED <<cache, faults, now>> /\ ops' \in 0..MaxOps
    BY <2>5 DEF Aside
  <2>7. Typed'
    BY <2>3, <2>4, <2>5, <2>6, TurnTyped DEF Typed
  <2>8. \A j \in DOMAIN cache' : Stays(j)
    BY <2>6 DEF Stays
  <2>9. ASSUME NEW q \in Requests, pc'[q] = "fill"
        PROVE  Waits(q) \/ \E j, u : Finds(q, j, u)
    <3>1. CASE q = r
      <4>1. Finds(q, k, v)
        BY <2>2, <2>3, <2>5, <2>6, <3>1 DEF Finds, Turn
      <4>2. QED
        BY <4>1
    <3>2. CASE q # r
      BY <2>5, <2>9, <3>2 DEF Turn, Waits
    <3>3. QED
      BY <3>1, <3>2
  <2>10. now <= now'
    BY <2>6 DEF Typed
  <2>11. QED
    BY <2>7, <2>8, <2>9, <2>10 DEF Keeps, Onward
<1>4. QED
  BY <1>2, <1>3

LEMMA FillKeeps ==
    ASSUME Typed, UNCHANGED <<tables, part>>, NEW r \in Requests, Fill(r)
    PROVE  Keeps
<1>. PICK key : key = arg[r].key
  OBVIOUS
<1>1. pc[r] = "fill" /\ UNCHANGED <<ops, faults, now>> /\ Moved(r, "idle", NoArg)
  BY DEF Fill, Moved
<1>2. /\ DOMAIN cache' = DOMAIN cache \cup {key}
      /\ cache'[key] = Entry(arg[r])
      /\ \A k \in DOMAIN cache \ {key} : cache'[k] = cache[k]
  BY DEF Fill
<1>3. key \in Keys /\ One(arg[r].value)
  BY <1>1 DEF Typed, ArgOK, CacheArg
<1>4. Turn(r, "idle", NoArg)
  BY <1>1, MovedTurns
<1>5. ASSUME NEW k \in DOMAIN cache'
      PROVE  Stays(k) \/ Stores(r, k)
  BY <1>1, <1>2 DEF Stays, Stores
<1>6. DOMAIN cache' \subseteq Keys /\ \A k \in DOMAIN cache' : One(cache'[k].value)
  <2>1. Entry(arg[r]).value = arg[r].value
    BY DEF Entry
  <2>2. QED
    BY <1>2, <1>3, <2>1 DEF Typed
<1>7. Grows /\ TablesTyped'
  BY SameTables DEF Typed
<1>8. Typed'
  BY <1>1, <1>4, <1>6, <1>7, DoneArg, TurnTyped DEF Typed
<1>9. \A q \in Requests : pc'[q] = "fill" => Waits(q)
  BY <1>4 DEF Turn, Waits
<1>10. now <= now'
  BY <1>1 DEF Typed
<1>11. QED
  BY <1>5, <1>8, <1>9, <1>10 DEF Keeps, Onward

LEMMA RereadKeeps ==
    ASSUME Typed, UNCHANGED <<tables, part>>, NEW r \in Requests, NEW exists \in BOOLEAN,
           Reread(r, exists)
    PROVE  Keeps
<1>1. CASE exists
  <2>. PICK a : a = arg[r]
    OBVIOUS
  <2>1. ArgOK("reread", a)
    BY DEF Reread, Typed
  <2>2. ArgOK("evict", a)
    BY <2>1 DEF ArgOK, DeptArg, UserArg, FloorArg, CatalogueArg, CacheArg, OeeSteps
  <2>3. ArgOK("evict", a)'
    BY <2>2, SameTables, ArgsStay
  <2>4. QED
    BY <1>1, <2>3, GoesOn DEF Reread
<1>2. CASE ~exists
  BY <1>2, EndKeeps DEF Reread
<1>3. QED
  BY <1>1, <1>2

\* Time passes, for whoever waits.
LEMMA TickKeeps ==
    ASSUME Typed, UNCHANGED <<tables, part>>, Tick
    PROVE  Keeps
<1>1. now < MaxTime /\ now' = now + 1 /\ UNCHANGED <<cache, pc, arg, ops, faults>>
  BY DEF Tick
<1>2. Keys' = Keys /\ Grows /\ TablesTyped'
  BY SameTables DEF Typed
<1>3. ASSUME NEW q \in Requests
      PROVE  ArgOK(pc[q], arg[q])'
  <2>1. ArgOK(pc[q], arg[q])
    BY DEF Typed
  <2>2. QED
    BY <1>1, <1>2, <2>1, ArgsStay
<1>4. now' \in 0..MaxTime /\ now <= now'
  BY <1>1, BoundsAssumption DEF Typed
<1>5. Typed'
  BY <1>1, <1>2, <1>3, <1>4 DEF Typed
<1>6. QED
  BY <1>1, <1>4, <1>5 DEF Keeps, Onward, Stays, Waits

LEMMA CacheInterceptorKeeps ==
    ASSUME Typed, UNCHANGED part, Interceptor
    PROVE  Keeps
<1>1. UNCHANGED <<tables, part>>
  BY DEF Interceptor
<1>2. ASSUME NEW r \in Requests, Fail(r)
      PROVE  Keeps
  <2>1. /\ Moved(r, "idle", NoArg) /\ UNCHANGED <<cache, ops, now>>
        /\ faults < MaxFaults /\ faults' = faults + 1
    BY <1>2 DEF Fail, Moved
  <2>2. faults' \in 0..MaxFaults /\ now <= now'
    BY <2>1, BoundsAssumption DEF Typed
  <2>3. Turn(r, "idle", NoArg) /\ Grows /\ TablesTyped'
    BY <1>1, <2>1, MovedTurns, SameTables DEF Typed
  <2>4. Typed'
    BY <2>1, <2>2, <2>3, DoneArg, TurnTyped DEF Typed
  <2>5. \A q \in Requests : pc'[q] = "fill" => Waits(q)
    BY <2>3 DEF Turn, Waits
  <2>6. QED
    BY <2>1, <2>2, <2>4, <2>5 DEF Keeps, Onward, Stays
<1>3. ASSUME NEW r \in Requests, NEW k \in Keys, Get(r, k)
      PROVE  Keeps
  BY <1>1, <1>3, GetKeeps
<1>4. CASE Restart
  <2>1. /\ faults < MaxFaults /\ faults' = faults + 1 /\ UNCHANGED <<ops, now>>
        /\ cache' = <<>>
        /\ pc' = [r \in Requests |-> "idle"] /\ arg' = [r \in Requests |-> NoArg]
    BY <1>4 DEF Restart
  <2>2. faults' \in 0..MaxFaults /\ now <= now'
    BY <2>1, BoundsAssumption DEF Typed
  <2>3. DOMAIN cache' = {}
    BY <2>1
  <2>4. \A r \in Requests : ArgOK(pc[r], arg[r])'
    BY <2>1, DoneArg
  <2>5. Typed'
    BY <1>1, <2>1, <2>2, <2>3, <2>4, SameTables DEF Typed
  <2>6. QED
    BY <2>1, <2>2, <2>3, <2>5 DEF Keeps, Onward
<1>5. CASE Tick
  BY <1>1, <1>5, TickKeeps
<1>6. QED
  BY <1>2, <1>3, <1>4, <1>5 DEF Interceptor

-------------------------------------------------------------------------------
\* The departments.

DeptLabels == {"filters", "rename", "activate", "delete", "reread", "evict"} \cup OeeSteps
DeptRest == UNCHANGED <<part, userTables, sessionTables, floorTables, catalogueTables>>
RouteArg(a) == {"key", "value", "read"} \subseteq DOMAIN a

\* What a statement about departments must show.
LEMMA DeptStatementKeeps ==
    ASSUME Typed, OeeInv, OeeInv', part = "departments", DeptRest,
           irregular' \subseteq DOMAIN depts', DOMAIN depts \subseteq DOMAIN depts',
           DOMAIN oee \subseteq DOMAIN oee', \A s \in DOMAIN oee : oee'[s].dept = oee[s].dept,
           NEW r \in Requests, NEW label \in DeptLabels, NEW a, RouteArg(a),
           Begin(r, label, a) \/ Goto(r, label, a)
    PROVE  Keeps
<1>1. Turn(r, label, a) /\ Aside
  BY MovesAside
<1>2. /\ label # "fill" /\ UserArg(label, a)' /\ FloorArg(label, a)' /\ CatalogueArg(label, a)'
      /\ CacheArg(label, a)'
  BY DEF DeptLabels, OeeSteps, UserArg, FloorArg, CatalogueArg, CacheArg, RouteArg
<1>3. DeptInv'
  BY DEF OeeInv, DeptRest
<1>4. DeptArg(label, a)'
  <2>1. pc'[r] = label /\ arg'[r] = a
    BY <1>1 DEF Turn
  <2>2. DeptArg(pc[r], arg[r])'
    BY <1>3 DEF DeptInv
  <2>3. QED
    BY <2>1, <2>2
<1>5. UNCHANGED <<users, tangled, tokens, held, orders, segments, rivals, resource, items,
                  mixed, part>>
  BY DEF DeptRest, userTables, sessionTables, floorTables, catalogueTables
<1>6. Grows
  BY <1>5 DEF Grows
<1>7. TablesTyped'
  <2>1. DeptOK'
    BY <1>3 DEF DeptInv, Rows, DeptOK, DeptRow, OeeRow
  <2>2. UsersTyped' /\ SessionOK' /\ OrderOK' /\ CatalogueOK'
    BY <1>5 DEF Typed, TablesTyped, UsersTyped, SessionOK, OrderOK, CatalogueOK
  <2>3. QED
    BY <2>1, <2>2 DEF TablesTyped
<1>8. Statement(r, label, a)
  BY <1>1, <1>2, <1>4, <1>6, <1>7 DEF Statement, ArgOK
<1>9. QED
  BY <1>8, StatementKeeps

LEMMA CacheOeeReadKeeps ==
    ASSUME Typed, OeeInv, OeeInv', part = "departments", DeptRest, NEW r \in Requests,
           NEW i \in DOMAIN depts, NEW from \in Dates, OeeRead(r, i, from)
    PROVE  Keeps
<1>1. UNCHANGED <<depts, oee>> /\ irregular' \subseteq DOMAIN depts
  BY DEF OeeRead, Typed, TablesTyped, DeptOK
<1>. DEFINE b == [Route({Dept(i)}) EXCEPT !.other = i, !.loaded = <<from>>]
<1>2. CASE CurrentSettings(i) = {}
  <2>1. Begin(r, "insert", b)
    BY <1>2 DEF OeeRead
  <2>2. RouteArg(b) /\ "insert" \in DeptLabels
    BY DEF RouteArg, Route, NoArg, DeptLabels, OeeSteps
  <2>. HIDE DEF b
  <2>3. QED
    BY <1>1, <2>1, <2>2, DeptStatementKeeps
<1>3. CASE CurrentSettings(i) # {}
  <2>1. PICK s : Begin(r, "close", [b EXCEPT !.row = s,
                                             !.loaded = <<from, [oee[s] EXCEPT !.to = from]>>])
    BY <1>3 DEF OeeRead
  <2>. PICK loaded : loaded = <<from, [oee[s] EXCEPT !.to = from]>>
    OBVIOUS
  <2>. PICK a : a = [b EXCEPT !.row = s, !.loaded = loaded]
    OBVIOUS
  <2>2. Begin(r, "close", a)
    BY <2>1
  <2>3. RouteArg(a) /\ "close" \in DeptLabels
    BY DEF RouteArg, Route, NoArg, DeptLabels, OeeSteps
  <2>4. QED
    BY <1>1, <2>2, <2>3, DeptStatementKeeps
<1>4. QED
  BY <1>2, <1>3

LEMMA CacheOeeArchiveReadKeeps ==
    ASSUME Typed, OeeInv, OeeInv', part = "departments", DeptRest, NEW r \in Requests,
           NEW s \in DOMAIN oee, OeeArchiveRead(r, s)
    PROVE  Keeps
<1>. PICK i : i = oee[s].dept
  OBVIOUS
<1>1. i \in DOMAIN depts
  BY DEF Typed, TablesTyped, DeptOK
<1>2. UNCHANGED <<depts, oee>> /\ irregular' \subseteq DOMAIN depts
  BY <1>1 DEF OeeArchiveRead, Typed, TablesTyped, DeptOK
<1>. PICK a : a = [Route({Dept(i)}) EXCEPT !.row = s, !.other = i,
                                           !.loaded = [oee[s] EXCEPT !.archived = TRUE]]
  OBVIOUS
<1>3. Begin(r, "archive", a)
  BY DEF OeeArchiveRead
<1>4. RouteArg(a) /\ "archive" \in DeptLabels
  BY DEF RouteArg, Route, NoArg, DeptLabels, OeeSteps
<1>5. QED
  BY <1>2, <1>3, <1>4, DeptStatementKeeps

\* The statements that write settings.
LEMMA CacheOeeWriteKeeps ==
    ASSUME Typed, OeeInv, OeeInv', part = "departments", DeptRest, NEW r \in Requests,
           OeeClose(r) \/ OeeInsert(r) \/ OeeArchive(r)
    PROVE  Keeps
<1>. PICK a : a = arg[r]
  OBVIOUS
<1>1. ArgOK(pc[r], a)
  BY DEF Typed
<1>2. UNCHANGED <<depts, irregular>>
  BY DEF OeeClose, OeeInsert, OeeArchive
<1>3. PICK label \in {"insert", "evict"} : Goto(r, label, a)
  BY DEF OeeClose, OeeInsert, OeeArchive
<1>4. RouteArg(a) /\ label \in DeptLabels
  BY <1>1 DEF ArgOK, CacheArg, RouteArg, OeeSteps, DeptLabels
<1>5. oee \in Seq(OeeRow)
  BY DEF Typed, TablesTyped, DeptOK, OeeRow
<1>6. /\ DOMAIN oee \subseteq DOMAIN oee'
      /\ \A s \in DOMAIN oee : oee'[s].dept = oee[s].dept
  <2>1. CASE OeeClose(r)
    <3>1. DeptArg("close", a)
      BY <1>1, <2>1 DEF ArgOK, OeeClose
    <3>2. QED
      BY <1>5, <2>1, <3>1 DEF DeptArg, OeeClose
  <2>2. CASE OeeInsert(r)
    <3>. PICK row : row = [dept |-> arg[r].other, from |-> arg[r].loaded[1], to |-> Open,
                           archived |-> FALSE]
      OBVIOUS
    <3>1. DeptArg("insert", a) /\ DeptOK
      BY <1>1, <2>2 DEF ArgOK, OeeInsert, Typed, TablesTyped
    <3>2. row \in OeeRow
      BY <3>1 DEF DeptArg, OeeRow, OeeSteps, DeptOK
    <3>3. oee' = Append(oee, row)
      BY <2>2 DEF OeeInsert
    <3>4. Len(oee) \in Nat /\ DOMAIN oee' = 1..(Len(oee) + 1) /\ DOMAIN oee = 1..Len(oee)
          /\ \A s \in 1..Len(oee) : oee'[s] = oee[s]
      BY <1>5, <3>2, <3>3
    <3>5. QED
      BY <3>4
  <2>3. CASE OeeArchive(r)
    <3>1. DeptArg("archive", a)
      BY <1>1, <2>3 DEF ArgOK, OeeArchive
    <3>2. QED
      BY <1>5, <2>3, <3>1 DEF DeptArg, OeeArchive
  <2>4. QED
    BY <2>1, <2>2, <2>3
<1>7. irregular' \subseteq DOMAIN depts'
  BY <1>2 DEF Typed, TablesTyped, DeptOK
<1>8. QED
  BY <1>2, <1>3, <1>4, <1>6, <1>7, DeptStatementKeeps

LEMMA CacheDeptCreateKeeps ==
    ASSUME Typed, OeeInv, OeeInv', part = "departments", DeptRest, NEW r \in Requests,
           NEW name \in Names, DeptCreate(r, name)
    PROVE  Keeps
<1>. PICK i : i = Len(depts) + 1
  OBVIOUS
<1>. PICK a : a = [Route({AllDepts}) EXCEPT !.row = i]
  OBVIOUS
<1>1. /\ Begin(r, "filters", a) /\ UNCHANGED <<oee, irregular>>
      /\ depts' = Append(depts, [name |-> name, active |-> TRUE, filters |-> FALSE])
  BY DEF DeptCreate
<1>2. depts \in Seq(DeptRow) /\ [name |-> name, active |-> TRUE, filters |-> FALSE] \in DeptRow
  BY DEF Typed, TablesTyped, DeptOK, DeptRow
<1>3. Len(depts) \in Nat /\ DOMAIN depts' = 1..(Len(depts) + 1) /\ DOMAIN depts = 1..Len(depts)
  BY <1>1, <1>2
<1>4. DOMAIN depts \subseteq DOMAIN depts'
  BY <1>3
<1>5. RouteArg(a) /\ "filters" \in DeptLabels
  BY DEF RouteArg, Route, NoArg, DeptLabels
<1>6. irregular' \subseteq DOMAIN depts'
  BY <1>1, <1>4 DEF Typed, TablesTyped, DeptOK
<1>7. QED
  BY <1>1, <1>4, <1>5, <1>6, DeptStatementKeeps

\* The statements that write columns of a department.
LEMMA CacheDeptWriteKeeps ==
    ASSUME Typed, OeeInv, OeeInv', part = "departments", DeptRest, NEW r \in Requests,
           DeptFilters(r) \/ DeptWrite(r)
    PROVE  Keeps
<1>. PICK a : a = arg[r]
  OBVIOUS
<1>1. RouteArg(a)
  BY DEF Typed, ArgOK, CacheArg, RouteArg
<1>2. DOMAIN depts' = DOMAIN depts /\ UNCHANGED <<oee, irregular>>
  BY DEF DeptFilters, DeptWrite
<1>3. PICK label \in {"reread", "evict"} : Goto(r, label, a)
  BY DEF DeptFilters, DeptWrite
<1>4. irregular' \subseteq DOMAIN depts' /\ label \in DeptLabels
  BY <1>2 DEF Typed, TablesTyped, DeptOK, DeptLabels
<1>5. QED
  BY <1>1, <1>2, <1>3, <1>4, DeptStatementKeeps

LEMMA CacheDeptReadKeeps ==
    ASSUME Typed, OeeInv, OeeInv', part = "departments", DeptRest, NEW r \in Requests,
           NEW i \in DOMAIN depts, NEW label \in {"rename", "activate", "delete"}, NEW v,
           DeptRead(r, i, label, v)
    PROVE  Keeps
<1>. PICK a : a = [Route({AllDepts, Dept(i)}) EXCEPT !.row = i, !.loaded = v]
  OBVIOUS
<1>1. Begin(r, label, a) /\ UNCHANGED <<depts, oee, irregular>>
  BY DEF DeptRead, deptTables
<1>2. RouteArg(a) /\ label \in DeptLabels
  BY DEF RouteArg, Route, NoArg, DeptLabels
<1>3. irregular' \subseteq DOMAIN depts'
  BY <1>1 DEF Typed, TablesTyped, DeptOK
<1>4. QED
  BY <1>1, <1>2, <1>3, DeptStatementKeeps

LEMMA CacheDeptRequestKeeps ==
    ASSUME Typed, OeeInv, OeeInv', part = "departments", NEW r \in Requests,
           UNCHANGED <<part, userTables, sessionTables, floorTables, catalogueTables,
                       referenceTables>>,
           DeptStep(r) \/ DeptRequest(r)
    PROVE  Keeps
<1>. DeptRest
  BY DEF DeptRest
<1>1. CASE Reread(r, TRUE) /\ UNCHANGED deptTables
  BY <1>1, RereadKeeps DEF tables
<1>2. CASE DeptStep(r)
  BY <1>1, <1>2, CacheDeptWriteKeeps, CacheOeeWriteKeeps DEF DeptStep
<1>3. ASSUME NEW n \in Names, DeptCreate(r, n)
      PROVE  Keeps
  BY <1>3, CacheDeptCreateKeeps
<1>4. ASSUME NEW i \in DOMAIN depts,
             \/ \E n \in Names : DeptRead(r, i, "rename", n)
             \/ \E b \in BOOLEAN : DeptRead(r, i, "activate", b)
             \/ DeptRead(r, i, "delete", "")
      PROVE  Keeps
  BY <1>4, CacheDeptReadKeeps
<1>5. ASSUME NEW i \in DOMAIN depts, NEW from \in Dates, OeeRead(r, i, from)
      PROVE  Keeps
  BY <1>5, CacheOeeReadKeeps
<1>6. ASSUME NEW s \in DOMAIN oee, OeeArchiveRead(r, s)
      PROVE  Keeps
  BY <1>6, CacheOeeArchiveReadKeeps
<1>7. QED
  BY <1>2, <1>3, <1>4, <1>5, <1>6 DEF DeptRequest

-------------------------------------------------------------------------------
\* The users, and their sessions.

UserLabels == {"prefs", "issue", "reread", "evict", "idle"}
UserParts == part \in {"users", "sessions"}
UserRest == UNCHANGED <<part, deptTables, floorTables, catalogueTables>>

\* What a statement about users must show.
LEMMA UserStatementKeeps ==
    ASSUME Typed, UserParts, UserRest, UsersTyped', SessionOK',
           NEW r \in Requests, NEW label \in UserLabels, NEW a, RouteArg(a), UserArg(label, a),
           Begin(r, label, a) \/ Goto(r, label, a)
    PROVE  Keeps
<1>1. Turn(r, label, a) /\ Aside
  BY MovesAside
<1>2. label # "fill" /\ DeptArg(label, a)' /\ FloorArg(label, a)' /\ CatalogueArg(label, a)'
  BY DEF UserLabels, OeeSteps, DeptArg, FloorArg, CatalogueArg
<1>3. UserArg(label, a)' /\ CacheArg(label, a)'
  BY DEF UserArg, CacheArg, RouteArg, UserLabels
<1>4. UNCHANGED <<depts, oee, irregular, orders, segments, rivals, resource, items, mixed, part>>
  BY DEF UserRest, deptTables, floorTables, catalogueTables
<1>5. Grows
  BY <1>4 DEF Grows
<1>6. TablesTyped'
  <2>1. DeptOK' /\ OrderOK' /\ CatalogueOK'
    BY <1>4 DEF Typed, TablesTyped, DeptOK, OrderOK, CatalogueOK
  <2>2. QED
    BY <2>1 DEF TablesTyped
<1>7. Statement(r, label, a)
  BY <1>1, <1>2, <1>3, <1>5, <1>6 DEF Statement, ArgOK
<1>8. QED
  BY <1>7, StatementKeeps

\* What is done to the one row that there may be.
LEMMA RowsOfUser ==
    ASSUME UsersTyped, NEW u \in UserIds, NEW row \in SUBSET UserRow, row = {} \/ One(row),
           users' = [users EXCEPT ![u] = row], tangled' = tangled
    PROVE  UsersTyped'
BY DEF UsersTyped

LEMMA ProfileSet ==
    ASSUME UsersTyped, NEW u \in UserIds, NEW p \in Profiles
    PROVE  LET row == {[x EXCEPT !.profile = p] : x \in users[u]}
           IN  row \subseteq UserRow /\ (row = {} \/ One(row))
<1>1. users[u] \subseteq UserRow /\ (users[u] = {} \/ One(users[u]))
  BY DEF UsersTyped
<1>2. ASSUME NEW x \in users[u]
      PROVE  [x EXCEPT !.profile = p] \in UserRow
  BY <1>1 DEF UserRow
<1>3. CASE users[u] = {}
  BY <1>3
<1>4. CASE One(users[u])
  <2>1. PICK x : users[u] = {x}
    BY <1>4 DEF One
  <2>2. {[y EXCEPT !.profile = p] : y \in users[u]} = {[x EXCEPT !.profile = p]}
    BY <2>1
  <2>3. QED
    BY <1>2, <2>2 DEF One
<1>5. QED
  BY <1>1, <1>3, <1>4

LEMMA PrefsSet ==
    ASSUME UsersTyped, NEW u \in UserIds, NEW prefs \in Preferences
    PROVE  LET row == {[x EXCEPT !.prefs = prefs] : x \in users[u]}
           IN  row \subseteq UserRow /\ (row = {} \/ One(row))
<1>1. users[u] \subseteq UserRow /\ (users[u] = {} \/ One(users[u]))
  BY DEF UsersTyped
<1>2. ASSUME NEW x \in users[u]
      PROVE  [x EXCEPT !.prefs = prefs] \in UserRow
  BY <1>1 DEF UserRow
<1>3. CASE users[u] = {}
  BY <1>3
<1>4. CASE One(users[u])
  <2>1. PICK x : users[u] = {x}
    BY <1>4 DEF One
  <2>2. {[y EXCEPT !.prefs = prefs] : y \in users[u]} = {[x EXCEPT !.prefs = prefs]}
    BY <2>1
  <2>3. QED
    BY <1>2, <2>2 DEF One
<1>5. QED
  BY <1>1, <1>3, <1>4

\* PATCH and DELETE of a user, which write first.
LEMMA UserWriteKeeps ==
    ASSUME Typed, UserParts, UserRest, SessionOK', NEW r \in Requests, NEW u \in UserIds,
           UserRemove(r, u) \/ \E p \in Profiles : UserUpdate(r, u, p)
    PROVE  Keeps
<1>. PICK a : a = [Route({AllUsers, UserKey(u)}) EXCEPT !.row = u]
  OBVIOUS
<1>1. UsersTyped
  BY DEF Typed, TablesTyped
<1>2. PICK row \in SUBSET UserRow, label \in {"evict", "reread"} :
         /\ row = {} \/ One(row)
         /\ users' = [users EXCEPT ![u] = row]
         /\ Begin(r, label, a) /\ UNCHANGED tangled
  <2>1. CASE UserRemove(r, u)
    BY <2>1 DEF UserRemove
  <2>2. ASSUME NEW p \in Profiles, UserUpdate(r, u, p)
        PROVE  \E row \in SUBSET UserRow, label \in {"evict", "reread"} :
                  /\ row = {} \/ One(row)
                  /\ users' = [users EXCEPT ![u] = row]
                  /\ Begin(r, label, a) /\ UNCHANGED tangled
    <3>. DEFINE row == {[x EXCEPT !.profile = p] : x \in users[u]}
    <3>1. users' = [users EXCEPT ![u] = row]
      BY <2>2 DEF UserUpdate, With
    <3>2. Begin(r, "reread", a) /\ UNCHANGED tangled
      BY <2>2 DEF UserUpdate
    <3>3. row \in SUBSET UserRow /\ (row = {} \/ One(row))
      BY <1>1, ProfileSet
    <3>. HIDE DEF row
    <3>4. QED
      BY <3>1, <3>2, <3>3
  <2>3. QED
    BY <2>1, <2>2
<1>3. UsersTyped'
  BY <1>1, <1>2, RowsOfUser
<1>4. RouteArg(a) /\ UserArg(label, a) /\ label \in UserLabels
  BY DEF RouteArg, Route, NoArg, UserArg, UserLabels
<1>5. QED
  BY <1>2, <1>3, <1>4, UserStatementKeeps

\* A preference is read with all the others, for the one that is changed.
LEMMA PrefReadKeeps ==
    ASSUME Typed, part = "users", UserRest, UNCHANGED sessionTables,
           NEW r \in Requests, NEW u \in UserIds, NEW k \in PrefKeys,
           NEW v \in PrefValues \cup {Unset}, PrefRead(r, u, k, v)
    PROVE  Keeps
<1>1. PICK x \in users[u] :
         Begin(r, "prefs", [NoArg EXCEPT !.row = u, !.other = k,
                                         !.loaded = [x.prefs EXCEPT ![k] = v]])
  BY DEF PrefRead
<1>. PICK prefs : prefs = [x.prefs EXCEPT ![k] = v]
  OBVIOUS
<1>. PICK a : a = [NoArg EXCEPT !.row = u, !.other = k, !.loaded = prefs]
  OBVIOUS
<1>2. Begin(r, "prefs", a) /\ a.row = u /\ a.loaded = prefs /\ RouteArg(a)
  BY <1>1 DEF NoArg, RouteArg
<1>3. UsersTyped
  BY DEF Typed, TablesTyped
<1>4. x.prefs \in Preferences
  BY <1>3 DEF UsersTyped, UserRow
<1>5. prefs \in Preferences
  BY <1>4 DEF Preferences
<1>6. UserArg("prefs", a) /\ "prefs" \in UserLabels
  BY <1>2, <1>5 DEF UserArg, UserLabels
<1>7. users' = users /\ tangled' \subseteq UserIds
  BY <1>3 DEF PrefRead, UsersTyped
<1>8. UsersTyped'
  BY <1>3, <1>7 DEF UsersTyped
<1>9. SessionOK'
  BY DEF sessionTables, SessionOK, Typed, TablesTyped
<1>10. QED
  BY <1>2, <1>6, <1>8, <1>9, UserStatementKeeps DEF UserParts

LEMMA PrefWriteKeeps ==
    ASSUME Typed, part = "users", UserRest, UNCHANGED sessionTables,
           NEW r \in Requests, PrefWrite(r)
    PROVE  Keeps
<1>. PICK b : b = arg[r]
  OBVIOUS
<1>. PICK u : u = b.row
  OBVIOUS
<1>1. ArgOK("prefs", b)
  BY DEF Typed, PrefWrite
<1>2. u \in UserIds /\ b.loaded \in Preferences
  BY <1>1 DEF ArgOK, UserArg
<1>. DEFINE row == {[x EXCEPT !.prefs = b.loaded] : x \in users[u]}
<1>3. users' = [users EXCEPT ![u] = row] /\ UNCHANGED tangled
  BY DEF PrefWrite, With
<1>4. Goto(r, "idle", NoArg)
  BY DEF PrefWrite, Finish
<1>5. UsersTyped
  BY DEF Typed, TablesTyped
<1>6. row \in SUBSET UserRow /\ (row = {} \/ One(row))
  BY <1>2, <1>5, PrefsSet
<1>. HIDE DEF row
<1>7. UsersTyped'
  BY <1>2, <1>3, <1>5, <1>6, RowsOfUser
<1>8. SessionOK'
  BY DEF sessionTables, SessionOK, Typed, TablesTyped
<1>9. RouteArg(NoArg) /\ UserArg("idle", NoArg) /\ "idle" \in UserLabels
  BY DEF RouteArg, UserArg, UserLabels, NoArg
<1>10. QED
  BY <1>4, <1>7, <1>8, <1>9, UserStatementKeeps DEF UserParts

LEMMA CacheUserRequestKeeps ==
    ASSUME Typed, part = "users", NEW r \in Requests,
           UNCHANGED <<part, deptTables, sessionTables, floorTables, catalogueTables,
                       referenceTables>>,
           UserStep(r) \/ UserRequest(r)
    PROVE  Keeps
<1>0. UserRest /\ UserParts /\ SessionOK'
  BY DEF UserRest, UserParts, sessionTables, SessionOK, Typed, TablesTyped
<1>1. CASE Reread(r, users[arg[r].row] # {}) /\ UNCHANGED userTables
  <2>. PICK exists \in BOOLEAN : exists = (users[arg[r].row] # {})
    OBVIOUS
  <2>1. UNCHANGED <<tables, part>> /\ Reread(r, exists)
    BY <1>1 DEF tables
  <2>2. QED
    BY <2>1, RereadKeeps
<1>2. CASE PrefWrite(r)
  BY <1>0, <1>2, PrefWriteKeeps
<1>3. ASSUME NEW u \in UserIds, UserRemove(r, u) \/ \E p \in Profiles : UserUpdate(r, u, p)
      PROVE  Keeps
  BY <1>0, <1>3, UserWriteKeeps
<1>4. ASSUME NEW u \in UserIds, NEW k \in PrefKeys, NEW v \in PrefValues \cup {Unset},
             PrefRead(r, u, k, v)
      PROVE  Keeps
  BY <1>0, <1>4, PrefReadKeeps
<1>5. QED
  BY <1>1, <1>2, <1>3, <1>4 DEF UserStep, UserRequest

\* A session begins, or goes on, with what the user's row holds.
LEMMA LoadKeeps ==
    ASSUME Typed, part = "sessions", UNCHANGED <<tables, part>>,
           NEW r \in Requests, NEW u \in UserIds, Load(r, u)
    PROVE  Keeps
<1>. PICK t : t = now
  OBVIOUS
<1>1. PICK x \in users[u] :
         Begin(r, "issue", [NoArg EXCEPT !.row = u, !.loaded = x.profile, !.read = t])
  BY DEF Load
<1>. PICK a : a = [NoArg EXCEPT !.row = u, !.loaded = x.profile, !.read = t]
  OBVIOUS
<1>2. a.row = u /\ a.loaded = x.profile /\ a.read = t /\ RouteArg(a)
  BY DEF NoArg, RouteArg
<1>3. x.profile \in Profiles /\ t \in 0..MaxTime
  BY DEF Typed, TablesTyped, UsersTyped, UserRow
<1>4. DeptArg("issue", a)' /\ FloorArg("issue", a)' /\ CatalogueArg("issue", a)'
  BY DEF DeptArg, OeeSteps, FloorArg, CatalogueArg
<1>5. UserArg("issue", a)' /\ CacheArg("issue", a)'
  BY <1>2, <1>3 DEF UserArg, CacheArg, RouteArg
<1>6. ArgOK("issue", a)'
  BY <1>4, <1>5 DEF ArgOK
<1>7. QED
  BY <1>1, <1>6, GoesOn

LEMMA TokenTyped ==
    ASSUME now \in 0..MaxTime, NEW a, UserArg("issue", a), NEW secret \in Secrets, NEW life \in Nat
    PROVE  Token(a, secret, life) \in [user : UserIds, claims : Profiles, secret : Secrets,
                                       read : 0..MaxTime, issued : 0..MaxTime, expires : Nat]
<1>1. MaxTime \in Nat
  BY BoundsAssumption
<1>2. now + life \in Nat
  BY <1>1
<1>3. QED
  BY <1>1, <1>2 DEF Token, UserArg

LEMMA CacheIssueKeeps ==
    ASSUME Typed, part = "sessions", UserRest, UNCHANGED userTables,
           NEW r \in Requests, Issue(r)
    PROVE  Keeps
<1>. PICK a : a = arg[r]
  OBVIOUS
<1>1. SessionOK /\ UsersTyped /\ ArgOK("issue", a)
  BY DEF Typed, TablesTyped, Issue
<1>2. tokens' = tokens \cup {Token(a, "access", AccessLife), Token(a, "refresh", RefreshLife)}
      /\ UNCHANGED held
  BY DEF Issue
<1>3. AccessLife \in Nat /\ RefreshLife \in Nat /\ now \in 0..MaxTime
  BY SessionsAssumption DEF Typed
<1>4. SessionOK'
  <2>1. UserArg("issue", a) /\ {"access", "refresh"} \subseteq Secrets
    BY <1>1 DEF ArgOK, Secrets
  <2>. DEFINE TokenRow == [user : UserIds, claims : Profiles, secret : Secrets,
                           read : 0..MaxTime, issued : 0..MaxTime, expires : Nat]
  <2>2. Token(a, "access", AccessLife) \in TokenRow
    BY <1>3, <2>1, TokenTyped
  <2>3. Token(a, "refresh", RefreshLife) \in TokenRow
    BY <1>3, <2>1, TokenTyped
  <2>. HIDE DEF TokenRow
  <2>4. tokens \subseteq TokenRow
    BY <1>1 DEF SessionOK, TokenRow
  <2>5. tokens' \subseteq TokenRow
    BY <1>2, <2>2, <2>3, <2>4
  <2>6. QED
    BY <1>1, <1>2, <2>5 DEF SessionOK, TokenRow
<1>5. UsersTyped'
  BY <1>1 DEF userTables, UsersTyped
<1>6. Goto(r, "idle", NoArg)
  BY DEF Issue, Finish
<1>7. RouteArg(NoArg) /\ UserArg("idle", NoArg) /\ "idle" \in UserLabels
  BY DEF RouteArg, UserArg, UserLabels, NoArg
<1>8. QED
  BY <1>4, <1>5, <1>6, <1>7, UserStatementKeeps DEF UserParts

LEMMA CacheSessionRequestKeeps ==
    ASSUME Typed, part = "sessions", NEW r \in Requests,
           UNCHANGED <<part, deptTables, floorTables, catalogueTables, referenceTables>>,
           SessionStep(r) \/ SessionRequest(r)
    PROVE  Keeps
<1>0. UserRest /\ UserParts /\ SessionOK
  BY DEF UserRest, UserParts, Typed, TablesTyped
<1>1. CASE Reread(r, users[arg[r].row] # {}) /\ UNCHANGED <<userTables, sessionTables>>
  <2>. PICK exists \in BOOLEAN : exists = (users[arg[r].row] # {})
    OBVIOUS
  <2>1. UNCHANGED <<tables, part>> /\ Reread(r, exists)
    BY <1>1 DEF tables
  <2>2. QED
    BY <2>1, RereadKeeps
<1>2. CASE Issue(r) /\ UNCHANGED userTables
  BY <1>0, <1>2, CacheIssueKeeps
<1>3. ASSUME UNCHANGED <<userTables, sessionTables>>,
             \/ \E u \in UserIds : Login(r, u)
             \/ \E t \in tokens : Refresh(r, t)
      PROVE  Keeps
  <2>1. UNCHANGED <<tables, part>>
    BY <1>3 DEF tables
  <2>2. PICK u \in UserIds : Load(r, u)
    BY <1>0, <1>3 DEF Login, Refresh, SessionOK
  <2>3. QED
    BY <2>1, <2>2, LoadKeeps
<1>4. ASSUME NEW u \in UserIds,
             UserRemove(r, u) \/ \E p \in Profiles : UserUpdate(r, u, p),
             held' = [v \in UserIds |-> [p \in Profiles |-> LastHeld(v, p)]],
             UNCHANGED tokens
      PROVE  Keeps
  <2>1. \A v \in UserIds, p \in Profiles : LastHeld(v, p) \in 0..MaxTime
    BY <1>0 DEF LastHeld, SessionOK, Typed
  <2>2. SessionOK'
    BY <1>0, <1>4, <2>1 DEF SessionOK
  <2>3. QED
    BY <1>0, <1>4, <2>2, UserWriteKeeps
<1>5. QED
  BY <1>1, <1>2, <1>3, <1>4 DEF SessionStep, SessionRequest

-------------------------------------------------------------------------------
\* The floor.

FloorLabels == {"start", "change_order", "close_order", "delete_order", "patch", "end", "reread",
                "evict", "idle"}
FloorRest == UNCHANGED <<part, deptTables, userTables, sessionTables, catalogueTables>>

\* What a statement about the floor must show.
LEMMA FloorStatementKeeps ==
    ASSUME Typed, FloorRest, OrderOK',
           DOMAIN orders \subseteq DOMAIN orders', DOMAIN segments \subseteq DOMAIN segments',
           NEW r \in Requests, NEW label \in FloorLabels, NEW a, RouteArg(a),
           FloorArg(label, a)', Turn(r, label, a), Aside
    PROVE  Keeps
<1>1. UNCHANGED <<depts, oee, irregular, users, tangled, tokens, held, resource, items,
                  mixed, part>>
  BY DEF FloorRest, deptTables, userTables, sessionTables, catalogueTables
<1>2. Grows
  BY <1>1 DEF Grows
<1>3. /\ label # "fill" /\ DeptArg(label, a)' /\ UserArg(label, a)' /\ CatalogueArg(label, a)'
      /\ CacheArg(label, a)'
  BY DEF FloorLabels, OeeSteps, DeptArg, UserArg, CatalogueArg, CacheArg, RouteArg
<1>4. TablesTyped'
  BY <1>1 DEF Typed, TablesTyped, DeptOK, UsersTyped, SessionOK, CatalogueOK
<1>5. Statement(r, label, a)
  BY <1>2, <1>3, <1>4 DEF Statement, ArgOK
<1>6. QED
  BY <1>5, StatementKeeps

LEMMA OrderRows ==
    ASSUME Typed
    PROVE  /\ orders \in Seq(OrderRow) /\ segments \in Seq(SegmentRow)
           /\ rivals \subseteq DOMAIN segments
BY DEF Typed, TablesTyped, OrderOK, OrderRow, SegmentRow

\* The work orders change, and the request is over.
LEMMA OrderStatementKeeps ==
    ASSUME Typed, FloorRest, UNCHANGED <<segments, rivals>>,
           orders' \in Seq(OrderRow), DOMAIN orders \subseteq DOMAIN orders',
           NEW r \in Requests, Finish(r)
    PROVE  Keeps
<1>1. Turn(r, "idle", NoArg) /\ Aside
  BY EndsAside
<1>2. OrderOK'
  BY OrderRows DEF OrderOK, OrderRow, SegmentRow
<1>3. "idle" \in FloorLabels /\ FloorArg("idle", NoArg)' /\ RouteArg(NoArg)
  BY DEF FloorLabels, FloorArg, RouteArg, NoArg
<1>4. QED
  BY <1>1, <1>2, <1>3, FloorStatementKeeps

LEMMA OrderInsertKeeps ==
    ASSUME Typed, FloorRest, NEW r \in Requests, OrderInsert(r)
    PROVE  Keeps
<1>. PICK n : n = arg[r].loaded
  OBVIOUS
<1>1. n \in Numbers
  BY DEF OrderInsert, Typed, ArgOK, FloorArg
<1>. DEFINE row == [number |-> n, closed |-> FALSE, there |-> TRUE]
<1>2. row \in OrderRow
  BY <1>1 DEF OrderRow
<1>3. /\ orders' = orders \/ orders' = Append(orders, row)
      /\ Finish(r) /\ UNCHANGED <<segments, rivals>>
  BY DEF OrderInsert
<1>. HIDE DEF row
<1>4. orders' \in Seq(OrderRow) /\ DOMAIN orders \subseteq DOMAIN orders'
  BY <1>2, <1>3, OrderRows
<1>5. QED
  BY <1>3, <1>4, OrderStatementKeeps

LEMMA OrderWriteKeeps ==
    ASSUME Typed, FloorRest, NEW r \in Requests, OrderWrite(r)
    PROVE  Keeps
<1>1. Finish(r) /\ UNCHANGED <<segments, rivals>>
      /\ orders' = [w \in DOMAIN orders |->
                       IF Id(w) = arg[r].loaded /\ pc[r] = "close_order"
                         THEN [orders[w] EXCEPT !.closed = TRUE] ELSE orders[w]]
  BY DEF OrderWrite
<1>2. orders \in Seq(OrderRow) /\ DOMAIN orders' = DOMAIN orders
  BY <1>1, OrderRows
<1>3. \A w \in DOMAIN orders' : orders'[w] \in OrderRow
  <2>. SUFFICES ASSUME NEW w \in DOMAIN orders
                PROVE  orders'[w] \in OrderRow
    BY <1>2
  <2>1. orders[w] \in OrderRow
    BY <1>2
  <2>2. [orders[w] EXCEPT !.closed = TRUE] \in OrderRow
    BY <2>1 DEF OrderRow
  <2>3. QED
    BY <1>1, <2>1, <2>2
<1>4. orders' \in Seq(OrderRow)
  <2>1. Len(orders) \in Nat /\ DOMAIN orders' = 1..Len(orders)
    BY <1>2
  <2>2. orders' \in [1..Len(orders) -> OrderRow]
    BY <1>1, <1>3, <2>1
  <2>3. QED
    BY <2>1, <2>2
<1>5. QED
  BY <1>1, <1>2, <1>4, OrderStatementKeeps

LEMMA OrderDeleteKeeps ==
    ASSUME Typed, FloorRest, NEW r \in Requests, OrderDelete(r)
    PROVE  Keeps
<1>. PICK w : w = arg[r].row
  OBVIOUS
<1>1. w \in DOMAIN orders
  BY DEF OrderDelete, Typed, ArgOK, FloorArg
<1>2. Finish(r) /\ UNCHANGED <<segments, rivals>>
      /\ orders' = [orders EXCEPT ![w] = [orders[w] EXCEPT !.there = FALSE]]
  BY <1>1 DEF OrderDelete
<1>3. [orders[w] EXCEPT !.there = FALSE] \in OrderRow
  <2>1. orders[w] \in OrderRow
    BY <1>1, OrderRows
  <2>2. QED
    BY <2>1 DEF OrderRow
<1>4. orders' \in Seq(OrderRow) /\ DOMAIN orders' = DOMAIN orders
  BY <1>1, <1>2, <1>3, OrderRows
<1>5. QED
  BY <1>2, <1>4, OrderStatementKeeps

OrderLabels == {"start", "change_order", "close_order", "delete_order"}

LEMMA OrderBeginKeeps ==
    ASSUME Typed, UNCHANGED <<tables, part>>, NEW r \in Requests,
           NEW label \in OrderLabels, NEW a, RouteArg(a), Begin(r, label, a),
           label = "start" => a.loaded \in Numbers,
           label = "delete_order" => a.row \in DOMAIN orders
    PROVE  Keeps
<1>1. /\ DeptArg(label, a)' /\ UserArg(label, a)' /\ CatalogueArg(label, a)' /\ label # "fill"
      /\ CacheArg(label, a)'
  BY DEF OrderLabels, DeptArg, OeeSteps, UserArg, CatalogueArg, CacheArg, RouteArg
<1>2. orders' = orders
  BY DEF tables, floorTables
<1>3. FloorArg(label, a)'
  BY <1>2 DEF OrderLabels, FloorArg
<1>4. ArgOK(label, a)'
  BY <1>1, <1>3 DEF ArgOK
<1>5. QED
  BY <1>1, <1>4, GoesOn

LEMMA SegmentCreateKeeps ==
    ASSUME Typed, FloorRest, NEW r \in Requests,
           NEW w \in OrderIds, NEW t \in Times, SegmentCreate(r, w, t)
    PROVE  Keeps
<1>. DEFINE row == [order |-> w, start |-> t, end |-> Never, duration |-> 0, active |-> TRUE]
<1>. PICK a : a = arg[r]
  OBVIOUS
<1>1. /\ pc[r] = "idle" /\ ops < MaxOps /\ ops' = ops + 1
      /\ segments' = Append(segments, row)
      /\ UNCHANGED <<cache, pc, arg, faults, now, orders, rivals>>
  BY DEF SegmentCreate
<1>2. row \in SegmentRow
  BY ProductionAssumption DEF SegmentRow
<1>. HIDE DEF row
<1>3. segments' \in Seq(SegmentRow) /\ DOMAIN segments \subseteq DOMAIN segments'
  BY <1>1, <1>2, OrderRows
<1>4. OrderOK'
  BY <1>1, <1>3, OrderRows DEF OrderOK, OrderRow, SegmentRow
<1>5. Turn(r, "idle", a) /\ ArgOK("idle", a)
  BY <1>1 DEF Turn, Typed
<1>6. ops' \in 0..MaxOps
  BY <1>1, BoundsAssumption DEF Typed
<1>7. "idle" \in FloorLabels /\ FloorArg("idle", a)' /\ RouteArg(a)
  BY <1>5 DEF FloorLabels, FloorArg, ArgOK, CacheArg, RouteArg
<1>8. Aside /\ DOMAIN orders' = DOMAIN orders
  BY <1>1, <1>6 DEF Aside
<1>9. QED
  BY <1>3, <1>4, <1>5, <1>7, <1>8, FloorStatementKeeps

LEMMA SegmentReadKeeps ==
    ASSUME Typed, FloorRest, NEW r \in Requests,
           NEW i \in DOMAIN segments, NEW label \in {"patch", "end"}, NEW t \in Times,
           SegmentRead(r, i, label, t)
    PROVE  Keeps
<1>. PICK row : row = segments[i]
  OBVIOUS
<1>. PICK a : a = [Route({Segment(i)}) EXCEPT !.row = i, !.other = t, !.loaded = row]
  OBVIOUS
<1>1. Begin(r, label, a) /\ UNCHANGED <<orders, segments>>
      /\ (rivals' = rivals \/ rivals' = rivals \cup {i})
  BY DEF SegmentRead
<1>2. Turn(r, label, a) /\ Aside
  BY <1>1, MovesAside
<1>3. a.row = i /\ a.other = t /\ a.loaded = row /\ RouteArg(a)
  BY DEF Route, NoArg, RouteArg
<1>4. row \in SegmentRow
  BY OrderRows
<1>5. OrderOK'
  BY <1>1 DEF Typed, TablesTyped, OrderOK
<1>6. FloorArg(label, a)' /\ label \in FloorLabels
  BY <1>1, <1>3, <1>4 DEF FloorArg, FloorLabels
<1>7. QED
  BY <1>1, <1>2, <1>3, <1>5, <1>6, FloorStatementKeeps

LEMMA SegmentWriteKeeps ==
    ASSUME Typed, FloorRest, NEW r \in Requests, pc[r] \in {"patch", "end"},
           NEW row \in SegmentRow, SegmentWrite(r, row)
    PROVE  Keeps
<1>. PICK i : i = arg[r].row
  OBVIOUS
<1>. PICK a : a = arg[r]
  OBVIOUS
<1>1. i \in DOMAIN segments /\ RouteArg(a)
  BY DEF Typed, ArgOK, FloorArg, CacheArg, RouteArg
<1>2. /\ segments' = [segments EXCEPT ![i] = row] /\ Goto(r, "reread", a)
      /\ UNCHANGED <<orders, rivals>>
  BY DEF SegmentWrite
<1>3. Turn(r, "reread", a) /\ Aside
  BY <1>2, MovesAside
<1>4. segments' \in Seq(SegmentRow) /\ DOMAIN segments' = DOMAIN segments
  BY <1>1, <1>2, OrderRows
<1>5. OrderOK' /\ DOMAIN orders' = DOMAIN orders
  BY <1>2, <1>4, OrderRows DEF OrderOK, OrderRow, SegmentRow
<1>6. FloorArg("reread", a)' /\ "reread" \in FloorLabels
  BY DEF FloorArg, FloorLabels
<1>7. QED
  BY <1>1, <1>3, <1>4, <1>5, <1>6, FloorStatementKeeps

LEMMA SegmentChangeKeeps ==
    ASSUME Typed, FloorRest, NEW r \in Requests, SegmentPatch(r) \/ SegmentEnd(r)
    PROVE  Keeps
<1>. PICK i : i = arg[r].row
  OBVIOUS
<1>. PICK b : b = arg[r]
  OBVIOUS
<1>1. pc[r] \in {"patch", "end"}
  BY DEF SegmentPatch, SegmentEnd
<1>2. i \in DOMAIN segments /\ b.other \in Times /\ (pc[r] = "end" => b.loaded \in SegmentRow)
  BY <1>1 DEF Typed, ArgOK, FloorArg
<1>. PICK old : old = segments[i]
  OBVIOUS
<1>3. old \in SegmentRow
  BY <1>2, OrderRows
<1>4. CASE SegmentWrite(r, [old EXCEPT !.end = b.other])
  <2>1. [old EXCEPT !.end = b.other] \in SegmentRow
    BY <1>2, <1>3 DEF SegmentRow
  <2>2. QED
    BY <1>1, <1>4, <2>1, SegmentWriteKeeps
<1>5. CASE SegmentWrite(r, [old EXCEPT !.active = FALSE])
  <2>1. [old EXCEPT !.active = FALSE] \in SegmentRow
    BY <1>3 DEF SegmentRow
  <2>2. QED
    BY <1>1, <1>5, <2>1, SegmentWriteKeeps
<1>6. CASE SegmentEnd(r)
  <2>. PICK d : d = b.other - b.loaded.start
    OBVIOUS
  <2>1. pc[r] = "end" /\ SegmentWrite(r, [old EXCEPT !.end = b.other, !.duration = d])
    BY <1>6 DEF SegmentEnd
  <2>2. b.loaded.start \in Times
    BY <1>2, <2>1 DEF SegmentRow
  <2>3. d \in Int
    BY <1>2, <2>2, ProductionAssumption
  <2>4. [old EXCEPT !.end = b.other, !.duration = d] \in SegmentRow
    BY <1>2, <1>3, <2>3 DEF SegmentRow
  <2>5. QED
    BY <1>1, <2>1, <2>4, SegmentWriteKeeps
<1>7. QED
  BY <1>4, <1>5, <1>6 DEF SegmentPatch

LEMMA CacheFloorRequestKeeps ==
    ASSUME Typed, part = "production", NEW r \in Requests,
           UNCHANGED <<part, deptTables, userTables, sessionTables, catalogueTables,
                       referenceTables>>,
           FloorStep(r) \/ FloorRequest(r)
    PROVE  Keeps
<1>0. FloorRest
  BY DEF FloorRest
<1>1. CASE Reread(r, TRUE) /\ UNCHANGED floorTables
  <2>1. UNCHANGED <<tables, part>>
    BY <1>1 DEF tables
  <2>2. QED
    BY <1>1, <2>1, RereadKeeps
<1>2. CASE OrderInsert(r) \/ OrderWrite(r) \/ OrderDelete(r)
  BY <1>0, <1>2, OrderInsertKeeps, OrderWriteKeeps, OrderDeleteKeeps
<1>3. CASE SegmentPatch(r) \/ SegmentEnd(r)
  BY <1>0, <1>3, SegmentChangeKeeps
<1>4. ASSUME NEW n \in Numbers, OrderRead(r, n)
      PROVE  Keeps
  <2>1. UNCHANGED <<tables, part>>
    BY <1>4 DEF tables, OrderRead
  <2>. PICK a : a = [NoArg EXCEPT !.loaded = n]
    OBVIOUS
  <2>2. Begin(r, "start", a) /\ "start" \in OrderLabels
    BY <1>4 DEF OrderRead, OrderLabels
  <2>3. a.loaded = n /\ RouteArg(a)
    BY DEF NoArg, RouteArg
  <2>4. QED
    BY <2>1, <2>2, <2>3, OrderBeginKeeps
<1>5. ASSUME NEW x, NEW label \in {"change_order", "close_order", "delete_order"},
             OrderFind(r, x, label)
      PROVE  Keeps
  <2>1. UNCHANGED <<tables, part>>
    BY <1>5 DEF tables, OrderFind
  <2>2. PICK w \in DOMAIN orders : Begin(r, label, [NoArg EXCEPT !.row = w, !.loaded = x])
    BY <1>5 DEF OrderFind
  <2>. PICK a : a = [NoArg EXCEPT !.row = w, !.loaded = x]
    OBVIOUS
  <2>3. a.row = w /\ RouteArg(a)
    BY DEF NoArg, RouteArg
  <2>4. label \in OrderLabels /\ label # "start"
    BY DEF OrderLabels
  <2>5. QED
    BY <2>1, <2>2, <2>3, <2>4, OrderBeginKeeps
<1>6. ASSUME NEW w \in OrderIds, NEW t \in Times, SegmentCreate(r, w, t)
      PROVE  Keeps
  BY <1>0, <1>6, SegmentCreateKeeps
<1>7. ASSUME NEW i \in DOMAIN segments, NEW t \in Times,
             SegmentRead(r, i, "end", t) \/ SegmentRead(r, i, "patch", t)
      PROVE  Keeps
  BY <1>0, <1>7, SegmentReadKeeps
<1>8. QED
  BY <1>1, <1>2, <1>3, <1>4, <1>5, <1>6, <1>7 DEF FloorStep, FloorRequest

-------------------------------------------------------------------------------
\* The catalogues.

CatalogueLabels == {"plan", "setting", "save", "reread", "evict", "idle"}
CatalogueRest == UNCHANGED <<part, deptTables, userTables, sessionTables, floorTables>>

\* What a statement about a catalogue must show.
LEMMA CatalogueStatementKeeps ==
    ASSUME Typed, CatalogueRest, UNCHANGED resource,
           items' \in Seq(ItemRow), mixed' \subseteq DOMAIN items',
           DOMAIN items \subseteq DOMAIN items',
           NEW r \in Requests, NEW label \in CatalogueLabels, NEW a, RouteArg(a),
           CatalogueArg(label, a), Begin(r, label, a) \/ Goto(r, label, a)
    PROVE  Keeps
<1>1. Turn(r, label, a) /\ Aside
  BY MovesAside
<1>2. UNCHANGED <<depts, oee, irregular, users, tangled, tokens, held, orders, segments,
                  rivals, resource, part>>
  BY DEF CatalogueRest, deptTables, userTables, sessionTables, floorTables
<1>3. Grows
  BY <1>2 DEF Grows
<1>4. /\ label # "fill" /\ DeptArg(label, a)' /\ UserArg(label, a)' /\ FloorArg(label, a)'
      /\ CacheArg(label, a)'
  BY DEF CatalogueLabels, OeeSteps, DeptArg, UserArg, FloorArg, CacheArg, RouteArg
<1>5. CatalogueArg(label, a)'
  BY <1>3 DEF CatalogueArg, Grows
<1>6. CatalogueOK'
  BY <1>2 DEF Typed, TablesTyped, CatalogueOK, ItemRow
<1>7. TablesTyped'
  BY <1>2, <1>6 DEF Typed, TablesTyped, DeptOK, UsersTyped, SessionOK, OrderOK
<1>8. Statement(r, label, a)
  BY <1>1, <1>3, <1>4, <1>5, <1>7 DEF Statement, ArgOK
<1>9. QED
  BY <1>8, StatementKeeps

LEMMA ItemRows ==
    ASSUME Typed
    PROVE  items \in Seq(ItemRow) /\ mixed \subseteq DOMAIN items
BY DEF Typed, TablesTyped, CatalogueOK, ItemRow

LEMMA ItemSet ==
    ASSUME NEW row \in ItemRow, NEW f, NEW v,
           Settable(f, v)
    PROVE  [row EXCEPT ![f] = v] \in ItemRow
<1>1. CASE f = "label" /\ v \in Labels
  BY <1>1 DEF ItemRow
<1>2. CASE f = "flag" /\ v \in BOOLEAN
  BY <1>2 DEF ItemRow
<1>3. QED
  BY <1>1, <1>2 DEF Settable

LEMMA AboutBegins ==
    ASSUME Typed, NEW r \in Requests, NEW label, NEW a, a.row \in DOMAIN items,
           About(r, label, a)
    PROVE  Begin(r, label, a) /\ resource' = resource /\ mixed' \subseteq DOMAIN items
BY ItemRows DEF About

\* The statement of a request of which only row i changes.
LEMMA ItemStatementKeeps ==
    ASSUME Typed, CatalogueRest, UNCHANGED resource,
           NEW i \in DOMAIN items, NEW row \in ItemRow, items' = [items EXCEPT ![i] = row],
           mixed' \subseteq DOMAIN items,
           NEW r \in Requests, NEW label \in {"reread", "evict"}, NEW a, RouteArg(a),
           Begin(r, label, a) \/ Goto(r, label, a)
    PROVE  Keeps
<1>1. items' \in Seq(ItemRow) /\ DOMAIN items' = DOMAIN items
  BY ItemRows
<1>2. label \in CatalogueLabels /\ CatalogueArg(label, a)
  BY DEF CatalogueLabels, CatalogueArg
<1>3. QED
  BY <1>1, <1>2, CatalogueStatementKeeps

LEMMA ItemCreateKeeps ==
    ASSUME Typed, CatalogueRest, NEW r \in Requests,
           NEW o \in Owners, NEW code \in Labels, ItemCreate(r, o, code)
    PROVE  Keeps
<1>. PICK a : a = Route(CatalogueKeys \cap {AllItems})
  OBVIOUS
<1>. DEFINE row == [owner |-> o, label |-> code, flag |-> TRUE, there |-> TRUE]
<1>1. items' = Append(items, row) /\ Begin(r, "evict", a) /\ UNCHANGED <<resource, mixed>>
  BY DEF ItemCreate
<1>2. row \in ItemRow
  BY DEF ItemRow
<1>. HIDE DEF row
<1>3. items' \in Seq(ItemRow) /\ DOMAIN items \subseteq DOMAIN items'
  BY <1>1, <1>2, ItemRows
<1>4. RouteArg(a) /\ "evict" \in CatalogueLabels /\ CatalogueArg("evict", a)
  BY DEF RouteArg, Route, NoArg, CatalogueLabels, CatalogueArg
<1>5. mixed' \subseteq DOMAIN items'
  BY <1>1, <1>3, ItemRows
<1>6. QED
  BY <1>1, <1>3, <1>4, <1>5, CatalogueStatementKeeps

LEMMA PlanInsertKeeps ==
    ASSUME Typed, CatalogueRest, NEW r \in Requests, PlanInsert(r)
    PROVE  Keeps
<1>. PICK code : code = arg[r].loaded
  OBVIOUS
<1>1. code \in Labels
  BY DEF PlanInsert, Typed, ArgOK, CatalogueArg
<1>. DEFINE row == [owner |-> 1, label |-> code, flag |-> TRUE, there |-> TRUE]
<1>2. row \in ItemRow
  BY <1>1, CatalogueAssumption DEF ItemRow
<1>3. /\ items' = items \/ items' = Append(items, row)
      /\ Goto(r, "idle", NoArg) /\ UNCHANGED <<resource, mixed>>
  BY DEF PlanInsert, Finish
<1>. HIDE DEF row
<1>4. items' \in Seq(ItemRow) /\ DOMAIN items \subseteq DOMAIN items' /\ mixed' \subseteq DOMAIN items'
  BY <1>2, <1>3, ItemRows
<1>5. "idle" \in CatalogueLabels /\ CatalogueArg("idle", NoArg) /\ RouteArg(NoArg)
  BY DEF CatalogueLabels, CatalogueArg, RouteArg, NoArg
<1>6. QED
  BY <1>3, <1>4, <1>5, CatalogueStatementKeeps

LEMMA PlanFindKeeps ==
    ASSUME Typed, UNCHANGED <<tables, part>>, NEW r \in Requests, NEW code \in Labels,
           PlanFind(r, code)
    PROVE  Keeps
<1>. PICK a : a = [NoArg EXCEPT !.loaded = code]
  OBVIOUS
<1>1. Begin(r, "plan", a) /\ resource = "plans" /\ resource' = resource
  BY DEF PlanFind, catalogueTables
<1>2. a.loaded = code /\ RouteArg(a)
  BY DEF NoArg, RouteArg
<1>3. ArgOK("plan", a)'
  BY <1>1, <1>2 DEF ArgOK, DeptArg, OeeSteps, UserArg, FloorArg, CatalogueArg, CacheArg, RouteArg
<1>4. QED
  BY <1>1, <1>3, GoesOn

LEMMA ItemUpdateKeeps ==
    ASSUME Typed, CatalogueRest, NEW r \in Requests,
           NEW i \in DOMAIN items, NEW f, NEW v, Settable(f, v), ItemUpdate(r, i, f, v)
    PROVE  Keeps
<1>. PICK a : a = [Route(Evicted(i)) EXCEPT !.row = i, !.other = f]
  OBVIOUS
<1>1. About(r, "reread", a)
  BY DEF ItemUpdate
<1>2. RouteArg(a) /\ a.row = i
  BY DEF RouteArg, Route, NoArg
<1>. PICK old : old = items[i]
  OBVIOUS
<1>3. old \in ItemRow
  BY ItemRows
<1>4. [old EXCEPT ![f] = v] \in ItemRow
  BY <1>3, ItemSet
<1>5. \E row \in ItemRow : items' = [items EXCEPT ![i] = row]
  <2>1. CASE old.there
    <3>1. items' = [items EXCEPT ![i] = [old EXCEPT ![f] = v]]
      BY <2>1 DEF ItemUpdate
    <3>2. QED
      BY <1>4, <3>1
  <2>2. CASE ~old.there
    <3>1. items' = [items EXCEPT ![i] = old]
      BY <2>2, ItemRows DEF ItemUpdate
    <3>2. QED
      BY <1>3, <3>1
  <2>3. QED
    BY <2>1, <2>2
<1>6. PICK row \in ItemRow : items' = [items EXCEPT ![i] = row]
  BY <1>5
<1>7. Begin(r, "reread", a) /\ resource' = resource /\ mixed' \subseteq DOMAIN items
  BY <1>1, <1>2, AboutBegins
<1>8. QED
  BY <1>2, <1>6, <1>7, ItemStatementKeeps

LEMMA ItemRemoveKeeps ==
    ASSUME Typed, CatalogueRest, NEW r \in Requests,
           NEW i \in DOMAIN items, ItemRemove(r, i)
    PROVE  Keeps
<1>. PICK a : a = [Route(Evicted(i)) EXCEPT !.row = i, !.other = "there"]
  OBVIOUS
<1>. PICK old : old = items[i]
  OBVIOUS
<1>1. About(r, "evict", a) /\ items' = [items EXCEPT ![i] = [old EXCEPT !.there = FALSE]]
  BY DEF ItemRemove
<1>2. RouteArg(a) /\ a.row = i
  BY DEF RouteArg, Route, NoArg
<1>3. old \in ItemRow
  BY ItemRows
<1>4. [old EXCEPT !.there = FALSE] \in ItemRow
  BY <1>3 DEF ItemRow
<1>5. Begin(r, "evict", a) /\ resource' = resource /\ mixed' \subseteq DOMAIN items
  BY <1>1, <1>2, AboutBegins
<1>6. QED
  BY <1>1, <1>2, <1>4, <1>5, ItemStatementKeeps

\* A request that finds the row first.
LEMMA ItemBeginKeeps ==
    ASSUME Typed, CatalogueRest, UNCHANGED items,
           NEW r \in Requests, NEW label \in {"setting", "save"}, NEW a, RouteArg(a),
           About(r, label, a), CatalogueArg(label, a)
    PROVE  Keeps
<1>1. a.row \in DOMAIN items
  BY DEF CatalogueArg
<1>2. Begin(r, label, a) /\ resource' = resource /\ mixed' \subseteq DOMAIN items
  BY <1>1, AboutBegins
<1>3. label \in CatalogueLabels /\ items' \in Seq(ItemRow)
  BY ItemRows DEF CatalogueLabels
<1>4. QED
  BY <1>2, <1>3, CatalogueStatementKeeps

LEMMA ItemFoundKeeps ==
    ASSUME Typed, CatalogueRest, NEW r \in Requests,
           NEW i \in DOMAIN items, NEW f, NEW v, Settable(f, v),
           SettingFind(r, i, f, v) \/ ItemFind(r, i, f, v)
    PROVE  Keeps
<1>1. CASE SettingFind(r, i, f, v)
  <2>. PICK a : a = [Route(Evicted(i)) EXCEPT !.row = i, !.other = f, !.loaded = v]
    OBVIOUS
  <2>1. About(r, "setting", a) /\ UNCHANGED items
    BY <1>1 DEF SettingFind
  <2>2. a.row = i /\ a.other = f /\ a.loaded = v /\ RouteArg(a)
    BY DEF Route, NoArg, RouteArg
  <2>3. CatalogueArg("setting", a)
    BY <2>2 DEF CatalogueArg
  <2>4. QED
    BY <2>1, <2>2, <2>3, ItemBeginKeeps
<1>2. CASE ItemFind(r, i, f, v)
  <2>. PICK row : row = [items[i] EXCEPT ![f] = v]
    OBVIOUS
  <2>. PICK a : a = [Route(Evicted(i)) EXCEPT !.row = i, !.other = f, !.loaded = row]
    OBVIOUS
  <2>1. About(r, "save", a) /\ UNCHANGED items
    BY <1>2 DEF ItemFind
  <2>2. a.row = i /\ a.loaded = row /\ RouteArg(a)
    BY DEF Route, NoArg, RouteArg
  <2>3. items[i] \in ItemRow
    BY ItemRows
  <2>4. row \in ItemRow
    BY <2>3, ItemSet
  <2>5. CatalogueArg("save", a)
    BY <2>2, <2>4 DEF CatalogueArg
  <2>6. QED
    BY <2>1, <2>2, <2>5, ItemBeginKeeps
<1>3. QED
  BY <1>1, <1>2

\* The second half of both: the row is written, unless it is refused.
LEMMA ItemWriteKeeps ==
    ASSUME Typed, CatalogueRest, UNCHANGED <<resource, mixed>>,
           NEW r \in Requests, pc[r] \in {"setting", "save"}, NEW row \in ItemRow,
           NEW a, a = arg[r],
           \/ Finish(r) /\ UNCHANGED items
           \/ items' = [items EXCEPT ![a.row] = row] /\ Goto(r, "evict", a)
    PROVE  Keeps
<1>1. a.row \in DOMAIN items /\ RouteArg(a)
  BY DEF Typed, ArgOK, CatalogueArg, CacheArg, RouteArg
<1>2. CASE Finish(r) /\ UNCHANGED items
  <2>1. "idle" \in CatalogueLabels /\ CatalogueArg("idle", NoArg) /\ RouteArg(NoArg)
    BY DEF CatalogueLabels, CatalogueArg, RouteArg, NoArg
  <2>2. items' \in Seq(ItemRow) /\ mixed' \subseteq DOMAIN items' /\ Goto(r, "idle", NoArg)
    BY <1>2, ItemRows DEF Finish
  <2>3. QED
    BY <1>2, <2>1, <2>2, CatalogueStatementKeeps
<1>3. CASE items' = [items EXCEPT ![a.row] = row] /\ Goto(r, "evict", a)
  <2>. PICK i : i = a.row
    OBVIOUS
  <2>1. i \in DOMAIN items /\ items' = [items EXCEPT ![i] = row] /\ Goto(r, "evict", a)
    BY <1>1, <1>3
  <2>2. mixed' \subseteq DOMAIN items
    BY ItemRows
  <2>3. QED
    BY <1>1, <2>1, <2>2, ItemStatementKeeps
<1>4. QED
  BY <1>2, <1>3

LEMMA CacheCatalogueRequestKeeps ==
    ASSUME Typed, part = "catalogue", NEW r \in Requests,
           UNCHANGED <<part, deptTables, userTables, sessionTables, floorTables,
                       referenceTables>>,
           CatalogueStep(r) \/ CatalogueRequest(r)
    PROVE  Keeps
<1>0. CatalogueRest
  BY DEF CatalogueRest
<1>. PICK a : a = arg[r]
  OBVIOUS
<1>1. CatalogueArg(pc[r], a)
  BY DEF Typed, ArgOK
<1>2. CASE PlanInsert(r)
  BY <1>0, <1>2, PlanInsertKeeps
<1>3. CASE SettingUpdate(r)
  <2>. PICK old : old = items[a.row]
    OBVIOUS
  <2>. PICK f : f = a.other
    OBVIOUS
  <2>. PICK v : v = a.loaded
    OBVIOUS
  <2>. PICK row : row = [old EXCEPT ![f] = v]
    OBVIOUS
  <2>1. pc[r] = "setting" /\ UNCHANGED <<resource, mixed>>
        /\ \/ Finish(r) /\ UNCHANGED items
           \/ items' = [items EXCEPT ![a.row] = row] /\ Goto(r, "evict", a)
    BY <1>3 DEF SettingUpdate
  <2>2. old \in ItemRow /\ Settable(f, v)
    BY <1>1, <2>1, ItemRows DEF CatalogueArg
  <2>3. row \in ItemRow
    BY <2>2, ItemSet
  <2>4. QED
    BY <1>0, <2>1, <2>3, ItemWriteKeeps
<1>4. CASE ItemSave(r)
  <2>. PICK row : row = a.loaded
    OBVIOUS
  <2>1. pc[r] = "save" /\ UNCHANGED <<resource, mixed>>
        /\ \/ Finish(r) /\ UNCHANGED items
           \/ items' = [items EXCEPT ![a.row] = row] /\ Goto(r, "evict", a)
    BY <1>4 DEF ItemSave
  <2>2. row \in ItemRow
    BY <1>1, <2>1 DEF CatalogueArg
  <2>3. QED
    BY <1>0, <2>1, <2>2, ItemWriteKeeps
<1>5. CASE Reread(r, items[arg[r].row].there) /\ UNCHANGED catalogueTables
  <2>1. UNCHANGED <<tables, part>>
    BY <1>5 DEF tables
  <2>2. \E exists \in BOOLEAN : Reread(r, exists)
    <3>1. CASE items[arg[r].row].there
      <4>1. Reread(r, TRUE)
        BY <1>5, <3>1 DEF Reread
      <4>2. QED
        BY <4>1
    <3>2. CASE ~items[arg[r].row].there
      <4>1. Reread(r, FALSE)
        BY <1>5, <3>2 DEF Reread
      <4>2. QED
        BY <4>1
    <3>3. QED
      BY <3>1, <3>2
  <2>3. QED
    BY <2>1, <2>2, RereadKeeps
<1>6. ASSUME NEW code \in Labels, PlanFind(r, code)
      PROVE  Keeps
  <2>1. UNCHANGED <<tables, part>>
    BY <1>6 DEF tables, PlanFind
  <2>2. QED
    BY <1>6, <2>1, PlanFindKeeps
<1>7. ASSUME NEW o \in Owners, NEW code \in Labels, ItemCreate(r, o, code)
      PROVE  Keeps
  BY <1>0, <1>7, ItemCreateKeeps
<1>8. ASSUME NEW i \in DOMAIN items, ItemRemove(r, i)
      PROVE  Keeps
  BY <1>0, <1>8, ItemRemoveKeeps
<1>9. ASSUME NEW i \in DOMAIN items, NEW f, NEW v, Settable(f, v),
             \/ ItemUpdate(r, i, f, v)
             \/ SettingFind(r, i, f, v)
             \/ ItemFind(r, i, f, v)
      PROVE  Keeps
  <2>1. CASE ItemUpdate(r, i, f, v)
    BY <1>0, <1>9, <2>1, ItemUpdateKeeps
  <2>2. CASE SettingFind(r, i, f, v) \/ ItemFind(r, i, f, v)
    BY <1>0, <1>9, <2>2, ItemFoundKeeps
  <2>3. QED
    BY <1>9, <2>1, <2>2
<1>10. ASSUME NEW i \in DOMAIN items, NEW code \in Labels,
              \/ ItemUpdate(r, i, "label", code)
              \/ SettingFind(r, i, "label", code)
              \/ ItemFind(r, i, "label", code)
       PROVE  Keeps
  <2>1. Settable("label", code)
    BY DEF Settable
  <2>2. QED
    BY <1>9, <1>10, <2>1
<1>11. ASSUME NEW i \in DOMAIN items, NEW flag \in BOOLEAN,
              \/ ItemUpdate(r, i, "flag", flag)
              \/ SettingFind(r, i, "flag", flag)
              \/ ItemFind(r, i, "flag", flag)
       PROVE  Keeps
  <2>1. Settable("flag", flag)
    BY DEF Settable
  <2>2. QED
    BY <1>9, <1>11, <2>1
<1>12. CASE CatalogueStep(r)
  BY <1>2, <1>3, <1>4, <1>5, <1>12 DEF CatalogueStep
<1>13. CASE CatalogueRequest(r)
  BY <1>6, <1>7, <1>8, <1>10, <1>11, <1>13 DEF CatalogueRequest
<1>14. QED
  BY <1>12, <1>13

-------------------------------------------------------------------------------
\* The deletion of rows, which no answer shows.

LEMMA CacheReferenceRequestKeeps ==
    ASSUME Typed, NEW r \in Requests,
           UNCHANGED <<part, deptTables, userTables, sessionTables, floorTables,
                       catalogueTables>>,
           RowDelete(r) \/ ReferenceRequest(r)
    PROVE  Keeps
<1>1. CASE RowDelete(r)
  <2>1. Turn(r, "idle", NoArg) /\ Aside
    BY <1>1, EndsAside DEF RowDelete
  <2>2. UNCHANGED <<depts, oee, irregular, users, tangled, tokens, held, orders, segments,
                    rivals, resource, items, mixed, part>>
    BY DEF deptTables, userTables, sessionTables, floorTables, catalogueTables
  <2>3. Grows /\ TablesTyped'
    BY <2>2 DEF Grows, Typed, TablesTyped, DeptOK, UsersTyped, SessionOK, OrderOK, CatalogueOK
  <2>4. Statement(r, "idle", NoArg)
    BY <2>1, <2>3, DoneArg DEF Statement
  <2>5. QED
    BY <2>4, StatementKeeps
<1>2. ASSUME NEW t \in Deletable, DeleteBegin(r, t)
      PROVE  Keeps
  <2>. PICK a : a = [NoArg EXCEPT !.other = t]
    OBVIOUS
  <2>1. Begin(r, "delete_row", a) /\ UNCHANGED <<tables, part>>
    BY <1>2 DEF DeleteBegin, tables
  <2>2. RouteArg(a)
    BY DEF NoArg, RouteArg
  <2>3. ArgOK("delete_row", a)'
    BY <2>2 DEF ArgOK, DeptArg, OeeSteps, UserArg, FloorArg, CatalogueArg, CacheArg, RouteArg
  <2>4. QED
    BY <2>1, <2>3, GoesOn
<1>3. QED
  BY <1>1, <1>2 DEF ReferenceRequest

-------------------------------------------------------------------------------
\* A read finds one answer, or nothing.

LEMMA ViewsSmall ==
    ASSUME Typed, NEW k \in Keys, NEW v \in Views(k)
    PROVE  v = {} \/ One(v)
<1>1. CASE part = "departments"
  BY <1>1 DEF Views, DeptView, One
<1>2. CASE part = "users"
  <2>1. ASSUME NEW u \in UserIds
        PROVE  Profile(u) = {} \/ One(Profile(u))
    <3>1. users[u] = {} \/ One(users[u])
      BY DEF Typed, TablesTyped, UsersTyped
    <3>2. CASE users[u] = {}
      BY <3>2 DEF Profile
    <3>3. CASE One(users[u])
      <4>1. PICK x : users[u] = {x}
        BY <3>3 DEF One
      <4>2. Profile(u) = {<<u, x>>}
        BY <4>1 DEF Profile
      <4>3. QED
        BY <4>2 DEF One
    <3>4. QED
      BY <3>1, <3>2, <3>3
  <2>2. k \in UserKeys /\ v \in UserViews(k)
    BY <1>2 DEF Keys, Views
  <2>3. CASE k = AllUsers
    <3>1. k # Me
      BY <2>3 DEF AllUsers, Me
    <3>2. v = {{Profile(u) : u \in UserIds} \ {{}}}
      BY <2>2, <2>3, <3>1 DEF UserViews
    <3>3. QED
      BY <3>2 DEF One
  <2>4. CASE k = Me /\ k # AllUsers
    BY <2>1, <2>2, <2>4 DEF UserViews
  <2>5. ASSUME NEW u \in UserIds, k = UserKey(u)
        PROVE  v = {} \/ One(v)
    <3>1. k # AllUsers /\ k # Me /\ k[2] = u
      BY <2>5 DEF UserKey, AllUsers, Me
    <3>2. v = Profile(u)
      BY <2>2, <3>1 DEF UserViews
    <3>3. QED
      BY <2>1, <3>2
  <2>6. QED
    BY <2>2, <2>3, <2>4, <2>5 DEF UserKeys
<1>3. CASE part = "production"
  BY <1>3 DEF Views, FloorView, One
<1>4. CASE part = "catalogue"
  <2>1. k \in CatalogueKeys /\ v \in CatalogueViews(k)
    BY <1>4 DEF Keys, Views
  <2>2. CASE k = ActiveItems \/ Its.cached = "list"
    BY <2>1, <2>2 DEF CatalogueViews, List, One
  <2>3. CASE k = AllItems \/ k = CurrentCompany
    BY <2>1, <2>2, <2>3 DEF CatalogueViews, List, One
  <2>4. CASE ~(k = ActiveItems \/ Its.cached = "list" \/ k = AllItems \/ k = CurrentCompany)
    <3>1. v = {<<i, items[i]>> : i \in {k[2]} \cap Present}
      BY <2>1, <2>4 DEF CatalogueViews
    <3>2. CASE k[2] \in Present
      BY <3>1, <3>2 DEF One
    <3>3. CASE k[2] \notin Present
      BY <3>1, <3>3
    <3>4. QED
      BY <3>2, <3>3
  <2>5. QED
    BY <2>2, <2>3, <2>4
<1>5. CASE part \in {"sessions", "references"}
  BY <1>5 DEF Keys
<1>6. QED
  BY <1>1, <1>2, <1>3, <1>4, <1>5 DEF Typed, Parts

LEMMA CacheStepKeeps ==
    ASSUME Typed, UNCHANGED part, NEW r \in Requests, CacheStep(r)
    PROVE  Keeps
<1>1. UNCHANGED <<tables, part>>
  BY DEF CacheStep
<1>2. ASSUME pc[r] = "read", NEW v \in Views(arg[r].key), Read(r, v)
      PROVE  Keeps
  <2>1. arg[r].key \in Keys
    BY <1>2 DEF Typed, ArgOK, CacheArg
  <2>2. v = {} \/ One(v)
    BY <1>2, <2>1, ViewsSmall
  <2>3. QED
    BY <1>1, <1>2, <2>2, ReadKeeps
<1>3. QED
  BY <1>1, <1>2, FillKeeps, EndKeeps DEF CacheStep, Evict

-------------------------------------------------------------------------------
\* The beginning.

\* There are enough labels for each company to have one of its own.
LEMMA LabelsEnough ==
    \E f \in [Owners -> Labels] : \A o, p \in Owners : f[o] = f[p] => o = p
<1>. PICK m : m = Cardinality(Labels)
  OBVIOUS
<1>. PICK n : n = Cardinality(Owners)
  OBVIOUS
<1>1. m \in Nat /\ ExistsBijection(1..m, Labels)
  BY FS_CardinalityType, CatalogueAssumption
<1>2. n \in Nat
  BY FS_CardinalityType, CatalogueAssumption
<1>3. n <= m /\ Owners = 1..n
  BY CatalogueAssumption
<1>4. PICK g \in [1..m -> Labels] : \A a, b \in 1..m : g[a] = g[b] => a = b
  BY <1>1 DEF ExistsBijection, Bijection, Injection, IsInjective
<1>5. Owners \subseteq 1..m
  <2>. SUFFICES ASSUME NEW o \in Owners PROVE o \in 1..m
    OBVIOUS
  <2>1. o \in 1..n
    BY <1>3
  <2>2. QED
    BY <1>1, <1>2, <1>3, <2>1
<1>. PICK f : f = [o \in Owners |-> g[o]]
  OBVIOUS
<1>6. f \in [Owners -> Labels] /\ \A o, p \in Owners : f[o] = f[p] => o = p
  BY <1>4, <1>5
<1>7. QED
  BY <1>6

LEMMA ItemsBegin ==
    ASSUME CatalogueInit
    PROVE  items \in Seq(ItemRow)
<1>. DEFINE label == CHOOSE f \in [Owners -> Labels] : \A o, p \in Owners : f[o] = f[p] => o = p
<1>1. label \in [Owners -> Labels]
  BY LabelsEnough
<1>2. items = [o \in Owners |-> [owner |-> o, label |-> label[o], flag |-> TRUE, there |-> TRUE]]
  BY DEF CatalogueInit
<1>. HIDE DEF label
<1>. PICK n : n = Cardinality(Owners)
  OBVIOUS
<1>3. n \in Nat /\ Owners = 1..n
  BY FS_CardinalityType, CatalogueAssumption
<1>4. items \in [Owners -> ItemRow]
  BY <1>1, <1>2 DEF ItemRow
<1>5. items \in [1..n -> ItemRow]
  BY <1>3, <1>4
<1>6. QED
  BY <1>3, <1>5

LEMMA UsersBegin ==
    ASSUME UserInit
    PROVE  UsersTyped
<1>. PICK x : x = [profile |-> CHOOSE p \in Profiles : TRUE, prefs |-> [k \in PrefKeys |-> Unset]]
  OBVIOUS
<1>1. users = [u \in UserIds |-> {x}] /\ tangled = {}
  BY DEF UserInit
<1>2. (CHOOSE p \in Profiles : TRUE) \in Profiles
  BY UsersAssumption
<1>3. x \in UserRow
  BY <1>2 DEF UserRow, Preferences
<1>4. QED
  BY <1>1, <1>3 DEF UsersTyped, One

LEMMA FloorBegins ==
    ASSUME FloorInit
    PROVE  OrderOK
<1>1. CASE orders = <<>> /\ segments = <<>>
  BY <1>1 DEF FloorInit, OrderOK
<1>2. ASSUME NEW n \in Numbers, NEW t \in Times,
             orders = <<[number |-> n, closed |-> FALSE, there |-> TRUE]>>,
             segments = <<[order |-> 1, start |-> t, end |-> Never, duration |-> 0,
                           active |-> TRUE]>>
      PROVE  OrderOK
  <2>. PICK order : order = [number |-> n, closed |-> FALSE, there |-> TRUE]
    OBVIOUS
  <2>. PICK segment : segment = [order |-> 1, start |-> t, end |-> Never, duration |-> 0,
                                 active |-> TRUE]
    OBVIOUS
  <2>1. order \in OrderRow
    BY <1>2 DEF OrderRow
  <2>2. 1 \in OrderIds
    BY <1>2, ProductionAssumption DEF OrderIds
  <2>3. segment \in SegmentRow
    BY <1>2, <2>2 DEF SegmentRow
  <2>4. orders \in Seq(OrderRow)
    BY <1>2, <2>1
  <2>5. segments \in Seq(SegmentRow)
    BY <1>2, <2>3
  <2>6. QED
    BY <2>4, <2>5 DEF OrderOK, OrderRow, SegmentRow, FloorInit
<1>3. QED
  BY <1>1, <1>2 DEF FloorInit

LEMMA CacheBegins == Init => CacheInv
<1>. SUFFICES ASSUME Init PROVE CacheInv
  OBVIOUS
<1>1. /\ cache = <<>> /\ ops = 0 /\ faults = 0 /\ now = 0 /\ shown = <<>> /\ part \in Parts
      /\ pc = [r \in Requests |-> "idle"] /\ arg = [r \in Requests |-> NoArg]
  BY DEF Init, CacheInit
<1>2. DOMAIN cache = {}
  BY <1>1
<1>3. DeptOK
  <2>1. OeeInv /\ oee = <<>> /\ irregular = {}
    BY OeeInit DEF Init, DeptInit
  <2>. PICK row : row = [name |-> CHOOSE n \in Names : TRUE, active |-> TRUE, filters |-> TRUE]
    OBVIOUS
  <2>2. depts = <<row>>
    BY DEF Init, DeptInit
  <2>3. row \in DeptRow
    BY DepartmentsAssumption DEF DeptRow
  <2>4. depts \in Seq(DeptRow)
    BY <2>2, <2>3
  <2>5. oee \in Seq(OeeRow) /\ DOMAIN oee = {}
    BY <2>1
  <2>6. QED
    BY <2>1, <2>4, <2>5 DEF DeptOK, DeptRow, OeeRow
<1>4. UsersTyped
  BY UsersBegin DEF Init
<1>5. SessionOK
  <2>1. MaxTime \in Nat
    BY BoundsAssumption
  <2>2. QED
    BY <2>1 DEF Init, SessionInit, SessionOK
<1>6. OrderOK
  BY FloorBegins DEF Init
<1>7. CatalogueOK
  <2>1. CatalogueInit
    BY DEF Init
  <2>2. QED
    BY <2>1, ItemsBegin DEF CatalogueInit, CatalogueOK, ItemRow
<1>8. TablesTyped
  BY <1>3, <1>4, <1>5, <1>6, <1>7 DEF TablesTyped
<1>9. \A r \in Requests : ArgOK(pc[r], arg[r])
  BY <1>1 DEF ArgOK, DeptArg, OeeSteps, UserArg, FloorArg, CatalogueArg, CacheArg, NoArg
<1>10. Typed
  BY <1>1, <1>2, <1>8, <1>9, BoundsAssumption DEF Typed
<1>11. Timed
  <2>1. Answers = {}
    BY <1>1, <1>2 DEF Answers
  <2>2. shown \in [Answers -> 0..now]
    BY <1>1, <2>1
  <2>3. QED
    BY <1>1, <1>2, <2>2 DEF Timed
<1>12. QED
  BY <1>10, <1>11 DEF CacheInv

LEMMA CacheRequestKeeps ==
    ASSUME Typed, OeeInv, OeeInv', UNCHANGED part, NEW r \in Requests, Request(r)
    PROVE  Keeps
<1>1. CASE /\ part = "departments" /\ (DeptStep(r) \/ DeptRequest(r))
           /\ UNCHANGED <<userTables, sessionTables, floorTables, catalogueTables, referenceTables>>
  BY <1>1, CacheDeptRequestKeeps
<1>2. CASE /\ part = "users" /\ (UserStep(r) \/ UserRequest(r))
           /\ UNCHANGED <<deptTables, sessionTables, floorTables, catalogueTables, referenceTables>>
  BY <1>2, CacheUserRequestKeeps
<1>3. CASE /\ part = "sessions" /\ (SessionStep(r) \/ SessionRequest(r))
           /\ UNCHANGED <<deptTables, floorTables, catalogueTables, referenceTables>>
  BY <1>3, CacheSessionRequestKeeps
<1>4. CASE /\ part = "production" /\ (FloorStep(r) \/ FloorRequest(r))
           /\ UNCHANGED <<deptTables, userTables, sessionTables, catalogueTables, referenceTables>>
  BY <1>4, CacheFloorRequestKeeps
<1>5. CASE /\ part = "catalogue" /\ (CatalogueStep(r) \/ CatalogueRequest(r))
           /\ UNCHANGED <<deptTables, userTables, sessionTables, floorTables, referenceTables>>
  BY <1>5, CacheCatalogueRequestKeeps
<1>6. CASE /\ part = "references" /\ (RowDelete(r) \/ ReferenceRequest(r))
           /\ UNCHANGED <<deptTables, userTables, sessionTables, floorTables, catalogueTables>>
  BY <1>6, CacheReferenceRequestKeeps
<1>7. QED
  BY <1>1, <1>2, <1>3, <1>4, <1>5, <1>6 DEF Request

LEMMA CacheNext ==
    ASSUME CacheInv, OeeInv, OeeInv', [Next]_vars
    PROVE  CacheInv'
<1>1. CASE UNCHANGED vars
  <2>1. UNCHANGED <<tables, part, cache, pc, arg, ops, faults, now, shown>>
    BY <1>1 DEF vars, requestVars
  <2>2. Keys' = Keys /\ Grows /\ TablesTyped'
    BY <2>1, SameTables DEF CacheInv, Typed
  <2>3. ASSUME NEW q \in Requests
        PROVE  ArgOK(pc[q], arg[q])'
    <3>1. ArgOK(pc[q], arg[q])
      BY DEF CacheInv, Typed
    <3>2. QED
      BY <2>1, <2>2, <3>1, ArgsStay
  <2>4. Typed'
    BY <2>1, <2>2, <2>3 DEF CacheInv, Typed
  <2>5. Timed'
    BY <2>1 DEF CacheInv, Timed, Timely, Answers
  <2>6. QED
    BY <2>4, <2>5 DEF CacheInv
<1>2. CASE Next
  <2>1. Show /\ UNCHANGED part
    BY <1>2 DEF Next
  <2>2. Typed /\ Timed
    BY DEF CacheInv
  <2>3. CASE Interceptor
    BY <2>1, <2>2, <2>3, CacheInterceptorKeeps, TimedStays DEF Keeps, CacheInv
  <2>4. ASSUME NEW r \in Requests, CacheStep(r) \/ Request(r)
        PROVE  CacheInv'
    <3>1. Keeps
      BY <2>1, <2>2, <2>4, CacheStepKeeps, CacheRequestKeeps
    <3>2. QED
      BY <2>1, <2>2, <3>1, TimedStays DEF Keeps, CacheInv
  <2>5. QED
    BY <1>2, <2>3, <2>4 DEF Next
<1>3. QED
  BY <1>1, <1>2

\* An answer that is served was what the database showed at most a route's time to live
\* ago, and the time that its GET took from reading it to storing it: for any number of
\* requests, of failures and restarts between their awaits, and of rows, although no
\* write takes an answer back.
THEOREM AnswersDoNotOutlive == Spec => []AnswersExpire
<1>1. OeeInv /\ CacheInv => AnswersExpire
  BY TimedExpires
<1>2. OeeInv /\ CacheInv /\ [Next]_vars => (OeeInv /\ CacheInv)'
  BY OeeNext, CacheNext
<1>3. Init => OeeInv /\ CacheInv
  BY OeeInit, CacheBegins
<1>4. QED
  BY <1>1, <1>2, <1>3, PTL DEF Spec


-------------------------------------------------------------------------------
\* A set that has 0 and with a number the next has them all.
LEMMA AllNumbers ==
    ASSUME NEW T, 0 \in T, \A n \in Nat : n \in T => n + 1 \in T
    PROVE  \A n \in Nat : n \in T
<1>. SUFFICES ASSUME Nat \ T # {} PROVE FALSE
  OBVIOUS
<1>1. PICK x \in Nat \ T : \A y \in Nat \ T : x <= y
  BY LeastOf
<1>2. x # 0 /\ x \in Nat
  BY <1>1
<1>3. x - 1 \in Nat /\ ~(x <= x - 1) /\ (x - 1) + 1 = x
  BY <1>2
<1>4. x - 1 \in T
  BY <1>1, <1>3
<1>5. QED
  BY <1>1, <1>3, <1>4

\* What a function gives that is applied again and again from s, up to n times.
Iterated(g, s, F, n) ==
    /\ DOMAIN g = 0..n
    /\ g[0] = s
    /\ \A k \in 0..n : k # n => g[k + 1] = F[g[k]]

LEMMA Extended ==
    ASSUME NEW s, NEW F, NEW n \in Nat, NEW g, Iterated(g, s, F, n)
    PROVE  Iterated([k \in 0..(n + 1) |-> IF k = n + 1 THEN F[g[n]] ELSE g[k]], s, F, n + 1)
<1>. DEFINE h == [k \in 0..(n + 1) |-> IF k = n + 1 THEN F[g[n]] ELSE g[k]]
<1>1. DOMAIN h = 0..(n + 1) /\ h[n + 1] = F[g[n]] /\ \A k \in 0..n : h[k] = g[k]
  OBVIOUS
<1>2. h[0] = s
  BY <1>1 DEF Iterated
<1>3. ASSUME NEW k \in 0..(n + 1), k # n + 1
      PROVE  h[k + 1] = F[h[k]]
  <2>1. k \in 0..n /\ h[k] = g[k]
    BY <1>1, <1>3
  <2>2. CASE k = n
    BY <1>1, <2>1, <2>2
  <2>3. CASE k # n
    <3>1. k + 1 \in 0..n
      BY <2>1, <2>3
    <3>2. h[k + 1] = g[k + 1] /\ g[k + 1] = F[g[k]]
      BY <1>1, <2>1, <2>3, <3>1 DEF Iterated
    <3>3. QED BY <2>1, <3>2
  <2>4. QED BY <2>2, <2>3
<1>4. QED
  BY <1>1, <1>2, <1>3 DEF Iterated

LEMMA SameIterates ==
    ASSUME NEW s, NEW F, NEW n \in Nat, NEW m \in Nat, NEW g, NEW h,
           Iterated(g, s, F, n), Iterated(h, s, F, m)
    PROVE  \A k \in 0..n : k <= m => g[k] = h[k]
<1>. DEFINE T == {k \in Nat : k \in 0..n /\ k <= m => g[k] = h[k]}
<1>1. 0 \in T
  BY DEF Iterated
<1>2. ASSUME NEW k \in Nat, k \in T
      PROVE  k + 1 \in T
  <2>. SUFFICES ASSUME k + 1 \in 0..n, k + 1 <= m
                PROVE  g[k + 1] = h[k + 1]
    OBVIOUS
  <2>1. k \in 0..n /\ k # n /\ k \in 0..m /\ k # m /\ k <= m
    OBVIOUS
  <2>2. g[k] = h[k]
    BY <1>2, <2>1
  <2>3. g[k + 1] = F[g[k]] /\ h[k + 1] = F[h[k]]
    BY <2>1 DEF Iterated
  <2>4. QED BY <2>2, <2>3
<1>3. \A k \in Nat : k \in T
  <2>. HIDE DEF T
  <2>1. QED BY <1>1, <1>2, AllNumbers
<1>4. QED
  BY <1>3

\* A function on Nat that starts with s and goes on with F.
Runs(f, s, F) == f = [n \in Nat |-> IF n = 0 THEN s ELSE F[f[n - 1]]]

\* Such a function exists: what a recursive definition on the naturals needs.
LEMMA RunExists ==
    ASSUME NEW s, NEW F
    PROVE  \E f : Runs(f, s, F)
<1>. DEFINE T == {n \in Nat : \E g : Iterated(g, s, F, n)}
<1>1. \A n \in Nat : n \in T
  <2>1. 0 \in T
    <3>1. Iterated([k \in 0..0 |-> s], s, F, 0)
      BY DEF Iterated
    <3>2. QED BY <3>1
  <2>2. ASSUME NEW n \in Nat, n \in T PROVE n + 1 \in T
    <3>1. PICK g : Iterated(g, s, F, n)
      BY <2>2
    <3>2. \E h : Iterated(h, s, F, n + 1)
      BY <3>1, Extended
    <3>3. QED BY <3>2
  <2>. HIDE DEF T
  <2>3. QED BY <2>1, <2>2, AllNumbers
<1>. DEFINE g(n) == CHOOSE h : Iterated(h, s, F, n)
            f == [n \in Nat |-> g(n)[n]]
<1>2. \A n \in Nat : Iterated(g(n), s, F, n)
  BY <1>1
<1>. HIDE DEF g
<1>3. f[0] = s
  <2>1. Iterated(g(0), s, F, 0)
    BY <1>2
  <2>2. QED BY <2>1 DEF Iterated
<1>4. ASSUME NEW n \in Nat, n # 0
      PROVE  f[n] = F[f[n - 1]]
  <2>1. /\ n - 1 \in Nat /\ n - 1 \in 0..n /\ n - 1 # n /\ (n - 1) + 1 = n
        /\ n - 1 \in 0..(n - 1) /\ n - 1 <= n
    BY <1>4
  <2>2. Iterated(g(n), s, F, n) /\ Iterated(g(n - 1), s, F, n - 1)
    BY <1>2, <2>1
  <2>3. g(n)[n] = F[g(n)[n - 1]]
    BY <2>1, <2>2 DEF Iterated
  <2>4. g(n - 1)[n - 1] = g(n)[n - 1]
    BY <2>1, <2>2, SameIterates
  <2>5. QED BY <2>1, <2>3, <2>4
<1>5. Runs(f, s, F)
  <2>1. DOMAIN f = Nat /\ f = [n \in Nat |-> f[n]]
    OBVIOUS
  <2>. HIDE DEF f
  <2>2. \A n \in Nat : f[n] = IF n = 0 THEN s ELSE F[f[n - 1]]
    BY <1>3, <1>4
  <2>3. QED BY <2>1, <2>2 DEF Runs
<1>6. QED
  BY <1>5

\* Growing subsets of a finite set, of which two that are next to each other and equal
\* are followed by no other: the last that Row and Gone compute is followed by none.
LEMMA Settles ==
    ASSUME NEW D, IsFiniteSet(D), NEW g, g[0] \subseteq D,
           \A n \in Nat : g[n] \subseteq D => g[n] \subseteq g[n + 1] /\ g[n + 1] \subseteq D,
           \A n \in Nat : g[n + 1] = g[n] => g[n + 2] = g[n + 1]
    PROVE  /\ \A n \in Nat : g[0] \subseteq g[n] /\ g[n] \subseteq D
           /\ Cardinality(D) \in Nat /\ g[Cardinality(D) + 1] = g[Cardinality(D)]
<1>. DEFINE V == {n \in Nat : g[0] \subseteq g[n] /\ g[n] \subseteq D}
<1>1. \A n \in Nat : n \in V
  <2>1. 0 \in V /\ \A n \in Nat : n \in V => n + 1 \in V
    OBVIOUS
  <2>. HIDE DEF V
  <2>2. QED BY <2>1, AllNumbers
<1>2. \A n \in Nat : g[0] \subseteq g[n] /\ g[n] \subseteq D /\ g[n] \subseteq g[n + 1]
  BY <1>1
<1>. DEFINE N == Cardinality(D)
<1>3. N \in Nat
  BY FS_CardinalityType
<1>. SUFFICES ASSUME g[N + 1] # g[N] PROVE FALSE
  BY <1>2, <1>3
<1>4. \A n \in Nat : IsFiniteSet(g[n]) /\ Cardinality(g[n]) \in Nat /\ Cardinality(g[n]) <= N
  BY <1>2, <1>3, FS_Subset, FS_CardinalityType
\* Counted from the last one down, no two neighbours are equal.
<1>. DEFINE T == {k \in Nat : k <= N => g[(N - k) + 1] # g[N - k]}
<1>5. \A k \in Nat : k \in T
  <2>1. 0 \in T
    BY <1>3
  <2>2. ASSUME NEW k \in Nat, k \in T PROVE k + 1 \in T
    <3>. SUFFICES ASSUME k + 1 <= N PROVE g[(N - (k + 1)) + 1] # g[N - (k + 1)]
      OBVIOUS
    <3>. DEFINE m == N - (k + 1)
    <3>1. m \in Nat /\ m + 1 = N - k /\ m + 2 = (N - k) + 1 /\ k <= N
      BY <1>3
    <3>2. g[m + 2] # g[m + 1]
      BY <2>2, <3>1
    <3>. HIDE DEF m
    <3>3. g[m + 1] # g[m]
      BY <3>1, <3>2
    <3>4. QED BY <3>3 DEF m
  <2>. HIDE DEF T
  <2>3. QED BY <2>1, <2>2, AllNumbers
<1>6. \A n \in Nat : n <= N => g[n + 1] # g[n]
  <2>1. ASSUME NEW n \in Nat, n <= N PROVE g[n + 1] # g[n]
    <3>1. N - n \in Nat /\ N - n <= N /\ N - (N - n) = n
      BY <1>3, <2>1
    <3>2. N - n \in T
      BY <1>5, <3>1
    <3>3. QED BY <3>1, <3>2
  <2>2. QED BY <2>1
<1>. DEFINE U == {k \in Nat : k <= N + 1 => k <= Cardinality(g[k])}
<1>7. \A k \in Nat : k \in U
  <2>1. 0 \in U
    BY <1>4
  <2>2. ASSUME NEW k \in Nat, k \in U PROVE k + 1 \in U
    <3>. SUFFICES ASSUME k + 1 <= N + 1 PROVE k + 1 <= Cardinality(g[k + 1])
      OBVIOUS
    <3>1. k <= N /\ k <= N + 1 /\ k + 1 \in Nat
      BY <1>3
    <3>2. k <= Cardinality(g[k])
      BY <2>2, <3>1
    <3>3. g[k] \in SUBSET g[k + 1] /\ g[k + 1] # g[k] /\ IsFiniteSet(g[k + 1])
      BY <1>2, <1>4, <1>6, <3>1
    <3>4. Cardinality(g[k]) <= Cardinality(g[k + 1]) /\ Cardinality(g[k]) # Cardinality(g[k + 1])
      BY <3>3, FS_Subset
    <3>5. Cardinality(g[k]) \in Nat /\ Cardinality(g[k + 1]) \in Nat
      BY <1>4, <3>1
    <3>6. QED BY <3>2, <3>4, <3>5
  <2>. HIDE DEF U
  <2>3. QED BY <2>1, <2>2, AllNumbers
<1>8. N + 1 \in Nat /\ N + 1 \in U
  BY <1>3, <1>7
<1>9. N + 1 <= Cardinality(g[N + 1]) /\ Cardinality(g[N + 1]) <= N /\ Cardinality(g[N + 1]) \in Nat
  BY <1>3, <1>4, <1>8
<1>. HIDE DEF N
<1>10. QED
  BY <1>3, <1>9

\* The entities, and what is said of each of them: which tables it refers to, and what
\* becomes of a reference when a row that can be deleted goes.
Sound(u, table) ==
    \A rel \in table.relations :
        /\ rel.target \in DOMAIN Tables
        /\ rel.column \in table.columns /\ rel.target \in Deletable \cup {"verification_codes"} =>
              \/ rel.onDelete = "NO_ACTION"
              \/ rel.onDelete = "SET_NULL" /\ u = "invitations" /\ rel.column = "invited_by"
              \/ rel.onDelete = "CASCADE" /\ u = "verification_codes" /\ rel.target = "users"
        /\ u \in Records => rel.column \in table.columns /\ rel.onDelete = "NO_ACTION"

EntityNames ==
    <<"companies", "plans", "locations", "users", "operators", "shifts",
      "departments", "department_settings", "department_oee_settings",
      "location_departments", "operator_departments", "operator_sessions",
      "invitations", "organization_invitations", "verification_codes",
      "system_configurations", "subscriptions", "transactions", "work_order",
      "work_order_statuses", "work_order_custom_statuses", "conditional_status_rules",
      "work_order_status_history", "work_order_downtime", "work_order_operators",
      "time_segments", "qc_rejections", "location_statuses", "rejection_categories",
      "rejection_reasons", "downtime_categories", "downtime_reasons", "equipment",
      "process_steps", "schedule_files", "schedule_data", "company_column_mappings",
      "column_mapping_history", "schedule_api_keys", "schedule_operator_assignments",
      "partnumber_info", "products", "product_categories", "product_cost_history",
      "product_pricing", "product_vendors">>

LEMMA TableNames == DOMAIN Tables = {EntityNames[i] : i \in 1..46}
  BY DEF Tables, EntityNames

LEMMA FiniteSchema == IsFiniteSet(DOMAIN Tables)
<1>. DEFINE f == [i \in 1..46 |-> EntityNames[i]]
<1>1. IsFiniteSet(1..46)
  <2>1. PICK n \in Int : n = 46
    OBVIOUS
  <2>2. IsFiniteSet(1..n)
    BY FS_Interval
  <2>3. QED
    BY <2>1, <2>2
<1>2. f \in Surjection(1..46, DOMAIN Tables)
  BY TableNames DEF Surjection
<1>. HIDE DEF f
<1>3. QED
  BY <1>1, <1>2, FS_Surjection

LEMMA SoundTables == \A u \in DOMAIN Tables : Sound(u, Tables[u])
<1>1. Sound("companies", Table({}, {})) /\ Sound("plans", Table({}, {}))
  BY DEF Sound, Table
<1>2. /\ Sound("locations", Location)
      /\ Sound("users", User)
      /\ Sound("operators", Operator)
      /\ Sound("shifts", Shift)
      /\ Sound("departments", Department)
      /\ Sound("department_settings", DepartmentSetting)
      /\ Sound("department_oee_settings", DepartmentOeeSetting)
      /\ Sound("location_departments", LocationDepartment)
  BY
     DEF Tables, Sound, Table, Relation, Ref, RestrictTo, Cascade, SetNull, Deletable, Records,
         Location, User, Operator, Shift, Department, DepartmentSetting, DepartmentOeeSetting,
         LocationDepartment
<1>3. /\ Sound("operator_departments", OperatorDepartment)
      /\ Sound("operator_sessions", OperatorSession)
      /\ Sound("invitations", Invitation)
      /\ Sound("organization_invitations", OrganizationInvitation)
      /\ Sound("verification_codes", VerificationCode)
      /\ Sound("system_configurations", SystemConfiguration)
      /\ Sound("subscriptions", Subscription)
      /\ Sound("transactions", Transaction)
  BY
     DEF Tables, Sound, Table, Relation, Ref, RestrictTo, Cascade, SetNull, Deletable, Records,
         OperatorDepartment, OperatorSession, Invitation, OrganizationInvitation,
         VerificationCode, SystemConfiguration, Subscription, Transaction
<1>4. /\ Sound("work_order", WorkOrder)
      /\ Sound("work_order_statuses", WorkOrderStatus)
      /\ Sound("work_order_custom_statuses", WorkOrderCustomStatus)
      /\ Sound("conditional_status_rules", ConditionalStatusRule)
      /\ Sound("work_order_status_history", WorkOrderStatusHistory)
      /\ Sound("work_order_downtime", WorkOrderDowntime)
      /\ Sound("work_order_operators", WorkOrderOperator)
      /\ Sound("time_segments", TimeSegment)
  BY
     DEF Tables, Sound, Table, Relation, Ref, RestrictTo, Cascade, SetNull, Deletable, Records,
         WorkOrder, WorkOrderStatus, WorkOrderCustomStatus, ConditionalStatusRule,
         WorkOrderStatusHistory, WorkOrderDowntime, WorkOrderOperator, TimeSegment
<1>5. /\ Sound("qc_rejections", QCRejection)
      /\ Sound("location_statuses", LocationStatus)
      /\ Sound("rejection_categories", RejectionCategory)
      /\ Sound("rejection_reasons", RejectionReason)
      /\ Sound("downtime_categories", DowntimeCategory)
      /\ Sound("downtime_reasons", DowntimeReason)
      /\ Sound("equipment", EquipmentEntity)
      /\ Sound("process_steps", ProcessStep)
  BY
     DEF Tables, Sound, Table, Relation, Ref, RestrictTo, Cascade, SetNull, Deletable, Records,
         QCRejection, LocationStatus, RejectionCategory, RejectionReason, DowntimeCategory,
         DowntimeReason, EquipmentEntity, ProcessStep
<1>6. /\ Sound("schedule_files", ScheduleFile)
      /\ Sound("schedule_data", ScheduleData)
      /\ Sound("company_column_mappings", CompanyColumnMapping)
      /\ Sound("column_mapping_history", ColumnMappingHistory)
      /\ Sound("schedule_api_keys", ScheduleApiKey)
      /\ Sound("schedule_operator_assignments", ScheduleOperatorAssignment)
      /\ Sound("partnumber_info", PartnumberInfo)
      /\ Sound("products", Product)
  BY
     DEF Tables, Sound, Table, Relation, Ref, RestrictTo, Cascade, SetNull, Deletable, Records,
         ScheduleFile, ScheduleData, CompanyColumnMapping, ColumnMappingHistory, ScheduleApiKey,
         ScheduleOperatorAssignment, PartnumberInfo, Product
<1>7. /\ Sound("product_categories", ProductCategory)
      /\ Sound("product_cost_history", ProductCostHistory)
      /\ Sound("product_pricing", ProductPricing)
      /\ Sound("product_vendors", ProductVendor)
  BY
     DEF Tables, Sound, Table, Relation, Ref, RestrictTo, Cascade, SetNull, Deletable, Records,
         ProductCategory, ProductCostHistory, ProductPricing, ProductVendor
<1>8. QED
  BY <1>1, <1>2, <1>3, <1>4, <1>5, <1>6, <1>7 DEF Tables

\* A row stands with everything it refers to, directly or not.
LEMMA RowIsClosed ==
    ASSUME NEW t \in DOMAIN Tables
    PROVE  /\ Row(t) \subseteq DOMAIN Tables
           /\ \A u \in Row(t) : \A rel \in Tables[u].relations : rel.target \in Row(t)
<1>. DEFINE D == DOMAIN Tables
            Near(X) == X \cup {rel.target : rel \in UNION {Tables[u].relations : u \in X}}
            F == [X \in SUBSET D |-> Near(X)]
<1>1. \A X \in SUBSET D : Near(X) \in SUBSET D /\ X \subseteq Near(X) /\ F[X] = Near(X)
  BY SoundTables DEF Sound
<1>2. PICK f : Runs(f, {t}, F)
  BY RunExists
<1>. HIDE DEF F, Near
<1>3. f[0] = {t} /\ \A n \in Nat : f[n + 1] = F[f[n]]
  <2>1. \A n \in Nat : f[n] = IF n = 0 THEN {t} ELSE F[f[n - 1]]
    BY <1>2 DEF Runs
  <2>2. \A n \in Nat : n + 1 \in Nat /\ n + 1 # 0 /\ (n + 1) - 1 = n
    OBVIOUS
  <2>3. QED BY <2>1, <2>2
<1>4. \A n \in Nat : f[n] \in SUBSET D
  <2>1. /\ f[0] \subseteq D
        /\ \A n \in Nat : f[n] \subseteq D => f[n] \subseteq f[n + 1] /\ f[n + 1] \subseteq D
    BY <1>1, <1>3
  <2>2. \A n \in Nat : f[n + 1] = f[n] => f[n + 2] = f[n + 1]
    <3>1. \A n \in Nat : n + 1 \in Nat /\ n + 2 = (n + 1) + 1
      OBVIOUS
    <3>2. QED BY <1>3, <3>1
  <2>. HIDE DEF D
  <2>3. IsFiniteSet(D)
    BY FiniteSchema DEF D
  <2>4. QED BY <2>1, <2>2, <2>3, Settles
<1>5. f = [n \in Nat |-> IF n = 0 THEN {t} ELSE Near(f[n - 1])]
  <2>1. f = [n \in Nat |-> IF n = 0 THEN {t} ELSE F[f[n - 1]]]
    BY <1>2 DEF Runs
  <2>2. \A n \in Nat : n # 0 => n - 1 \in Nat
    OBVIOUS
  <2>3. \A n \in Nat : n # 0 => F[f[n - 1]] = Near(f[n - 1])
    BY <1>1, <1>4, <2>2
  <2>4. QED BY <2>1, <2>3
<1>. DEFINE row == CHOOSE g : g = [n \in Nat |-> IF n = 0 THEN {t} ELSE Near(g[n - 1])]
<1>6. row = [n \in Nat |-> IF n = 0 THEN {t} ELSE Near(row[n - 1])]
  BY <1>5
<1>7. Row(t) = row[Cardinality(D)]
  BY DEF Row, Near
<1>. HIDE DEF row
<1>8. row[0] = {t} /\ \A n \in Nat : row[n + 1] = Near(row[n])
  <2>1. \A n \in Nat : row[n] = IF n = 0 THEN {t} ELSE Near(row[n - 1])
    BY <1>6
  <2>2. \A n \in Nat : n + 1 \in Nat /\ n + 1 # 0 /\ (n + 1) - 1 = n
    OBVIOUS
  <2>3. QED BY <2>1, <2>2
<1>9. /\ \A n \in Nat : row[n] \subseteq D
      /\ Cardinality(D) \in Nat /\ row[Cardinality(D) + 1] = row[Cardinality(D)]
  <2>1. /\ row[0] \subseteq D
        /\ \A n \in Nat : row[n] \subseteq D => row[n] \subseteq row[n + 1] /\ row[n + 1] \subseteq D
    BY <1>1, <1>8
  <2>2. \A n \in Nat : row[n + 1] = row[n] => row[n + 2] = row[n + 1]
    <3>1. \A n \in Nat : n + 1 \in Nat /\ n + 2 = (n + 1) + 1
      OBVIOUS
    <3>2. QED BY <1>8, <3>1
  <2>. HIDE DEF D
  <2>3. IsFiniteSet(D)
    BY FiniteSchema DEF D
  <2>4. QED BY <2>1, <2>2, <2>3, Settles
<1>10. Near(Row(t)) = Row(t)
  BY <1>7, <1>8, <1>9
<1>11. QED
  BY <1>7, <1>9, <1>10 DEF Near

\* A delete takes the row, nothing outside a set that no cascade leads into, and all
\* that cascades from what it takes.
LEMMA GoneIs ==
    ASSUME NEW t \in DOMAIN Tables, present \subseteq DOMAIN Tables,
           NEW S \in SUBSET DOMAIN Tables, t \in S,
           \A u \in present : \A rel \in Held(u) :
               rel.onDelete = "CASCADE" /\ rel.target \in S => u \in S
    PROVE  /\ t \in Gone(t) /\ Gone(t) \subseteq S
           /\ \A u \in present : \A rel \in Held(u) :
                  rel.onDelete = "CASCADE" /\ rel.target \in Gone(t) => u \in Gone(t)
<1>. DEFINE D == DOMAIN Tables
            More(X) == X \cup {u \in present :
                           \E rel \in Held(u) : rel.onDelete = "CASCADE" /\ rel.target \in X}
            F == [X \in SUBSET D |-> More(X)]
<1>1. \A X \in SUBSET D : More(X) \in SUBSET D /\ X \subseteq More(X) /\ F[X] = More(X)
  OBVIOUS
<1>2. \A X \in SUBSET S : More(X) \in SUBSET S
  OBVIOUS
<1>3. PICK f : Runs(f, {t}, F)
  BY RunExists
<1>. HIDE DEF F, More
<1>4. f[0] = {t} /\ \A n \in Nat : f[n + 1] = F[f[n]]
  <2>1. \A n \in Nat : f[n] = IF n = 0 THEN {t} ELSE F[f[n - 1]]
    BY <1>3 DEF Runs
  <2>2. \A n \in Nat : n + 1 \in Nat /\ n + 1 # 0 /\ (n + 1) - 1 = n
    OBVIOUS
  <2>3. QED BY <2>1, <2>2
<1>5. \A n \in Nat : f[n] \in SUBSET D
  <2>1. /\ f[0] \subseteq D
        /\ \A n \in Nat : f[n] \subseteq D => f[n] \subseteq f[n + 1] /\ f[n + 1] \subseteq D
    BY <1>1, <1>4
  <2>2. \A n \in Nat : f[n + 1] = f[n] => f[n + 2] = f[n + 1]
    <3>1. \A n \in Nat : n + 1 \in Nat /\ n + 2 = (n + 1) + 1
      OBVIOUS
    <3>2. QED BY <1>4, <3>1
  <2>. HIDE DEF D
  <2>3. IsFiniteSet(D)
    BY FiniteSchema DEF D
  <2>4. QED BY <2>1, <2>2, <2>3, Settles
<1>6. f = [n \in Nat |-> IF n = 0 THEN {t} ELSE More(f[n - 1])]
  <2>1. f = [n \in Nat |-> IF n = 0 THEN {t} ELSE F[f[n - 1]]]
    BY <1>3 DEF Runs
  <2>2. \A n \in Nat : n # 0 => n - 1 \in Nat
    OBVIOUS
  <2>3. \A n \in Nat : n # 0 => F[f[n - 1]] = More(f[n - 1])
    BY <1>1, <1>5, <2>2
  <2>4. QED BY <2>1, <2>3
<1>. DEFINE gone == CHOOSE g : g = [n \in Nat |-> IF n = 0 THEN {t} ELSE More(g[n - 1])]
<1>7. gone = [n \in Nat |-> IF n = 0 THEN {t} ELSE More(gone[n - 1])]
  BY <1>6
<1>8. Gone(t) = gone[Cardinality(D)]
  BY DEF Gone, More
<1>. HIDE DEF gone
<1>9. gone[0] = {t} /\ \A n \in Nat : gone[n + 1] = More(gone[n])
  <2>1. \A n \in Nat : gone[n] = IF n = 0 THEN {t} ELSE More(gone[n - 1])
    BY <1>7
  <2>2. \A n \in Nat : n + 1 \in Nat /\ n + 1 # 0 /\ (n + 1) - 1 = n
    OBVIOUS
  <2>3. QED BY <2>1, <2>2
<1>. DEFINE Grown(X) ==
                /\ gone[0] \subseteq X
                /\ \A n \in Nat : gone[n] \subseteq X =>
                       gone[n] \subseteq gone[n + 1] /\ gone[n + 1] \subseteq X
<1>10. Grown(D) /\ Grown(S)
  BY <1>1, <1>2, <1>9
<1>11. \A n \in Nat : gone[n + 1] = gone[n] => gone[n + 2] = gone[n + 1]
  <2>1. \A n \in Nat : n + 1 \in Nat /\ n + 2 = (n + 1) + 1
    OBVIOUS
  <2>2. QED BY <1>9, <2>1
<1>12. IsFiniteSet(D) /\ IsFiniteSet(S)
  BY FiniteSchema, FS_Subset
<1>. HIDE DEF D
<1>13. Cardinality(D) \in Nat /\ gone[Cardinality(D) + 1] = gone[Cardinality(D)]
  BY <1>10, <1>11, <1>12, Settles
<1>14. \A n \in Nat : gone[0] \subseteq gone[n] /\ gone[n] \subseteq S
  BY <1>10, <1>11, <1>12, Settles
<1>15. More(Gone(t)) = Gone(t)
  BY <1>8, <1>9, <1>13
<1>16. t \in Gone(t) /\ Gone(t) \subseteq S
  BY <1>8, <1>9, <1>13, <1>14
<1>17. QED
  BY <1>15, <1>16 DEF More

RefersTo(t) == {rel.target : rel \in Tables[t].relations}

\* The rows that are there, and what the requests that delete one look for.
RowsInv ==
    /\ present \subseteq DOMAIN Tables
    /\ unset \subseteq {<<"invitations", "invited_by">>}
    /\ \A t \in Records \cap present : RefersTo(t) \subseteq present
DeletesInv == \A r \in Requests : pc[r] = "delete_row" => arg[r].other \in Deletable

LEMMA RowsBegin == ReferenceInit => RowsInv
<1>. SUFFICES ASSUME ReferenceInit PROVE RowsInv
  OBVIOUS
<1>1. PICK t \in DOMAIN Tables : present = Row(t)
  BY DEF ReferenceInit
<1>2. QED
  BY <1>1, RowIsClosed DEF ReferenceInit, RowsInv, RefersTo

LEMMA RowDeleteKeeps ==
    ASSUME RowsInv, DeletesInv, NEW r \in Requests, DOMAIN pc = Requests, RowDelete(r)
    PROVE  RowsInv' /\ RowsKept
<1>. DEFINE t == arg[r].other
            S == IF t = "users" THEN {"users", "verification_codes"} ELSE {t}
<1>1. pc[r] = "delete_row" /\ pc'[r] = "idle"
  BY DEF RowDelete, Finish, Goto
<1>2. t \in Deletable /\ t \in DOMAIN Tables /\ S \subseteq DOMAIN Tables
      /\ S \subseteq Deletable \cup {"verification_codes"} /\ t \in S
  BY <1>1 DEF DeletesInv, Deletable, Tables
<1>3. ASSUME NEW u \in present, NEW rel \in Held(u), rel.target \in S
      PROVE  \/ rel.onDelete = "NO_ACTION"
             \/ rel.onDelete = "SET_NULL" /\ u = "invitations" /\ rel.column = "invited_by"
             \/ rel.onDelete = "CASCADE" /\ u = "verification_codes" /\ rel.target = "users"
  BY <1>2, <1>3, SoundTables DEF RowsInv, Held, Sound
<1>4. ASSUME NEW u \in Records \cap present, NEW rel \in Tables[u].relations
      PROVE  rel \in Held(u) /\ rel.onDelete = "NO_ACTION" /\ rel.target \in present
  BY SoundTables DEF RowsInv, Held, Sound, Records, RefersTo
<1>5. CASE UNCHANGED referenceTables
  BY <1>4, <1>5 DEF referenceTables, RowsInv, RowsKept
<1>6. CASE /\ t \in present /\ ~Refused(t)
           /\ present' = present \ Gone(t)
           /\ unset' = {c \in unset : c[1] \notin Gone(t)}
                       \cup {<<c[1], c[2].column>> : c \in Severed(t)}
  <2>1. /\ t \in Gone(t) /\ Gone(t) \subseteq S
        /\ \A u \in present : \A rel \in Held(u) :
              rel.onDelete = "CASCADE" /\ rel.target \in Gone(t) => u \in Gone(t)
    <3>1. \A u \in present : \A rel \in Held(u) :
             rel.onDelete = "CASCADE" /\ rel.target \in S => u \in S
      BY <1>3
    <3>. HIDE DEF S, t
    <3>2. QED BY <1>2, <3>1, GoneIs DEF RowsInv
  \* What loses a reference is an invitation.
  <2>2. ASSUME NEW u \in present \ Gone(t), NEW rel \in Held(u), rel.target \in Gone(t)
        PROVE  rel.onDelete = "SET_NULL" /\ u = "invitations" /\ rel.column = "invited_by"
    <3>1. <<u, rel>> \in Severed(t)
      BY <2>2 DEF Severed
    <3>2. <<u, rel>>[2] = rel
      OBVIOUS
    <3>3. rel.onDelete # "NO_ACTION"
      BY <1>6, <3>1, <3>2 DEF Refused
    <3>4. QED BY <1>3, <2>1, <2>2, <3>3
  <2>3. unset' \subseteq {<<"invitations", "invited_by">>}
    <3>1. \A c \in Severed(t) : <<c[1], c[2].column>> = <<"invitations", "invited_by">>
      BY <2>2 DEF Severed
    <3>2. QED BY <1>6, <3>1 DEF RowsInv
  <2>4. ASSUME NEW u \in Records \cap present', NEW rel \in Tables[u].relations
        PROVE  rel.target \in present'
    <3>1. u \in present \ Gone(t) /\ u \in Records \cap present
      BY <1>6, <2>4
    <3>2. rel \in Held(u) /\ rel.onDelete = "NO_ACTION" /\ rel.target \in present
      BY <1>4, <3>1
    <3>3. QED BY <1>6, <2>2, <3>1, <3>2
  <2>5. RowsInv'
    BY <1>6, <2>3, <2>4 DEF RowsInv, RefersTo
  <2>6. RowsKept
    <3>1. \A u \in present \ present' : t = u \/ (u = "verification_codes" /\ t = "users")
      BY <1>6, <2>1
    <3>2. QED BY <1>1, <2>3, <2>4, <3>1 DEF RowsKept
  <2>7. QED BY <2>5, <2>6
<1>7. QED
  BY <1>5, <1>6 DEF RowDelete

-------------------------------------------------------------------------------
(***************************************************************************)
(* What is written back later.  A request that has read a row and will     *)
(* write it holds a copy that differs from the row in what it was asked to *)
(* change and in nothing else, and no other request holds one: or the      *)
(* history says that they overlapped.                                      *)
(***************************************************************************)

PrefsInv ==
    \A r \in Requests : (pc[r] = "prefs" /\ arg[r].row \notin tangled) =>
        /\ \A x \in users[arg[r].row] : \A k \in PrefKeys \ {arg[r].other} :
              x.prefs[k] = arg[r].loaded[k]
        /\ \A q \in Requests : pc[q] = "prefs" /\ arg[q].row = arg[r].row => q = r

\* A segment that is about to end has not ended.
EndsInv ==
    \A r \in Requests : (pc[r] = "end" /\ arg[r].row \notin rivals) =>
        /\ segments[arg[r].row].end = Never
        /\ \A q \in Requests : pc[q] \in {"patch", "end"} /\ arg[q].row = arg[r].row => q = r

\* Rows that are saved are changed in no other way.
Columns == {"label", "flag", "there"}
SavesInv ==
    \A r \in Requests :
        /\ pc[r] = "save" => Its.change = "save"
        /\ pc[r] = "setting" => Its.change = "find"
        /\ (pc[r] = "save" /\ arg[r].row \notin mixed) =>
              /\ \A f \in Columns \ {arg[r].other} : items[arg[r].row][f] = arg[r].loaded[f]
              /\ \A q \in Requests : pc[q] = "save" /\ arg[q].row = arg[r].row => q = r

WritesInv ==
    /\ RowsInv
    /\ part = "references" => DeletesInv
    /\ part = "users" => PrefsInv
    /\ part = "production" => EndsInv
    /\ part = "catalogue" => SavesInv
AllKept == PreferencesKept /\ EndsKept /\ ColumnsKept /\ RowsKept

\* Tables that stay as they are lose nothing.
LEMMA UntouchedKept ==
    /\ UsersTyped /\ UNCHANGED userTables => PreferencesKept
    /\ UNCHANGED floorTables => EndsKept
    /\ UNCHANGED catalogueTables => ColumnsKept
    /\ RowsInv /\ UNCHANGED referenceTables => RowsInv' /\ RowsKept
<1>1. UsersTyped /\ UNCHANGED userTables => PreferencesKept
  BY DEF UsersTyped, One, userTables, PreferencesKept
<1>2. UNCHANGED floorTables => EndsKept
  BY DEF floorTables, EndsKept
<1>3. UNCHANGED catalogueTables => ColumnsKept
  BY DEF catalogueTables, ColumnsKept
<1>4. RowsInv /\ UNCHANGED referenceTables => RowsInv' /\ RowsKept
  BY DEF referenceTables, RowsInv, RowsKept, RefersTo
<1>5. QED
  BY <1>1, <1>2, <1>3, <1>4

\* Where requests wait that will write what they have read, or delete.
Writing == {"prefs", "patch", "end", "setting", "save", "delete_row"}

\* A step that leaves the tables as they are, and brings no request to such an await.
LEMMA QuietLosesNothing ==
    ASSUME UsersTyped, WritesInv, UNCHANGED <<tables, part>>,
           \A q \in Requests : pc'[q] \in Writing => pc'[q] = pc[q] /\ arg'[q] = arg[q]
    PROVE  WritesInv' /\ AllKept
<1>1. UNCHANGED <<userTables, floorTables, catalogueTables, referenceTables>>
  BY DEF tables
<1>2. UNCHANGED <<users, tangled, segments, rivals, resource, items, mixed>>
  BY <1>1 DEF userTables, floorTables, catalogueTables
<1>3. AllKept /\ RowsInv'
  BY <1>1, UntouchedKept DEF AllKept, WritesInv
<1>4. DeletesInv => DeletesInv'
  BY DEF DeletesInv, Writing
<1>5. PrefsInv => PrefsInv'
  BY <1>2 DEF PrefsInv, Writing
<1>6. EndsInv => EndsInv'
  BY <1>2 DEF EndsInv, Writing
<1>7. SavesInv => SavesInv'
  BY <1>2 DEF SavesInv, Writing, Its
<1>8. QED
  BY <1>3, <1>4, <1>5, <1>6, <1>7 DEF WritesInv

LEMMA QuietTurn ==
    ASSUME Typed, WritesInv, UNCHANGED <<tables, part>>, NEW r \in Requests, NEW label, NEW a,
           Moved(r, label, a), label \notin Writing
    PROVE  WritesInv' /\ AllKept
<1>1. Turn(r, label, a)
  BY MovedTurns
<1>2. \A q \in Requests : pc'[q] \in Writing => pc'[q] = pc[q] /\ arg'[q] = arg[q]
  BY <1>1 DEF Turn
<1>3. UsersTyped
  BY DEF Typed, TablesTyped
<1>4. QED
  BY <1>2, <1>3, QuietLosesNothing

LEMMA RereadMoves ==
    ASSUME NEW r \in Requests, NEW exists, Reread(r, exists)
    PROVE  \E label \in {"idle", "evict"} : \E a : Moved(r, label, a)
BY Moves DEF Reread

-------------------------------------------------------------------------------
\* The preferences.

\* A request writes a row of the same preferences, or none.
LEMMA ProfileLosesNothing ==
    ASSUME UsersTyped, NEW u \in UserIds, NEW row, users' = [users EXCEPT ![u] = row],
           \A y \in row : \E x \in users[u] : y.prefs = x.prefs
    PROVE  /\ PreferencesKept
           /\ \A v \in UserIds : \A y \in users'[v] : \E x \in users[v] : y.prefs = x.prefs
<1>1. \A v \in UserIds : \A y \in users'[v] : \E x \in users[v] : y.prefs = x.prefs
  BY DEF UsersTyped
<1>2. \A v \in UserIds : \A x, y \in users[v] : x = y
  BY DEF UsersTyped, One
<1>3. QED
  BY <1>1, <1>2 DEF PreferencesKept

LEMMA ProfileKeepsCopies ==
    ASSUME Typed, PrefsInv, NEW r \in Requests, NEW label, NEW a, Moved(r, label, a),
           label # "prefs", tangled' = tangled,
           \A v \in UserIds : \A y \in users'[v] : \E x \in users[v] : y.prefs = x.prefs
    PROVE  PrefsInv'
<1>1. Turn(r, label, a)
  BY MovedTurns
<1>. SUFFICES ASSUME NEW q \in Requests, pc'[q] = "prefs", arg'[q].row \notin tangled
              PROVE  /\ \A x \in users'[arg'[q].row] : \A k \in PrefKeys \ {arg'[q].other} :
                            x.prefs[k] = arg'[q].loaded[k]
                     /\ \A p \in Requests : pc'[p] = "prefs" /\ arg'[p].row = arg'[q].row => p = q
  BY DEF PrefsInv
<1>2. q # r /\ pc[q] = "prefs" /\ arg'[q] = arg[q]
  BY <1>1 DEF Turn
<1>3. arg[q].row \in UserIds
  BY <1>2 DEF Typed, ArgOK, UserArg
<1>4. \A x \in users'[arg[q].row] : \A k \in PrefKeys \ {arg[q].other} :
         x.prefs[k] = arg[q].loaded[k]
  BY <1>2, <1>3 DEF PrefsInv
<1>5. \A p \in Requests : pc'[p] = "prefs" /\ arg'[p].row = arg'[q].row => p = q
  BY <1>1, <1>2 DEF PrefsInv, Turn
<1>6. QED
  BY <1>2, <1>4, <1>5

LEMMA ProfileSteps ==
    ASSUME UsersTyped, NEW r \in Requests, NEW u \in UserIds,
           UserRemove(r, u) \/ \E p \in Profiles : UserUpdate(r, u, p)
    PROVE  /\ tangled' = tangled
           /\ \E label \in {"reread", "evict"} : \E a : Moved(r, label, a)
           /\ \E row : /\ users' = [users EXCEPT ![u] = row]
                       /\ \A y \in row : \E x \in users[u] : y.prefs = x.prefs
<1>1. ASSUME UserRemove(r, u)
      PROVE  /\ tangled' = tangled
             /\ \E label \in {"reread", "evict"} : \E a : Moved(r, label, a)
             /\ \E row : /\ users' = [users EXCEPT ![u] = row]
                         /\ \A y \in row : \E x \in users[u] : y.prefs = x.prefs
  <2>1. tangled' = tangled /\ users' = [users EXCEPT ![u] = {}]
    BY <1>1 DEF UserRemove
  <2>2. \E a : Moved(r, "evict", a)
    BY <1>1, Moves DEF UserRemove
  <2>3. \E row : /\ users' = [users EXCEPT ![u] = row]
                /\ \A y \in row : \E x \in users[u] : y.prefs = x.prefs
    <3>. PICK row : row = {}
      OBVIOUS
    <3>1. users' = [users EXCEPT ![u] = row]
      BY <2>1
    <3>2. \A y \in row : \E x \in users[u] : y.prefs = x.prefs
      OBVIOUS
    <3>3. QED
      BY <3>1, <3>2
  <2>4. QED
    BY <2>1, <2>2, <2>3
<1>2. ASSUME NEW p \in Profiles, UserUpdate(r, u, p)
      PROVE  /\ tangled' = tangled
             /\ \E label \in {"reread", "evict"} : \E a : Moved(r, label, a)
             /\ \E row : /\ users' = [users EXCEPT ![u] = row]
                         /\ \A y \in row : \E x \in users[u] : y.prefs = x.prefs
  <2>. PICK row : row = {[x EXCEPT !.profile = p] : x \in users[u]}
    OBVIOUS
  <2>1. users' = [users EXCEPT ![u] = row]
    BY <1>2 DEF UserUpdate, With, UsersTyped
  <2>2. \A x \in users[u] : [x EXCEPT !.profile = p].prefs = x.prefs
    BY DEF UsersTyped, UserRow
  <2>3. \A y \in row : \E x \in users[u] : y.prefs = x.prefs
    BY <2>2
  <2>4. tangled' = tangled /\ \E label \in {"reread", "evict"} : \E a : Moved(r, label, a)
    BY <1>2, Moves DEF UserUpdate
  <2>5. QED
    BY <2>1, <2>3, <2>4
<1>3. QED
  BY <1>1, <1>2

LEMMA PrefReadLosesNothing ==
    ASSUME Typed, PrefsInv, NEW r \in Requests, NEW u \in UserIds, NEW j, NEW v,
           PrefRead(r, u, j, v)
    PROVE  PreferencesKept /\ PrefsInv'
<1>1. UsersTyped
  BY DEF Typed, TablesTyped
<1>2. /\ users' = users
      /\ tangled' = IF \E q \in Requests : pc[q] = "prefs" /\ arg[q].row = u
                      THEN tangled \cup {u} ELSE tangled
  BY DEF PrefRead
<1>3. PICK x \in users[u] : Begin(r, "prefs", [NoArg EXCEPT !.row = u, !.other = j,
                                              !.loaded = [x.prefs EXCEPT ![j] = v]])
  BY DEF PrefRead
<1>. PICK a : a = [NoArg EXCEPT !.row = u, !.other = j, !.loaded = [x.prefs EXCEPT ![j] = v]]
  OBVIOUS
<1>4. a.row = u /\ a.other = j /\ a.loaded = [x.prefs EXCEPT ![j] = v]
  BY DEF NoArg
<1>5. Turn(r, "prefs", a)
  BY <1>3, Moves, MovedTurns
<1>6. \A y \in users[u] : \A k \in PrefKeys \ {j} : y.prefs[k] = a.loaded[k]
  <2>1. \A y \in users[u] : y = x /\ y.prefs \in Preferences
    BY <1>1 DEF UsersTyped, One, UserRow
  <2>2. QED
    BY <1>4, <2>1 DEF Preferences
<1>7. PreferencesKept
  BY <1>1, <1>2 DEF PreferencesKept, UsersTyped, One
<1>8. PrefsInv'
  <2>. SUFFICES ASSUME NEW q \in Requests, pc'[q] = "prefs", arg'[q].row \notin tangled'
                PROVE  /\ \A y \in users[arg'[q].row] : \A k \in PrefKeys \ {arg'[q].other} :
                              y.prefs[k] = arg'[q].loaded[k]
                       /\ \A p \in Requests : pc'[p] = "prefs" /\ arg'[p].row = arg'[q].row => p = q
    BY <1>2 DEF PrefsInv
  <2>1. CASE q = r
    <3>1. arg'[q] = a /\ \A p \in Requests : ~(pc[p] = "prefs" /\ arg[p].row = u)
      BY <1>2, <1>4, <1>5, <2>1 DEF Turn
    <3>2. \A p \in Requests : pc'[p] = "prefs" /\ arg'[p].row = u => p = r
      BY <1>5, <3>1 DEF Turn
    <3>3. QED
      BY <1>4, <1>6, <2>1, <3>1, <3>2
  <2>2. CASE q # r
    <3>1. pc[q] = "prefs" /\ arg'[q] = arg[q] /\ arg[q].row \notin tangled /\ arg[q].row # u
      BY <1>2, <1>5, <2>2 DEF Turn
    <3>2. ASSUME NEW p \in Requests, pc'[p] = "prefs", arg'[p].row = arg[q].row PROVE p = q
      <4>1. pc[p] = "prefs" /\ arg[p].row = arg[q].row
        BY <1>4, <1>5, <3>1, <3>2 DEF Turn
      <4>2. QED
        BY <3>1, <4>1 DEF PrefsInv
    <3>3. QED
      BY <3>1, <3>2 DEF PrefsInv
  <2>3. QED
    BY <2>1, <2>2
<1>9. QED
  BY <1>7, <1>8

LEMMA PrefWriteLosesNothing ==
    ASSUME Typed, PrefsInv, NEW r \in Requests, PrefWrite(r)
    PROVE  PreferencesKept /\ PrefsInv'
<1>1. UsersTyped
  BY DEF Typed, TablesTyped
<1>. PICK u, loaded : u = arg[r].row /\ loaded = arg[r].loaded
  OBVIOUS
<1>2. pc[r] = "prefs" /\ u \in UserIds /\ tangled' = tangled
  BY DEF PrefWrite, Typed, ArgOK, UserArg
<1>3. users' = [users EXCEPT ![u] = {[x EXCEPT !.prefs = loaded] : x \in users[u]}]
  BY <1>1, <1>2 DEF PrefWrite, With, UsersTyped
<1>4. Turn(r, "idle", NoArg)
  BY Moves, MovedTurns DEF PrefWrite
<1>5. \A v \in UserIds \ {u} : users'[v] = users[v]
  BY <1>1, <1>3 DEF UsersTyped
<1>6. \A y \in users'[u] : y.prefs = loaded
  <2>1. \A x \in users[u] : [x EXCEPT !.prefs = loaded].prefs = loaded
    BY <1>1, <1>2 DEF UsersTyped, UserRow
  <2>2. users'[u] = {[x EXCEPT !.prefs = loaded] : x \in users[u]}
    BY <1>1, <1>2, <1>3 DEF UsersTyped
  <2>3. QED
    BY <2>1, <2>2
<1>7. PreferencesKept
  <2>. SUFFICES ASSUME NEW v \in UserIds, NEW x \in users[v], NEW y \in users'[v],
                       NEW k \in PrefKeys, x.prefs[k] # y.prefs[k], v \notin tangled
                PROVE  \E q \in Requests : pc[q] = "prefs" /\ pc'[q] = "idle"
                                           /\ arg[q].row = v /\ arg[q].other = k
    BY DEF PreferencesKept
  <2>1. v = u
    BY <1>1, <1>5 DEF UsersTyped, One
  <2>2. arg[r].other = k
    BY <1>2, <1>6, <2>1 DEF PrefsInv
  <2>3. pc'[r] = "idle"
    BY <1>4 DEF Turn
  <2>4. QED
    BY <1>2, <2>1, <2>2, <2>3
<1>8. PrefsInv'
  <2>. SUFFICES ASSUME NEW q \in Requests, pc'[q] = "prefs", arg'[q].row \notin tangled
                PROVE  /\ \A y \in users'[arg'[q].row] : \A k \in PrefKeys \ {arg'[q].other} :
                              y.prefs[k] = arg'[q].loaded[k]
                       /\ \A p \in Requests : pc'[p] = "prefs" /\ arg'[p].row = arg'[q].row => p = q
    BY <1>2 DEF PrefsInv
  <2>1. q # r /\ pc[q] = "prefs" /\ arg'[q] = arg[q]
    BY <1>4 DEF Turn
  <2>2. arg[q].row # u
    BY <1>2, <2>1 DEF PrefsInv
  <2>3. arg[q].row \in UserIds
    BY <2>1 DEF Typed, ArgOK, UserArg
  <2>4. users'[arg[q].row] = users[arg[q].row]
    BY <1>5, <2>2, <2>3
  <2>5. \A p \in Requests : pc'[p] = "prefs" /\ arg'[p].row = arg[q].row => p = q
    BY <1>4, <2>1 DEF PrefsInv, Turn
  <2>6. QED
    BY <2>1, <2>4, <2>5 DEF PrefsInv
<1>9. QED
  BY <1>7, <1>8

LEMMA UserStepLosesNothing ==
    ASSUME Typed, WritesInv, part = "users", UNCHANGED part, NEW r \in Requests,
           UserStep(r) \/ UserRequest(r),
           UNCHANGED <<deptTables, sessionTables, floorTables, catalogueTables, referenceTables>>
    PROVE  WritesInv' /\ AllKept
<1>1. UsersTyped /\ RowsInv /\ PrefsInv
  BY DEF Typed, TablesTyped, WritesInv
<1>2. SUFFICES ASSUME ~(WritesInv' /\ AllKept) PROVE PreferencesKept /\ PrefsInv'
  BY <1>1, UntouchedKept DEF WritesInv, AllKept
<1>3. CASE Reread(r, users[arg[r].row] # {}) /\ UNCHANGED userTables
  <2>1. UNCHANGED <<tables, part>>
    BY <1>3 DEF tables
  <2>2. PICK label \in {"idle", "evict"} : \E a : Moved(r, label, a)
    BY <1>3, RereadMoves
  <2>3. QED
    BY <1>2, <2>1, <2>2, QuietTurn DEF Writing
<1>4. CASE PrefWrite(r)
  BY <1>1, <1>4, PrefWriteLosesNothing
<1>5. ASSUME NEW u \in UserIds,
             UserRemove(r, u) \/ \E p \in Profiles : UserUpdate(r, u, p)
      PROVE  PreferencesKept /\ PrefsInv'
  <2>1. /\ tangled' = tangled
        /\ \E label \in {"reread", "evict"} : \E a : Moved(r, label, a)
        /\ \E row : /\ users' = [users EXCEPT ![u] = row]
                    /\ \A y \in row : \E x \in users[u] : y.prefs = x.prefs
    BY <1>1, <1>5, ProfileSteps
  <2>2. /\ PreferencesKept
        /\ \A v \in UserIds : \A y \in users'[v] : \E x \in users[v] : y.prefs = x.prefs
    BY <1>1, <2>1, ProfileLosesNothing
  <2>3. QED
    BY <1>1, <2>1, <2>2, ProfileKeepsCopies
<1>6. ASSUME NEW u \in UserIds, NEW j \in PrefKeys, NEW v \in PrefValues \cup {Unset},
             PrefRead(r, u, j, v)
      PROVE  PreferencesKept /\ PrefsInv'
  BY <1>1, <1>6, PrefReadLosesNothing
<1>7. QED
  BY <1>3, <1>4, <1>5, <1>6 DEF UserStep, UserRequest

LEMMA SessionStepLosesNothing ==
    ASSUME Typed, WritesInv, part = "sessions", UNCHANGED part, NEW r \in Requests,
           SessionStep(r) \/ SessionRequest(r),
           UNCHANGED <<deptTables, floorTables, catalogueTables, referenceTables>>
    PROVE  WritesInv' /\ AllKept
<1>1. UsersTyped /\ RowsInv
  BY DEF Typed, TablesTyped, WritesInv
<1>2. SUFFICES PreferencesKept
  BY <1>1, UntouchedKept DEF WritesInv, AllKept
<1>3. CASE UNCHANGED userTables
  BY <1>1, <1>3, UntouchedKept
<1>4. ASSUME NEW u \in UserIds,
             UserRemove(r, u) \/ \E p \in Profiles : UserUpdate(r, u, p)
      PROVE  PreferencesKept
  <2>1. \E row : /\ users' = [users EXCEPT ![u] = row]
                /\ \A y \in row : \E x \in users[u] : y.prefs = x.prefs
    BY <1>1, <1>4, ProfileSteps
  <2>2. QED
    BY <1>1, <2>1, ProfileLosesNothing
<1>5. QED
  BY <1>3, <1>4 DEF SessionStep, SessionRequest

-------------------------------------------------------------------------------
\* The ends of time segments.

\* The segments that there are stay as they are, and no request reads one.
LEMMA SegmentsLoseNothing ==
    ASSUME Typed, EndsInv, rivals' = rivals,
           \A i \in DOMAIN segments : segments'[i] = segments[i],
           \A q \in Requests :
               pc'[q] \in {"patch", "end"} => pc'[q] = pc[q] /\ arg'[q] = arg[q]
    PROVE  EndsKept /\ EndsInv'
<1>1. EndsKept
  BY DEF EndsKept
<1>2. ASSUME NEW q \in Requests, pc'[q] = "end", arg'[q].row \notin rivals'
      PROVE  /\ segments'[arg'[q].row].end = Never
             /\ \A p \in Requests :
                   pc'[p] \in {"patch", "end"} /\ arg'[p].row = arg'[q].row => p = q
  <2>1. pc[q] = "end" /\ arg'[q] = arg[q] /\ arg[q].row \notin rivals
    BY <1>2
  <2>2. arg[q].row \in DOMAIN segments
    BY <2>1 DEF Typed, ArgOK, FloorArg
  <2>3. QED
    BY <2>1, <2>2 DEF EndsInv
<1>3. QED
  BY <1>1, <1>2 DEF EndsInv

LEMMA SegmentReadLosesNothing ==
    ASSUME Typed, EndsInv, NEW r \in Requests, NEW i \in DOMAIN segments, NEW t,
           NEW label \in {"end", "patch"}, SegmentRead(r, i, label, t)
    PROVE  EndsKept /\ EndsInv'
<1>. PICK a : a = [Route({Segment(i)}) EXCEPT !.row = i, !.other = t, !.loaded = segments[i]]
  OBVIOUS
<1>1. a.row = i
  BY DEF Route, NoArg
<1>2. /\ label = "end" => segments[i].end = Never
      /\ Begin(r, label, a)
      /\ segments' = segments
      /\ rivals' = IF \E q \in Requests : pc[q] \in {"patch", "end"} /\ arg[q].row = i
                     THEN rivals \cup {i} ELSE rivals
  BY DEF SegmentRead
<1>3. Turn(r, label, a)
  BY <1>2, Moves, MovedTurns
<1>4. EndsKept
  BY <1>2 DEF EndsKept
<1>5. ASSUME NEW q \in Requests, pc'[q] = "end", arg'[q].row \notin rivals'
      PROVE  /\ segments[arg'[q].row].end = Never
             /\ \A p \in Requests :
                   pc'[p] \in {"patch", "end"} /\ arg'[p].row = arg'[q].row => p = q
  <2>1. CASE q = r
    <3>1. arg'[q] = a /\ label = "end"
      BY <1>3, <1>5, <2>1 DEF Turn
    <3>2. \A p \in Requests : ~(pc[p] \in {"patch", "end"} /\ arg[p].row = i)
      BY <1>1, <1>2, <1>5, <3>1
    <3>3. \A p \in Requests : pc'[p] \in {"patch", "end"} /\ arg'[p].row = i => p = r
      BY <1>3, <3>2 DEF Turn
    <3>4. QED
      BY <1>1, <1>2, <2>1, <3>1, <3>3
  <2>2. CASE q # r
    <3>1. pc[q] = "end" /\ arg'[q] = arg[q] /\ arg[q].row \notin rivals /\ arg[q].row # i
      BY <1>2, <1>3, <1>5, <2>2 DEF Turn
    <3>2. ASSUME NEW p \in Requests, pc'[p] \in {"patch", "end"}, arg'[p].row = arg[q].row
          PROVE  p = q
      <4>1. pc[p] \in {"patch", "end"} /\ arg[p].row = arg[q].row
        BY <1>1, <1>3, <3>1, <3>2 DEF Turn
      <4>2. QED
        BY <3>1, <4>1 DEF EndsInv
    <3>3. QED
      BY <3>1, <3>2 DEF EndsInv
  <2>3. QED
    BY <2>1, <2>2
<1>6. QED
  BY <1>2, <1>4, <1>5 DEF EndsInv

LEMMA SegmentWriteLosesNothing ==
    ASSUME Typed, EndsInv, NEW r \in Requests, pc[r] \in {"patch", "end"}, NEW row,
           SegmentWrite(r, row)
    PROVE  EndsKept /\ EndsInv'
<1>. PICK i, a : i = arg[r].row /\ a = arg[r]
  OBVIOUS
<1>1. segments' = [segments EXCEPT ![i] = row] /\ Goto(r, "reread", a) /\ rivals' = rivals
  BY DEF SegmentWrite
<1>2. Turn(r, "reread", a)
  BY <1>1, Moves, MovedTurns
<1>3. \A j \in DOMAIN segments : j # i => segments'[j] = segments[j]
  BY <1>1
<1>4. EndsKept
  <2>. SUFFICES ASSUME NEW j \in DOMAIN segments, segments[j].end # Never,
                       segments'[j] # segments[j], j \notin rivals
                PROVE  \E q \in Requests : pc[q] = "patch" /\ pc'[q] # "patch" /\ arg[q].row = j
    BY DEF EndsKept
  <2>1. j = i
    BY <1>3
  <2>2. pc[r] = "patch"
    BY <2>1 DEF EndsInv
  <2>3. pc'[r] # "patch"
    BY <1>2 DEF Turn
  <2>4. QED
    BY <2>1, <2>2, <2>3
<1>5. ASSUME NEW q \in Requests, pc'[q] = "end", arg'[q].row \notin rivals
      PROVE  /\ segments'[arg'[q].row].end = Never
             /\ \A p \in Requests :
                   pc'[p] \in {"patch", "end"} /\ arg'[p].row = arg'[q].row => p = q
  <2>1. q # r /\ pc[q] = "end" /\ arg'[q] = arg[q]
    BY <1>2, <1>5 DEF Turn
  <2>2. arg[q].row # i /\ segments[arg[q].row].end = Never
    BY <1>5, <2>1 DEF EndsInv
  <2>3. arg[q].row \in DOMAIN segments
    BY <2>1 DEF Typed, ArgOK, FloorArg
  <2>4. segments'[arg[q].row].end = Never
    BY <1>3, <2>2, <2>3
  <2>5. ASSUME NEW p \in Requests, pc'[p] \in {"patch", "end"}, arg'[p].row = arg[q].row
        PROVE  p = q
    <3>1. pc[p] \in {"patch", "end"} /\ arg[p].row = arg[q].row
      BY <1>2, <2>5 DEF Turn
    <3>2. QED
      BY <1>5, <2>1, <3>1 DEF EndsInv
  <2>6. QED
    BY <2>1, <2>4, <2>5
<1>6. QED
  BY <1>1, <1>4, <1>5 DEF EndsInv

LEMMA FloorStepLosesNothing ==
    ASSUME Typed, WritesInv, part = "production", UNCHANGED part, NEW r \in Requests,
           FloorStep(r) \/ FloorRequest(r),
           UNCHANGED <<deptTables, userTables, sessionTables, catalogueTables, referenceTables>>
    PROVE  WritesInv' /\ AllKept
<1>1. UsersTyped /\ RowsInv /\ EndsInv
  BY DEF Typed, TablesTyped, WritesInv
<1>2. SUFFICES EndsKept /\ EndsInv'
  BY <1>1, UntouchedKept DEF WritesInv, AllKept
<1>3. ASSUME NEW label, NEW a, Moved(r, label, a), label \notin {"patch", "end"},
             UNCHANGED <<segments, rivals>>
      PROVE  EndsKept /\ EndsInv'
  <2>1. Turn(r, label, a)
    BY <1>3, MovedTurns
  <2>2. \A q \in Requests : pc'[q] \in {"patch", "end"} => pc'[q] = pc[q] /\ arg'[q] = arg[q]
    BY <1>3, <2>1 DEF Turn
  <2>3. QED
    BY <1>1, <1>3, <2>2, SegmentsLoseNothing
<1>4. CASE OrderInsert(r) \/ OrderWrite(r) \/ OrderDelete(r)
  <2>1. Moved(r, "idle", NoArg) /\ UNCHANGED <<segments, rivals>>
    BY <1>4, Moves DEF OrderInsert, OrderWrite, OrderDelete
  <2>2. QED
    BY <1>3, <2>1
<1>5. CASE Reread(r, TRUE) /\ UNCHANGED floorTables
  <2>1. UNCHANGED <<segments, rivals>>
    BY <1>5 DEF floorTables
  <2>2. PICK label \in {"idle", "evict"} : \E a : Moved(r, label, a)
    BY <1>5, RereadMoves
  <2>3. QED
    BY <1>3, <2>1, <2>2
<1>6. CASE SegmentPatch(r)
  BY <1>1, <1>6, SegmentWriteLosesNothing DEF SegmentPatch
<1>7. CASE SegmentEnd(r)
  BY <1>1, <1>7, SegmentWriteLosesNothing DEF SegmentEnd
<1>8. ASSUME NEW n \in Numbers, OrderRead(r, n)
      PROVE  EndsKept /\ EndsInv'
  <2>1. UNCHANGED <<segments, rivals>> /\ \E a : Moved(r, "start", a)
    BY <1>8, Moves DEF OrderRead, floorTables
  <2>2. QED
    BY <1>3, <2>1
<1>9. ASSUME NEW x, NEW label \in {"change_order", "close_order", "delete_order"},
             OrderFind(r, x, label)
      PROVE  EndsKept /\ EndsInv'
  <2>1. UNCHANGED <<segments, rivals>> /\ \E a : Moved(r, label, a)
    BY <1>9, Moves DEF OrderFind, floorTables
  <2>2. QED
    BY <1>3, <2>1
<1>10. ASSUME NEW w \in OrderIds, NEW t \in Times, SegmentCreate(r, w, t)
       PROVE  EndsKept /\ EndsInv'
  <2>. PICK row : row = [order |-> w, start |-> t, end |-> Never, duration |-> 0, active |-> TRUE]
    OBVIOUS
  <2>1. UNCHANGED <<pc, arg, rivals>> /\ segments' = Append(segments, row)
    BY <1>10 DEF SegmentCreate
  <2>2. \A i \in DOMAIN segments : segments'[i] = segments[i]
    BY <2>1, OrderRows
  <2>3. QED
    BY <1>1, <2>1, <2>2, SegmentsLoseNothing
<1>11. ASSUME NEW i \in DOMAIN segments, NEW t \in Times,
              SegmentRead(r, i, "end", t) \/ SegmentRead(r, i, "patch", t)
       PROVE  EndsKept /\ EndsInv'
  BY <1>1, <1>11, SegmentReadLosesNothing
<1>12. QED
  BY <1>4, <1>5, <1>6, <1>7, <1>8, <1>9, <1>10, <1>11 DEF FloorStep, FloorRequest

-------------------------------------------------------------------------------
\* The columns of catalogues.

\* Of requests that wait to save, those of other rows, or of row i if it is not written.
LEMMA SavesStay ==
    ASSUME Typed, SavesInv, NEW r \in Requests, NEW label, NEW a, Turn(r, label, a),
           label \notin {"save", "setting"}, resource' = resource, mixed \subseteq mixed',
           \A q \in Requests \ {r} : (pc[q] = "save" /\ arg[q].row \notin mixed') =>
               \A f \in Columns : items'[arg[q].row][f] = items[arg[q].row][f]
    PROVE  SavesInv'
<1>1. Its' = Its
  BY DEF Its
<1>2. ASSUME NEW q \in Requests, pc'[q] \in {"save", "setting"}
      PROVE  q # r /\ pc[q] = pc'[q] /\ arg'[q] = arg[q]
  BY <1>2 DEF Turn
<1>3. ASSUME NEW q \in Requests, pc'[q] = "save", arg'[q].row \notin mixed'
      PROVE  /\ \A f \in Columns \ {arg'[q].other} :
                   items'[arg'[q].row][f] = arg'[q].loaded[f]
             /\ \A p \in Requests : pc'[p] = "save" /\ arg'[p].row = arg'[q].row => p = q
  <2>1. q # r /\ pc[q] = "save" /\ arg'[q] = arg[q] /\ arg[q].row \notin mixed
    BY <1>2, <1>3
  <2>2. \A f \in Columns \ {arg[q].other} : items'[arg[q].row][f] = arg[q].loaded[f]
    BY <1>3, <2>1 DEF SavesInv
  <2>3. ASSUME NEW p \in Requests, pc'[p] = "save", arg'[p].row = arg[q].row
        PROVE  p = q
    <3>1. pc[p] = "save" /\ arg[p].row = arg[q].row
      BY <1>2, <2>3
    <3>2. QED
      BY <2>1, <3>1 DEF SavesInv
  <2>4. QED
    BY <2>1, <2>2, <2>3
<1>4. QED
  BY <1>1, <1>2, <1>3 DEF SavesInv

\* A step after which the rows that there were are the same.
LEMMA ItemsLoseNothing ==
    ASSUME Typed, SavesInv, NEW r \in Requests, NEW label, NEW a, Moved(r, label, a),
           label \notin {"save", "setting"}, resource' = resource, mixed' = mixed,
           \A i \in DOMAIN items : items'[i] = items[i]
    PROVE  ColumnsKept /\ SavesInv'
<1>1. Turn(r, label, a)
  BY MovedTurns
<1>2. ColumnsKept
  BY DEF ColumnsKept
<1>3. \A q \in Requests : pc[q] = "save" => arg[q].row \in DOMAIN items
  BY DEF Typed, ArgOK, CatalogueArg
<1>4. QED
  BY <1>1, <1>2, <1>3, SavesStay

\* Only column f of row i is written, or more of the row when it is mixed.
OneColumn(i, f) ==
    /\ \A j \in DOMAIN items \ {i} : items'[j] = items[j]
    /\ i \in DOMAIN items => \A g \in Columns \ {f} : items'[i][g] = items[i][g] \/ i \in mixed
\* No other request is about to save the row, or it is mixed then.
SavedByNone(r, i) ==
    \A q \in Requests \ {r} : pc[q] = "save" /\ arg[q].row = i => i \in mixed'

LEMMA ColumnLosesNothing ==
    ASSUME Typed, SavesInv, NEW r \in Requests, NEW label, NEW a, Moved(r, label, a),
           label \notin {"save", "setting"}, pc[r] # label,
           resource' = resource, mixed \subseteq mixed', NEW i, NEW f,
           pc[r] = "idle" => a.row = i /\ a.other = f,
           pc[r] # "idle" => arg[r].row = i /\ arg[r].other = f,
           OneColumn(i, f), SavedByNone(r, i)
    PROVE  ColumnsKept /\ SavesInv'
<1>1. Turn(r, label, a)
  BY MovedTurns
<1>2. \A q \in Requests : pc[q] = "save" => arg[q].row \in DOMAIN items
  BY DEF Typed, ArgOK, CatalogueArg
<1>3. SavesInv'
  BY <1>1, <1>2, SavesStay DEF OneColumn, SavedByNone
<1>4. ColumnsKept
  <2>. SUFFICES ASSUME NEW j \in DOMAIN items, NEW g \in {"label", "flag", "there"},
                       items'[j][g] # items[j][g], j \notin mixed
                PROVE  \E q \in Requests :
                          LET b == IF pc[q] = "idle" THEN arg'[q] ELSE arg[q]
                          IN  pc'[q] # pc[q] /\ b.row = j /\ b.other = g
    BY DEF ColumnsKept
  <2>1. j = i /\ g = f
    BY DEF Columns, OneColumn
  <2>2. pc'[r] = label /\ arg'[r] = a
    BY <1>1 DEF Turn
  <2>3. QED
    BY <2>1, <2>2
<1>5. QED
  BY <1>3, <1>4

\* Where nobody saves what he has loaded.
LEMMA NoSaves ==
    ASSUME SavesInv, Its.change # "save"
    PROVE  \A q \in Requests : pc[q] # "save"
BY DEF SavesInv

LEMMA AboutMixes ==
    ASSUME NEW r \in Requests, NEW label, NEW a, About(r, label, a)
    PROVE  /\ Moved(r, label, a) /\ pc[r] = "idle"
           /\ resource' = resource /\ mixed \subseteq mixed'
           /\ mixed' = mixed \/ a.row \in mixed'
           /\ \A q \in Requests : pc[q] = "save" /\ arg[q].row = a.row => a.row \in mixed'
BY Moves DEF About

\* A request reads a row that it will save, or the setting it will change.
LEMMA ItemReadLosesNothing ==
    ASSUME Typed, SavesInv, NEW r \in Requests, NEW label \in {"save", "setting"}, NEW a,
           About(r, label, a), UNCHANGED items,
           label = "save" => Its.change = "save"
                             /\ \A f \in Columns \ {a.other} : items[a.row][f] = a.loaded[f],
           label = "setting" => Its.change = "find"
    PROVE  ColumnsKept /\ SavesInv'
<1>1. /\ resource' = resource /\ mixed \subseteq mixed'
      /\ \A q \in Requests : pc[q] = "save" /\ arg[q].row = a.row => a.row \in mixed'
  BY AboutMixes
<1>2. Turn(r, label, a)
  BY AboutMixes, MovedTurns
<1>3. ColumnsKept
  BY DEF ColumnsKept
<1>4. Its' = Its
  BY <1>1 DEF Its
<1>5. \A q \in Requests : pc'[q] = "save" => Its'.change = "save"
  BY <1>2, <1>4 DEF SavesInv, Turn
<1>6. \A q \in Requests : pc'[q] = "setting" => Its'.change = "find"
  BY <1>2, <1>4 DEF SavesInv, Turn
<1>7. ASSUME NEW q \in Requests, pc'[q] = "save", arg'[q].row \notin mixed'
      PROVE  /\ \A f \in Columns \ {arg'[q].other} :
                   items[arg'[q].row][f] = arg'[q].loaded[f]
             /\ \A p \in Requests : pc'[p] = "save" /\ arg'[p].row = arg'[q].row => p = q
  <2>1. CASE q = r
    <3>1. arg'[q] = a /\ label = "save"
      BY <1>2, <1>7, <2>1 DEF Turn
    <3>2. \A p \in Requests : ~(pc[p] = "save" /\ arg[p].row = a.row)
      BY <1>1, <1>7, <3>1
    <3>3. \A p \in Requests : pc'[p] = "save" /\ arg'[p].row = a.row => p = r
      BY <1>2, <3>2 DEF Turn
    <3>4. QED
      BY <2>1, <3>1, <3>3
  <2>2. CASE q # r
    <3>1. pc[q] = "save" /\ arg'[q] = arg[q]
      BY <1>2, <1>7, <2>2 DEF Turn
    <3>2. arg[q].row \notin mixed /\ arg[q].row # a.row
      BY <1>1, <1>7, <3>1
    <3>3. ASSUME NEW p \in Requests, pc'[p] = "save", arg'[p].row = arg[q].row
          PROVE  p = q
      <4>1. pc[p] = "save" /\ arg[p].row = arg[q].row
        BY <1>2, <3>2, <3>3 DEF Turn
      <4>2. QED
        BY <3>1, <3>2, <4>1 DEF SavesInv
    <3>4. QED
      BY <3>1, <3>2, <3>3 DEF SavesInv
  <2>3. QED
    BY <2>1, <2>2
<1>8. QED
  BY <1>3, <1>5, <1>6, <1>7 DEF SavesInv

LEMMA ItemUpdateLosesNothing ==
    ASSUME Typed, SavesInv, NEW r \in Requests, NEW i \in DOMAIN items, NEW f, NEW v,
           Settable(f, v), ItemUpdate(r, i, f, v)
    PROVE  ColumnsKept /\ SavesInv'
<1>. PICK a : a = [Route(Evicted(i)) EXCEPT !.row = i, !.other = f]
  OBVIOUS
<1>1. a.row = i /\ a.other = f
  BY DEF Route, NoArg
<1>2. /\ Its.change = "update" /\ About(r, "reread", a)
      /\ items' = IF items[i].there THEN [items EXCEPT ![i][f] = v] ELSE items
  BY DEF ItemUpdate
<1>3. \A q \in Requests : pc[q] # "save"
  BY <1>2, NoSaves
<1>4. /\ \A j \in DOMAIN items \ {i} : items'[j] = items[j]
      /\ \A g \in Columns \ {f} : items'[i][g] = items[i][g]
  <2>1. items[i] \in ItemRow
    BY ItemRows
  <2>2. QED
    BY <1>2, <2>1 DEF Columns, ItemRow
<1>5. Moved(r, "reread", a) /\ pc[r] = "idle" /\ resource' = resource /\ mixed \subseteq mixed'
  BY <1>2, AboutMixes
<1>6. OneColumn(i, f) /\ SavedByNone(r, i)
  BY <1>3, <1>4 DEF OneColumn, SavedByNone
<1>7. QED
  BY ONLY Typed, SavesInv, r \in Requests, <1>1, <1>5, <1>6, ColumnLosesNothing

LEMMA ItemRemoveLosesNothing ==
    ASSUME Typed, SavesInv, NEW r \in Requests, NEW i \in DOMAIN items,
           ItemRemove(r, i)
    PROVE  ColumnsKept /\ SavesInv'
<1>. PICK a : a = [Route(Evicted(i)) EXCEPT !.row = i, !.other = "there"]
  OBVIOUS
<1>1. a.row = i /\ a.other = "there"
  BY DEF Route, NoArg
<1>2. About(r, "evict", a) /\ items' = [items EXCEPT ![i].there = FALSE]
  BY DEF ItemRemove
<1>3. /\ \A j \in DOMAIN items \ {i} : items'[j] = items[j]
      /\ \A g \in Columns \ {"there"} : items'[i][g] = items[i][g]
  <2>1. items[i] \in ItemRow
    BY ItemRows
  <2>2. QED
    BY <1>2, <2>1 DEF Columns, ItemRow
<1>4. /\ Moved(r, "evict", a) /\ pc[r] = "idle" /\ resource' = resource /\ mixed \subseteq mixed'
      /\ \A q \in Requests : pc[q] = "save" /\ arg[q].row = i => i \in mixed'
  BY <1>1, <1>2, AboutMixes
<1>5. OneColumn(i, "there") /\ SavedByNone(r, i)
  BY <1>3, <1>4 DEF OneColumn, SavedByNone
<1>6. QED
  BY ONLY Typed, SavesInv, r \in Requests, <1>1, <1>4, <1>5, ColumnLosesNothing

LEMMA SettingUpdateLosesNothing ==
    ASSUME Typed, SavesInv, NEW r \in Requests, SettingUpdate(r)
    PROVE  ColumnsKept /\ SavesInv'
<1>. PICK i, f, v : i = arg[r].row /\ f = arg[r].other /\ v = arg[r].loaded
  OBVIOUS
<1>. PICK a : a = arg[r]
  OBVIOUS
<1>1. /\ pc[r] = "setting" /\ resource' = resource /\ mixed' = mixed
      /\ \/ Finish(r) /\ items' = items
         \/ items' = [items EXCEPT ![a.row] = [items[a.row] EXCEPT ![a.other] = a.loaded]]
            /\ Goto(r, "evict", a)
  BY DEF SettingUpdate
<1>2. ArgOK(pc[r], arg[r])
  BY DEF Typed
<1>3. i \in DOMAIN items /\ Settable(f, v)
  BY <1>1, <1>2 DEF ArgOK, CatalogueArg
<1>4. \A q \in Requests : pc[q] # "save"
  BY <1>1 DEF SavesInv
<1>5. CASE Finish(r) /\ items' = items
  BY <1>1, <1>5, Moves, ItemsLoseNothing
<1>6. CASE items' = [items EXCEPT ![a.row] = [items[a.row] EXCEPT ![a.other] = a.loaded]]
           /\ Goto(r, "evict", a)
  <2>1. a.row = i /\ a.other = f /\ a.loaded = v
    OBVIOUS
  <2>2. items' = [items EXCEPT ![i] = [items[i] EXCEPT ![f] = v]]
    BY <1>6, <2>1
  <2>3. items[i] \in ItemRow
    BY <1>3, ItemRows
  <2>4. /\ \A j \in DOMAIN items \ {i} : items'[j] = items[j]
        /\ \A g \in Columns \ {f} : items'[i][g] = items[i][g]
    BY <1>3, <2>2, <2>3 DEF Columns, ItemRow
  <2>5. Moved(r, "evict", a)
    BY <1>6, Moves
  <2>6. OneColumn(i, f) /\ SavedByNone(r, i)
    BY <1>4, <2>4 DEF OneColumn, SavedByNone
  <2>7. QED
    BY <1>1, <2>5, <2>6, ColumnLosesNothing
<1>7. QED
  BY <1>1, <1>5, <1>6

LEMMA ItemSaveLosesNothing ==
    ASSUME Typed, SavesInv, NEW r \in Requests, ItemSave(r)
    PROVE  ColumnsKept /\ SavesInv'
<1>. PICK i, f, v : i = arg[r].row /\ f = arg[r].other /\ v = arg[r].loaded
  OBVIOUS
<1>. PICK a : a = arg[r]
  OBVIOUS
<1>1. /\ pc[r] = "save" /\ resource' = resource /\ mixed' = mixed
      /\ \/ Finish(r) /\ items' = items
         \/ items' = [items EXCEPT ![a.row] = a.loaded] /\ Goto(r, "evict", a)
  BY DEF ItemSave
<1>2. ArgOK(pc[r], arg[r])
  BY DEF Typed
<1>3. i \in DOMAIN items
  BY <1>1, <1>2 DEF ArgOK, CatalogueArg
<1>4. i \notin mixed => /\ \A g \in Columns \ {f} : items[i][g] = v[g]
                        /\ \A q \in Requests \ {r} : ~(pc[q] = "save" /\ arg[q].row = i)
  BY <1>1 DEF SavesInv
<1>5. CASE Finish(r) /\ items' = items
  BY <1>1, <1>5, Moves, ItemsLoseNothing
<1>6. CASE items' = [items EXCEPT ![a.row] = a.loaded] /\ Goto(r, "evict", a)
  <2>1. a.row = i /\ a.loaded = v
    OBVIOUS
  <2>2. items' = [items EXCEPT ![i] = v]
    BY <1>6, <2>1
  <2>3. /\ \A j \in DOMAIN items \ {i} : items'[j] = items[j]
        /\ \A g \in Columns \ {f} : items'[i][g] = items[i][g] \/ i \in mixed
    BY <1>3, <1>4, <2>2
  <2>4. Moved(r, "evict", a)
    BY <1>6, Moves
  <2>5. OneColumn(i, f) /\ SavedByNone(r, i)
    BY <1>1, <1>4, <2>3 DEF OneColumn, SavedByNone
  <2>6. QED
    BY <1>1, <2>4, <2>5, ColumnLosesNothing
<1>7. QED
  BY <1>1, <1>5, <1>6

LEMMA ItemFindLosesNothing ==
    ASSUME Typed, SavesInv, NEW r \in Requests, NEW i \in DOMAIN items, NEW f, NEW v,
           Settable(f, v), SettingFind(r, i, f, v) \/ ItemFind(r, i, f, v)
    PROVE  ColumnsKept /\ SavesInv'
<1>1. CASE SettingFind(r, i, f, v)
  <2>. PICK a : a = [Route(Evicted(i)) EXCEPT !.row = i, !.other = f, !.loaded = v]
    OBVIOUS
  <2>1. About(r, "setting", a) /\ UNCHANGED items /\ Its.change = "find"
    BY <1>1 DEF SettingFind
  <2>2. QED
    BY <2>1, ItemReadLosesNothing
<1>2. CASE ItemFind(r, i, f, v)
  <2>. PICK a : a = [Route(Evicted(i)) EXCEPT !.row = i, !.other = f,
                                                    !.loaded = [items[i] EXCEPT ![f] = v]]
    OBVIOUS
  <2>1. a.row = i /\ a.other = f /\ a.loaded = [items[i] EXCEPT ![f] = v]
    BY DEF Route, NoArg
  <2>2. About(r, "save", a) /\ UNCHANGED items /\ Its.change = "save"
    BY <1>2 DEF ItemFind
  <2>3. \A g \in Columns \ {a.other} : items[a.row][g] = a.loaded[g]
    <3>1. items[i] \in ItemRow
      BY ItemRows
    <3>2. QED
      BY <2>1, <3>1 DEF Columns, ItemRow
  <2>4. QED
    BY <2>2, <2>3, ItemReadLosesNothing
<1>3. QED
  BY <1>1, <1>2

LEMMA AppendsKeep ==
    ASSUME Typed, NEW row, row \in ItemRow
    PROVE  \A i \in DOMAIN items : Append(items, row)[i] = items[i]
BY ItemRows

LEMMA CatalogueStepLosesNothing ==
    ASSUME Typed, WritesInv, part = "catalogue", UNCHANGED part, NEW r \in Requests,
           CatalogueStep(r) \/ CatalogueRequest(r),
           UNCHANGED <<deptTables, userTables, sessionTables, floorTables, referenceTables>>
    PROVE  WritesInv' /\ AllKept
<1>1. UsersTyped /\ RowsInv /\ SavesInv
  BY DEF Typed, TablesTyped, WritesInv
<1>2. SUFFICES ColumnsKept /\ SavesInv'
  BY <1>1, UntouchedKept DEF WritesInv, AllKept
<1>3. CASE PlanInsert(r)
  <2>1. Moved(r, "idle", NoArg) /\ resource' = resource /\ mixed' = mixed
    BY <1>3, Moves DEF PlanInsert
  <2>. PICK row : row = [owner |-> 1, label |-> arg[r].loaded, flag |-> TRUE, there |-> TRUE]
    OBVIOUS
  <2>2. arg[r].loaded \in Labels
    BY <1>3 DEF PlanInsert, Typed, ArgOK, CatalogueArg
  <2>3. row \in ItemRow
    BY <2>2, CatalogueAssumption DEF ItemRow
  <2>4. items' = items \/ items' = Append(items, row)
    BY <1>3 DEF PlanInsert
  <2>5. \A i \in DOMAIN items : items'[i] = items[i]
    BY <2>3, <2>4, AppendsKeep
  <2>6. QED
    BY <1>1, <2>1, <2>5, ItemsLoseNothing
<1>4. CASE SettingUpdate(r)
  BY <1>1, <1>4, SettingUpdateLosesNothing
<1>5. CASE ItemSave(r)
  BY <1>1, <1>5, ItemSaveLosesNothing
<1>6. CASE Reread(r, items[arg[r].row].there) /\ UNCHANGED catalogueTables
  <2>1. UNCHANGED <<items, resource, mixed>>
    BY <1>6 DEF catalogueTables
  <2>2. PICK label \in {"idle", "evict"} : \E a : Moved(r, label, a)
    BY <1>6, RereadMoves
  <2>3. QED
    BY <1>1, <2>1, <2>2, ItemsLoseNothing
<1>7. ASSUME NEW code \in Labels, PlanFind(r, code)
      PROVE  ColumnsKept /\ SavesInv'
  <2>1. UNCHANGED <<items, resource, mixed>> /\ \E a : Moved(r, "plan", a)
    BY <1>7, Moves DEF PlanFind, catalogueTables
  <2>2. QED
    BY <1>1, <2>1, ItemsLoseNothing
<1>8. ASSUME NEW o \in Owners, NEW code \in Labels,
             ItemCreate(r, o, code)
      PROVE  ColumnsKept /\ SavesInv'
  <2>. PICK row : row = [owner |-> o, label |-> code, flag |-> TRUE, there |-> TRUE]
    OBVIOUS
  <2>1. row \in ItemRow
    BY DEF ItemRow
  <2>2. /\ items' = Append(items, row) /\ resource' = resource /\ mixed' = mixed
        /\ \E a : Moved(r, "evict", a)
    BY <1>8, Moves DEF ItemCreate
  <2>3. \A i \in DOMAIN items : items'[i] = items[i]
    BY <2>1, <2>2, AppendsKeep
  <2>4. QED
    BY <1>1, <2>2, <2>3, ItemsLoseNothing
<1>9. ASSUME NEW i \in DOMAIN items, ItemRemove(r, i)
      PROVE  ColumnsKept /\ SavesInv'
  BY <1>1, <1>9, ItemRemoveLosesNothing
<1>10. ASSUME NEW i \in DOMAIN items, NEW f, NEW v, Settable(f, v),
              \/ ItemUpdate(r, i, f, v)
              \/ SettingFind(r, i, f, v)
              \/ ItemFind(r, i, f, v)
       PROVE  ColumnsKept /\ SavesInv'
  BY <1>1, <1>10, ItemUpdateLosesNothing, ItemFindLosesNothing
<1>11. /\ \A code \in Labels : Settable("label", code)
       /\ \A flag \in BOOLEAN : Settable("flag", flag)
  BY DEF Settable
<1>12. CASE CatalogueStep(r)
  BY <1>3, <1>4, <1>5, <1>6, <1>12 DEF CatalogueStep
<1>13. CASE CatalogueRequest(r)
  <2>1. ASSUME NEW i \in DOMAIN items, NEW code \in Labels,
               \/ ItemUpdate(r, i, "label", code)
               \/ SettingFind(r, i, "label", code)
               \/ ItemFind(r, i, "label", code)
        PROVE  ColumnsKept /\ SavesInv'
    BY <1>10, <1>11, <2>1
  <2>2. ASSUME NEW i \in DOMAIN items, NEW flag \in BOOLEAN,
               \/ ItemUpdate(r, i, "flag", flag)
               \/ SettingFind(r, i, "flag", flag)
               \/ ItemFind(r, i, "flag", flag)
        PROVE  ColumnsKept /\ SavesInv'
    BY <1>10, <1>11, <2>2
  <2>3. QED
    BY <1>7, <1>8, <1>9, <1>13, <2>1, <2>2 DEF CatalogueRequest
<1>14. QED
  BY <1>12, <1>13

-------------------------------------------------------------------------------
\* All steps.

LEMMA ReferenceStepLosesNothing ==
    ASSUME Typed, WritesInv, part = "references", UNCHANGED part, NEW r \in Requests,
           RowDelete(r) \/ ReferenceRequest(r),
           UNCHANGED <<deptTables, userTables, sessionTables, floorTables, catalogueTables>>
    PROVE  WritesInv' /\ AllKept
<1>1. UsersTyped /\ RowsInv /\ DeletesInv /\ DOMAIN pc = Requests
  BY DEF Typed, TablesTyped, WritesInv
<1>2. SUFFICES RowsInv' /\ DeletesInv' /\ RowsKept
  BY <1>1, UntouchedKept DEF WritesInv, AllKept
<1>3. CASE RowDelete(r)
  <2>1. RowsInv' /\ RowsKept
    BY <1>1, <1>3, RowDeleteKeeps
  <2>2. Turn(r, "idle", NoArg)
    BY <1>3, Moves, MovedTurns DEF RowDelete
  <2>3. DeletesInv'
    BY <1>1, <2>2 DEF DeletesInv, Turn
  <2>4. QED
    BY <2>1, <2>3
<1>4. ASSUME NEW t \in Deletable, DeleteBegin(r, t)
      PROVE  RowsInv' /\ DeletesInv' /\ RowsKept
  <2>. PICK a : a = [NoArg EXCEPT !.other = t]
    OBVIOUS
  <2>1. a.other = t
    BY DEF NoArg
  <2>2. Begin(r, "delete_row", a) /\ UNCHANGED referenceTables
    BY <1>4 DEF DeleteBegin
  <2>3. Turn(r, "delete_row", a)
    BY <2>2, Moves, MovedTurns
  <2>4. DeletesInv'
    BY <1>1, <2>1, <2>3 DEF DeletesInv, Turn
  <2>5. QED
    BY <1>1, <2>2, <2>4, UntouchedKept
<1>5. QED
  BY <1>3, <1>4 DEF ReferenceRequest

LEMMA RequestLosesNothing ==
    ASSUME Typed, WritesInv, UNCHANGED part, NEW r \in Requests, Request(r)
    PROVE  WritesInv' /\ AllKept
<1>1. CASE /\ part = "departments" /\ (DeptStep(r) \/ DeptRequest(r))
           /\ UNCHANGED <<userTables, sessionTables, floorTables, catalogueTables, referenceTables>>
  <2>1. UsersTyped /\ RowsInv
    BY DEF Typed, TablesTyped, WritesInv
  <2>2. QED
    BY <1>1, <2>1, UntouchedKept DEF WritesInv, AllKept
<1>2. CASE /\ part = "users" /\ (UserStep(r) \/ UserRequest(r))
           /\ UNCHANGED <<deptTables, sessionTables, floorTables, catalogueTables, referenceTables>>
  BY <1>2, UserStepLosesNothing
<1>3. CASE /\ part = "sessions" /\ (SessionStep(r) \/ SessionRequest(r))
           /\ UNCHANGED <<deptTables, floorTables, catalogueTables, referenceTables>>
  BY <1>3, SessionStepLosesNothing
<1>4. CASE /\ part = "production" /\ (FloorStep(r) \/ FloorRequest(r))
           /\ UNCHANGED <<deptTables, userTables, sessionTables, catalogueTables, referenceTables>>
  BY <1>4, FloorStepLosesNothing
<1>5. CASE /\ part = "catalogue" /\ (CatalogueStep(r) \/ CatalogueRequest(r))
           /\ UNCHANGED <<deptTables, userTables, sessionTables, floorTables, referenceTables>>
  BY <1>5, CatalogueStepLosesNothing
<1>6. CASE /\ part = "references" /\ (RowDelete(r) \/ ReferenceRequest(r))
           /\ UNCHANGED <<deptTables, userTables, sessionTables, floorTables, catalogueTables>>
  BY <1>6, ReferenceStepLosesNothing
<1>7. QED
  BY <1>1, <1>2, <1>3, <1>4, <1>5, <1>6 DEF Request

LEMMA NextLosesNothing ==
    ASSUME Typed, WritesInv, [Next]_vars
    PROVE  WritesInv' /\ AllKept
<1>0. UsersTyped /\ RowsInv
  BY DEF Typed, TablesTyped, WritesInv
<1>1. CASE UNCHANGED vars
  <2>1. UNCHANGED <<tables, part, pc, arg>>
    BY <1>1 DEF vars, requestVars
  <2>2. QED
    BY <1>0, <2>1, QuietLosesNothing
<1>2. CASE Interceptor /\ UNCHANGED part
  <2>1. UNCHANGED <<tables, part>>
    BY <1>2 DEF Interceptor
  <2>2. CASE Tick
    <3>1. UNCHANGED <<pc, arg>>
      BY <2>2 DEF Tick
    <3>2. QED
      BY <1>0, <2>1, <3>1, QuietLosesNothing
  <2>3. ASSUME NEW r \in Requests, Fail(r)
        PROVE  WritesInv' /\ AllKept
    <3>1. Moved(r, "idle", NoArg)
      BY <2>3 DEF Fail, Moved
    <3>2. QED
      BY <2>1, <3>1, QuietTurn DEF Writing
  <2>4. ASSUME NEW r \in Requests, NEW k \in Keys, Get(r, k)
        PROVE  WritesInv' /\ AllKept
    <3>1. PICK a : Moved(r, "read", a)
      BY <2>4, Moves DEF Get
    <3>2. QED
      BY <2>1, <3>1, QuietTurn DEF Writing
  <2>5. CASE Restart
    <3>1. \A q \in Requests : pc'[q] = "idle"
      BY <2>5 DEF Restart
    <3>2. \A q \in Requests : pc'[q] \notin Writing
      BY <3>1 DEF Writing
    <3>3. QED
      BY <1>0, <2>1, <3>2, QuietLosesNothing
  <2>6. QED
    BY <1>2, <2>2, <2>3, <2>4, <2>5 DEF Interceptor
<1>3. ASSUME NEW r \in Requests, CacheStep(r), UNCHANGED part
      PROVE  WritesInv' /\ AllKept
  <2>1. PICK label \in {"idle", "fill"} : \E a : Moved(r, label, a)
    BY <1>3, CacheStepMoves
  <2>2. UNCHANGED <<tables, part>> /\ label \notin Writing
    BY <1>3 DEF CacheStep, Writing
  <2>3. QED
    BY <2>1, <2>2, QuietTurn
<1>4. ASSUME NEW r \in Requests, Request(r), UNCHANGED part
      PROVE  WritesInv' /\ AllKept
  BY <1>4, RequestLosesNothing
<1>5. QED
  BY <1>1, <1>2, <1>3, <1>4 DEF Next

LEMMA WritesBegin == Init => WritesInv
<1>. SUFFICES ASSUME Init PROVE WritesInv
  OBVIOUS
<1>1. RowsInv
  BY RowsBegin DEF Init
<1>2. \A r \in Requests : pc[r] = "idle"
  BY DEF Init, CacheInit
<1>3. DeletesInv /\ PrefsInv /\ EndsInv /\ SavesInv
  BY <1>2 DEF DeletesInv, PrefsInv, EndsInv, SavesInv
<1>4. QED
  BY <1>1, <1>3 DEF WritesInv

\* Of what is written nothing is lost: a preference, a column of a row or the end of a
\* time segment changes only as a request asks, or where the history says that two
\* overlapped, and a delete takes no row along that another route answers for, and none
\* that a record refers to. For any number of requests, rows, failures and restarts.
THEOREM NothingIsLost == Spec => NothingLost
<1>1. Init => OeeInv /\ CacheInv /\ WritesInv
  BY OeeInit, CacheBegins, WritesBegin
<1>2. OeeInv /\ CacheInv /\ WritesInv /\ [Next]_vars => (OeeInv /\ CacheInv /\ WritesInv)'
  BY OeeNext, CacheNext, NextLosesNothing DEF CacheInv
<1>3. OeeInv /\ CacheInv /\ WritesInv /\ [Next]_vars
        => [PreferencesKept /\ EndsKept /\ ColumnsKept /\ RowsKept]_vars
  BY NextLosesNothing DEF AllKept, CacheInv
<1>4. QED
  BY <1>1, <1>2, <1>3, PTL DEF Spec, NothingLost

LEMMA InvTypes ==
    ASSUME CacheInv, RowsInv
    PROVE  TypeOK
<1>1. Typed
  BY DEF CacheInv
<1>2. ASSUME NEW S, One(S)
      PROVE  Cardinality(S) = 1
  BY <1>2, FS_Singleton DEF One
<1>3. UserOK
  <2>1. UsersTyped
    BY <1>1 DEF Typed, TablesTyped
  <2>2. \A u \in UserIds : Cardinality(users[u]) = 0 \/ Cardinality(users[u]) = 1
    BY <1>2, <2>1, FS_EmptySet DEF UsersTyped
  <2>3. QED
    BY <2>1, <2>2 DEF UsersTyped, UserRow, UserOK
<1>4. ReferenceOK
  <2>1. "invitations" \in DOMAIN Tables /\ "invited_by" \in Tables["invitations"].columns
    BY DEF Tables, Invitation, Table
  <2>2. \A c \in unset : c[1] = "invitations" /\ c[2] = "invited_by"
    BY DEF RowsInv
  <2>3. QED
    BY <2>1, <2>2 DEF RowsInv, ReferenceOK
<1>5. ASSUME NEW r \in Requests, pc[r] = "fill"
      PROVE  arg[r].key \in Keys /\ Cardinality(arg[r].value) = 1
  <2>1. CacheArg(pc[r], arg[r])
    BY <1>1 DEF Typed, ArgOK
  <2>2. QED
    BY <1>2, <1>5, <2>1 DEF CacheArg
<1>6. ASSUME NEW k \in DOMAIN cache
      PROVE  /\ Cardinality(cache[k].value) = 1
             /\ cache[k].delay \in 0..MaxTime /\ cache[k].expires \in 0..(MaxTime + Ttl)
  BY <1>1, <1>2 DEF CacheInv, Typed, Timed, Timely
<1>7. shown \in [Answers -> 0..MaxTime]
  <2>1. shown \in [Answers -> 0..now] /\ now \in 0..MaxTime /\ MaxTime \in Nat
    BY <1>1, BoundsAssumption DEF CacheInv, Timed, Typed
  <2>2. 0..now \subseteq 0..MaxTime
    BY <2>1
  <2>3. QED
    BY <2>1, <2>2
<1>8. QED
  BY <1>1, <1>3, <1>4, <1>5, <1>6, <1>7 DEF Typed, TablesTyped, TypeOK

\* The tables, the cache and what the requests hold have their types: a stored answer
\* is one answer under a key of the service, has its time, and a user is there at most
\* once.
THEOREM ApiTypes == Spec => []TypeOK
<1>1. Init => OeeInv /\ CacheInv /\ WritesInv
  BY OeeInit, CacheBegins, WritesBegin
<1>2. OeeInv /\ CacheInv /\ WritesInv /\ [Next]_vars => (OeeInv /\ CacheInv /\ WritesInv)'
  BY OeeNext, CacheNext, NextLosesNothing DEF CacheInv
<1>3. OeeInv /\ CacheInv /\ WritesInv => TypeOK
  BY InvTypes DEF WritesInv
<1>4. QED
  BY <1>1, <1>2, <1>3, PTL DEF Spec
===============================================================================
