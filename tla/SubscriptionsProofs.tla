------------------------- MODULE SubscriptionsProofs -------------------------
(***************************************************************************)
(* Theorems about Subscriptions, for any finite set of processes, any set  *)
(* of Stripe subscriptions and any number of operations.                   *)
(*                                                                         *)
(* However operations overlap, a row keeps the Stripe subscription it was  *)
(* inserted with, Stripe keeps what it has canceled, and a used trial      *)
(* stays used (Lasting).  What an operation has loaded therefore still     *)
(* says enough when it saves, although the row may have changed since.     *)
(*                                                                         *)
(* The second half supposes that operations do not overlap: then what an   *)
(* operation has read is still so when it writes (SerialInv).              *)
(***************************************************************************)
EXTENDS Subscriptions, TLAPS, FiniteSetTheorems

\* Where an operation has a row, and where that row is one Stripe bills.
WithRow == {"trial_company", "trial_txn", "checkout_company", "checkout_txn",
            "paid_save", "paid_txn", "failed_save", "failed_company",
            "deleted_save", "deleted_company",
            "cancel_stripe", "cancel_save", "cancel_company", "cancel_txn",
            "plan_stripe", "plan_save", "plan_txn"}
Billed == {"checkout_company", "checkout_txn", "paid_save", "paid_txn", "cancel_stripe",
           "plan_stripe", "plan_save", "plan_txn"}
Loads == {"paid_save", "failed_save", "deleted_save", "cancel_stripe", "cancel_save",
          "plan_stripe", "plan_save"}

Ended(s) == s # NoStripe => stripe[s].state = "canceled"

\* What an operation knows of its row when it is about to write.
Knows(p) ==
    LET l == loc[p] IN
    /\ l.pc \in WithRow => l.row \in DOMAIN subs
    /\ l.pc \in Loads => l.sid = subs[l.row].stripe
    /\ l.pc \in Billed => subs[l.row].stripe # NoStripe
    /\ l.pc = "checkout_insert" => l.sid # NoStripe
    /\ l.pc \in {"trial_company", "trial_txn"} => subs[l.row].stripe = NoStripe
    /\ l.pc = "trial_txn" => company.usedTrial
    /\ l.pc \in {"deleted_save", "cancel_save"} => Ended(l.sid)
    /\ l.pc = "paid_save" /\ l.loaded = "canceled" => Ended(l.sid)
    /\ l.pc \in {"plan_stripe", "plan_save"} => l.loaded = "active"

KnowsInv == \A p \in Procs : Knows(p)

IInv == TypeOK /\ KnowsInv /\ CanceledStopsBilling /\ BooksMatchRows

-------------------------------------------------------------------------------
\* What the three statements that write rows do.

LEMMA RowsTyped ==
    ASSUME TypeOK
    PROVE  /\ Len(subs) \in Nat /\ DOMAIN subs = 1..Len(subs)
           /\ \A r \in DOMAIN subs :
                 /\ subs[r].status \in Status
                 /\ subs[r].stripe \in StripeIds \cup {NoStripe}
  <1>1. subs \in Seq(Row)
    BY DEF TypeOK
  <1>2. Len(subs) \in Nat /\ DOMAIN subs = 1..Len(subs) /\ \A r \in DOMAIN subs : subs[r] \in Row
    BY <1>1
  <1>3. QED BY <1>2 DEF Row

LEMMA Inserts ==
    ASSUME TypeOK, NEW s \in StripeIds \cup {NoStripe}, Insert(s)
    PROVE  /\ subs' \in Seq(Row)
           /\ Len(subs) \in Nat /\ Len(subs') = Len(subs) + 1
           /\ DOMAIN subs' = DOMAIN subs \cup {Len(subs) + 1} /\ Len(subs) + 1 \notin DOMAIN subs
           /\ \A r \in DOMAIN subs : subs'[r] = subs[r]
           /\ subs'[Len(subs) + 1].status = "active" /\ subs'[Len(subs) + 1].stripe = s
  <1> DEFINE new == [status |-> "active", stripe |-> s]
  <1>1. subs \in Seq(Row) /\ new \in Row /\ subs' = Append(subs, new)
    BY DEF TypeOK, Insert, Row, Status
  <1>2. new.status = "active" /\ new.stripe = s
    OBVIOUS
  <1> HIDE DEF new
  <1>3. Len(subs) \in Nat /\ DOMAIN subs = 1..Len(subs)
    BY <1>1
  <1>4. subs' \in Seq(Row) /\ Len(subs') = Len(subs) + 1 /\ DOMAIN subs' = 1..(Len(subs) + 1)
    BY <1>1
  <1>5. (\A r \in DOMAIN subs : subs'[r] = subs[r]) /\ subs'[Len(subs) + 1] = new
    BY <1>1
  <1>6. QED BY <1>2, <1>3, <1>4, <1>5

\* The row keeps its Stripe id; the others are untouched.
Rewrites(r, st) ==
    /\ subs' \in Seq(Row) /\ DOMAIN subs' = DOMAIN subs /\ Len(subs') = Len(subs)
    /\ \A q \in DOMAIN subs :
          /\ subs'[q].stripe = subs[q].stripe
          /\ subs'[q].status = IF q = r THEN st ELSE subs[q].status

LEMMA Saves ==
    ASSUME TypeOK, NEW p \in Procs, NEW st \in Status, loc[p].row \in DOMAIN subs, SaveLoaded(p, st)
    PROVE  Rewrites(loc[p].row, st)
  <1> DEFINE r == loc[p].row
             new == [subs[r] EXCEPT !.status = st]
  <1>1. /\ Len(subs) \in Nat /\ DOMAIN subs = 1..Len(subs)
        /\ \A q \in DOMAIN subs : subs[q] \in Row
    BY DEF TypeOK
  <1>2. new \in Row /\ new.status = st /\ new.stripe = subs[r].stripe
    BY <1>1 DEF Row
  <1>3. subs' = [subs EXCEPT ![r] = new]
    BY DEF SaveLoaded
  <1> HIDE DEF new, r
  <1>4. subs' \in [1..Len(subs) -> Row]
    BY <1>1, <1>2, <1>3
  <1>5. subs' \in Seq(Row) /\ DOMAIN subs' = DOMAIN subs /\ Len(subs') = Len(subs)
    BY <1>1, <1>4
  <1>6. \A q \in DOMAIN subs : subs'[q] = IF q = r THEN new ELSE subs[q]
    BY <1>1, <1>3
  <1>7. QED BY <1>1, <1>2, <1>5, <1>6 DEF Rewrites, r

LEMMA Expires ==
    ASSUME TypeOK, NEW p \in Procs, NEW s \in StripeIds, CheckoutExpire(p, s)
    PROVE  /\ subs' \in Seq(Row) /\ DOMAIN subs' = DOMAIN subs /\ Len(subs') = Len(subs)
           /\ \A q \in DOMAIN subs :
                 /\ subs'[q].stripe = subs[q].stripe
                 /\ subs'[q].status = IF subs[q].status = "active" THEN "expired"
                                                                   ELSE subs[q].status
  <1>1. /\ Len(subs) \in Nat /\ DOMAIN subs = 1..Len(subs)
        /\ \A q \in DOMAIN subs : subs[q] \in Row
    BY DEF TypeOK
  <1>2. \A q \in DOMAIN subs : [subs[q] EXCEPT !.status = "expired"] \in Row
    BY <1>1 DEF Row, Status
  <1>3. DOMAIN subs' = DOMAIN subs
        /\ \A q \in DOMAIN subs : subs'[q] = IF q \in ActiveRows
                                               THEN [subs[q] EXCEPT !.status = "expired"]
                                               ELSE subs[q]
    BY DEF CheckoutExpire
  <1>4. subs' \in [1..Len(subs) -> Row]
    <2>1. \A q \in 1..Len(subs) : subs'[q] \in Row
      BY <1>1, <1>2, <1>3
    <2>2. subs' = [q \in 1..Len(subs) |-> subs'[q]]
      BY <1>1, <1>3 DEF CheckoutExpire
    <2>3. QED BY <2>1, <2>2
  <1>5. subs' \in Seq(Row) /\ Len(subs') = Len(subs)
    BY <1>1, <1>4
  <1>6. \A q \in DOMAIN subs :
           /\ subs'[q].stripe = subs[q].stripe
           /\ subs'[q].status = IF subs[q].status = "active" THEN "expired" ELSE subs[q].status
    BY <1>1, <1>3 DEF ActiveRows, Row
  <1>7. QED BY <1>3, <1>5, <1>6

-------------------------------------------------------------------------------
\* What no step undoes.
Lasting ==
    /\ subs' \in Seq(Row) /\ Len(subs') \in Nat /\ Len(subs) <= Len(subs')
    /\ DOMAIN subs \subseteq DOMAIN subs'
    /\ \A r \in DOMAIN subs : subs'[r].stripe = subs[r].stripe
    /\ \A s \in StripeIds : stripe[s].state = "canceled" => stripe'[s].state = "canceled"
    /\ company.usedTrial => company'.usedTrial

Elsewhere(p) == \A q \in Procs \ {p} : loc'[q] = loc[q]

LocOK == loc \in [Procs -> Local] /\ \A p \in Procs : loc[p].row \in 0..Len(subs)

LEMMA Moves ==
    ASSUME TypeOK, NEW p \in Procs, Len(subs') \in Nat, Len(subs) <= Len(subs')
    PROVE  /\ \A label \in Pc : Goto(p, label) =>
                 LocOK' /\ Elsewhere(p) /\ loc'[p] = [loc[p] EXCEPT !.pc = label]
           /\ \A l \in Local : l.row <= Len(subs') /\ Become(p, l) =>
                 LocOK' /\ Elsewhere(p) /\ loc'[p] = l
  <1>0. /\ loc \in [Procs -> Local] /\ Len(subs) \in Nat
        /\ \A q \in Procs : loc[q].row \in 0..Len(subs)
    BY RowsTyped DEF TypeOK
  <1>1. ASSUME NEW l \in Local, l.row <= Len(subs'), Become(p, l)
        PROVE  LocOK' /\ Elsewhere(p) /\ loc'[p] = l
    <2>1. loc' \in [Procs -> Local] /\ loc'[p] = l /\ Elsewhere(p)
      BY <1>0, <1>1 DEF Become, Elsewhere
    <2>2. l.row \in Nat
      BY DEF Local
    <2>3. \A q \in Procs : loc'[q].row \in 0..Len(subs')
      BY <1>0, <1>1, <2>1, <2>2 DEF Elsewhere
    <2>4. QED BY <2>1, <2>3 DEF LocOK
  <1>2. ASSUME NEW label \in Pc, Goto(p, label)
        PROVE  LocOK' /\ Elsewhere(p) /\ loc'[p] = [loc[p] EXCEPT !.pc = label]
    <2> DEFINE l == [loc[p] EXCEPT !.pc = label]
    <2>1. l \in Local /\ l.row = loc[p].row
      BY <1>0 DEF Local
    <2>2. Become(p, l)
      BY <1>2 DEF Goto, Become
    <2>3. l.row <= Len(subs')
      BY <1>0, <2>1
    <2> HIDE DEF l
    <2>4. LocOK' /\ Elsewhere(p) /\ loc'[p] = l
      BY <1>1, <2>1, <2>2, <2>3
    <2>5. QED BY <2>4 DEF l
  <1>3. QED BY <1>1, <1>2

LEMMA IdleTyped == Idle \in Local /\ Idle.row = 0 /\ Idle.pc = "idle"
  BY DEF Idle, Local, Pc, Status

LEMMA LoadedRecord ==
    ASSUME NEW label \in Pc, NEW r \in Nat, NEW st \in Status, NEW s \in StripeIds \cup {NoStripe}
    PROVE  [Idle EXCEPT !.pc = label, !.row = r, !.loaded = st, !.sid = s] \in Local
  BY DEF Idle, Local

LEMMA LocalRecords ==
    ASSUME NEW l \in Local, NEW label \in Pc, NEW n \in Nat, NEW s \in StripeIds \cup {NoStripe}
    PROVE  /\ [l EXCEPT !.pc = label, !.row = n] \in Local
           /\ [l EXCEPT !.pc = label, !.sid = s] \in Local
           /\ [l EXCEPT !.customer = n, !.pc = label] \in Local
  BY DEF Local

\* A step that leaves rows, company and Stripe alone.
LEMMA QuietLasts ==
    ASSUME TypeOK, UNCHANGED <<subs, company, stripe>>
    PROVE  Lasting
  BY RowsTyped DEF Lasting, TypeOK

LEMMA Locals ==
    ASSUME TypeOK, NEW p \in Procs
    PROVE  /\ loc[p] \in Local /\ loc[p].pc \in Pc /\ loc[p].row \in Nat /\ loc[p].loaded \in Status
           /\ loc[p].sid \in StripeIds \cup {NoStripe} /\ loc[p].customer \in Nat
  BY DEF TypeOK, Local

\* A row that is loaded.
LEMMA Loading ==
    ASSUME TypeOK, NEW p \in Procs, NEW r \in DOMAIN subs, NEW label \in Pc, Load(p, r, label),
           UNCHANGED subs
    PROVE  /\ LocOK' /\ Elsewhere(p)
           /\ loc'[p].pc = label /\ loc'[p].row = r /\ loc'[p].loaded = subs[r].status
           /\ loc'[p].sid = subs[r].stripe
  <1> DEFINE l == [Idle EXCEPT !.pc = label, !.row = r, !.loaded = subs[r].status,
                               !.sid = subs[r].stripe]
  <1>1. Len(subs) \in Nat /\ r \in 1..Len(subs) /\ subs[r].status \in Status
        /\ subs[r].stripe \in StripeIds \cup {NoStripe}
    BY RowsTyped
  <1>2. /\ l \in Local /\ l.pc = label /\ l.row = r /\ l.loaded = subs[r].status
        /\ l.sid = subs[r].stripe
    <2>1. l \in Local
      BY <1>1, r \in Nat, LoadedRecord
    <2>2. l.pc = label /\ l.row = r /\ l.loaded = subs[r].status /\ l.sid = subs[r].stripe
      BY DEF Idle
    <2>3. QED BY <2>1, <2>2
  <1>3. Become(p, l) /\ l.row <= Len(subs') /\ Len(subs') \in Nat /\ Len(subs) <= Len(subs')
    BY <1>1, <1>2 DEF Load
  <1> HIDE DEF l
  <1>4. LocOK' /\ Elsewhere(p) /\ loc'[p] = l
    BY <1>2, <1>3, Moves
  <1>5. QED BY <1>2, <1>4

-------------------------------------------------------------------------------
\* What a step of an operation does, besides what it writes.
Proceeds(p) == TypeOK' /\ Lasting /\ Elsewhere(p) /\ Knows(p)'

Operation(p) ==
    \/ TrialReadCompany(p) \/ TrialReadCurrent(p) \/ TrialInsert(p)
    \/ TrialCompany(p) \/ TrialTransaction(p) \/ SessionReadCompany(p)
    \/ SessionCustomer(p) \/ SessionCompany(p) \/ SessionCreate(p)
    \/ CheckoutInsert(p) \/ CheckoutCompany(p) \/ CheckoutTransaction(p)
    \/ PaidSave(p) \/ PaidTransaction(p) \/ FailedSave(p) \/ FailedCompany(p)
    \/ DeletedSave(p) \/ DeletedCompany(p) \/ CancelRead(p) \/ CancelStripe(p)
    \/ CancelSave(p) \/ CancelCompany(p) \/ CancelTransaction(p) \/ PlanRead(p)
    \/ PlanReadCompany(p) \/ PlanStripe(p) \/ PlanSave(p) \/ PlanTransaction(p)
    \/ Throws(p)
    \/ \E s \in StripeIds :
          CheckoutExpire(p, s) \/ PaidRead(p, s) \/ FailedRead(p, s) \/ DeletedRead(p, s)

LEMMA OperationProceeds ==
    ASSUME TypeOK, KnowsInv, CanceledStopsBilling, NEW o \in Procs, Operation(o)
    PROVE  Proceeds(o)
  <1>1. ASSUME NEW p \in Procs, TrialReadCompany(p) PROVE Proceeds(p)
    <2>1. Lasting
      BY <1>1, QuietLasts DEF TrialReadCompany
    <2>2. LocOK' /\ Elsewhere(p) /\ loc'[p] = [loc[p] EXCEPT !.pc = "trial_subs"]
      BY <1>1, <2>1, Moves DEF TrialReadCompany, Lasting, Pc
    <2>3. TypeOK'
      BY <1>1, <2>1, <2>2, ConstantsAssumption
         DEF TrialReadCompany, Lasting, TypeOK, LocOK, Begin, At, Company, Status
    <2>4. Knows(p)'
      BY <1>1, <2>1, <2>2, Locals
         DEF TrialReadCompany, At, Lasting, KnowsInv, Knows, WithRow, Loads, Billed, Ended
    <2>5. QED BY <2>1, <2>2, <2>3, <2>4 DEF Proceeds
  <1>2. ASSUME NEW p \in Procs, TrialReadCurrent(p) PROVE Proceeds(p)
    <2>1. Lasting
      BY <1>2, QuietLasts DEF TrialReadCurrent
    <2>2. LocOK' /\ Elsewhere(p) /\ loc'[p].pc \in {"trial_insert", "idle"}
      <3>1. CASE Goto(p, "trial_insert")
        <4>1. LocOK' /\ Elsewhere(p) /\ loc'[p] = [loc[p] EXCEPT !.pc = "trial_insert"]
          BY <2>1, <3>1, Moves DEF Lasting, Pc
        <4>2. QED BY <4>1, Locals DEF Local
      <3>2. CASE End(p)
        BY <2>1, <3>2, Moves, IdleTyped DEF Lasting, End
      <3>3. QED BY <1>2, <3>1, <3>2 DEF TrialReadCurrent
    <2>3. TypeOK'
      BY <1>2, <2>1, <2>2 DEF TrialReadCurrent, Lasting, TypeOK, LocOK, Begin, At, Company, Status
    <2>4. Knows(p)'
      BY <2>2 DEF Knows, WithRow, Loads, Billed, Ended
    <2>5. QED BY <2>1, <2>2, <2>3, <2>4 DEF Proceeds
  <1>3. ASSUME NEW p \in Procs, TrialInsert(p) PROVE Proceeds(p)
    <2>1. /\ subs' \in Seq(Row) /\ Len(subs) \in Nat /\ Len(subs') = Len(subs) + 1
          /\ DOMAIN subs' = DOMAIN subs \cup {Len(subs) + 1}
          /\ \A r \in DOMAIN subs : subs'[r] = subs[r]
          /\ subs'[Len(subs) + 1].stripe = NoStripe
      BY <1>3, Inserts, Locals DEF TrialInsert
    <2>2. Lasting
      BY <1>3, <2>1 DEF Lasting, TrialInsert
    <2>3. /\ [Idle EXCEPT !.pc = "trial_company", !.row = Len(subs) + 1] \in Local
          /\ [Idle EXCEPT !.pc = "trial_company", !.row = Len(subs) + 1].row <= Len(subs')
      <3>1. Len(subs) + 1 \in Nat /\ Len(subs) + 1 <= Len(subs')
        BY <2>1
      <3>2. [Idle EXCEPT !.pc = "trial_company", !.row = Len(subs) + 1] \in Local
        BY <3>1, IdleTyped, Locals, LocalRecords DEF Pc
      <3>3. [Idle EXCEPT !.pc = "trial_company", !.row = Len(subs) + 1].row = Len(subs) + 1
        BY Locals DEF Idle, Local
      <3>4. QED BY <3>1, <3>2, <3>3
    <2>4. /\ LocOK' /\ Elsewhere(p)
          /\ loc'[p] = [Idle EXCEPT !.pc = "trial_company", !.row = Len(subs) + 1]
      BY <1>3, <2>2, <2>3, Moves DEF TrialInsert, Lasting, LoadCustomer
    <2>5. TypeOK'
      BY <1>3, <2>2, <2>4, Locals, ConstantsAssumption
         DEF TrialInsert, Lasting, TypeOK, LocOK, Begin, At, Company, Status
    <2>6. Knows(p)'
      BY <1>3, <2>1, <2>2, <2>4, Locals, RowsTyped, ConstantsAssumption
         DEF TrialInsert, At, Lasting, Idle, KnowsInv, Knows, WithRow, Loads, Billed, Ended
    <2>7. QED BY <2>1, <2>2, <2>3, <2>4, <2>5, <2>6 DEF Proceeds
  <1>4. ASSUME NEW p \in Procs, TrialCompany(p) PROVE Proceeds(p)
    <2>1. Lasting
      BY <1>4, RowsTyped DEF TrialCompany, Lasting, TypeOK, Company
    <2>2. LocOK' /\ Elsewhere(p) /\ loc'[p] = [loc[p] EXCEPT !.pc = "trial_txn"]
      BY <1>4, <2>1, Moves DEF TrialCompany, Lasting, Pc
    <2>3. TypeOK'
      BY <1>4, <2>1, <2>2 DEF TrialCompany, Lasting, TypeOK, LocOK, Begin, At, Company, Status
    <2>4. Knows(p)'
      BY <1>4, <2>1, <2>2, Locals
         DEF TrialCompany, At, Lasting, KnowsInv, Knows, WithRow, Loads, Billed, Ended, TypeOK,
             Company
    <2>5. QED BY <2>1, <2>2, <2>3, <2>4 DEF Proceeds
  <1>5. ASSUME NEW p \in Procs, TrialTransaction(p) PROVE Proceeds(p)
    <2>1. Lasting
      BY <1>5, QuietLasts DEF TrialTransaction
    <2>2. LocOK' /\ Elsewhere(p) /\ loc'[p] = Idle
      BY <1>5, <2>1, Moves, IdleTyped DEF TrialTransaction, Lasting, End
    <2>3. TypeOK'
      BY <1>5, <2>1, <2>2, Locals
         DEF TrialTransaction, Lasting, Record, TxnType, TypeOK, LocOK, Begin, At, Company, Status
    <2>4. Knows(p)'
      BY <2>2, IdleTyped DEF Knows, WithRow, Loads, Billed, Ended
    <2>5. QED BY <2>1, <2>2, <2>3, <2>4 DEF Proceeds
  <1>6. ASSUME NEW p \in Procs, SessionReadCompany(p) PROVE Proceeds(p)
    <2> DEFINE l == [Idle EXCEPT !.customer = company.customer,
                   !.pc = IF company.customer = 0 THEN "session_customer" ELSE "session_create"]
    <2>1. Lasting
      BY <1>6, QuietLasts DEF SessionReadCompany
    <2>2. l \in Local /\ l.row <= Len(subs')
      <3> DEFINE label == IF company.customer = 0 THEN "session_customer" ELSE "session_create"
      <3>1. label \in Pc /\ company.customer \in Nat
        BY DEF Pc, TypeOK, Company
      <3>2. [Idle EXCEPT !.customer = company.customer, !.pc = label] \in Local
        BY <3>1 DEF Idle, Local, Status
      <3>3. l.row = 0
        BY DEF Idle
      <3>4. QED BY <1>6, <3>2, <3>3, RowsTyped DEF SessionReadCompany
    <2>3. LocOK' /\ Elsewhere(p) /\ loc'[p] = l
      BY <1>6, <2>1, <2>2, Moves DEF SessionReadCompany, Lasting, LoadCustomer
    <2>4. TypeOK'
      BY <1>6, <2>1, <2>3, Locals, ConstantsAssumption
         DEF SessionReadCompany, Lasting, TypeOK, LocOK, Begin, At, Company, Status
    <2>5. Knows(p)'
      BY <1>6, <2>1, <2>3, Locals, RowsTyped, ConstantsAssumption
         DEF SessionReadCompany, At, Lasting, Idle, KnowsInv, Knows, WithRow, Loads, Billed, Ended
    <2>6. QED BY <2>1, <2>2, <2>3, <2>4, <2>5 DEF Proceeds
  <1>7. ASSUME NEW p \in Procs, SessionCustomer(p) PROVE Proceeds(p)
    <2>1. Lasting
      BY <1>7, QuietLasts DEF SessionCustomer
    <2>2. /\ [loc[p] EXCEPT !.customer = customers + 1, !.pc = "session_company"] \in Local
          /\ [loc[p] EXCEPT !.customer = customers + 1, !.pc = "session_company"].row <= Len(subs')
      <3>1. customers + 1 \in Nat
        BY DEF TypeOK
      <3>2. [loc[p] EXCEPT !.customer = customers + 1, !.pc = "session_company"] \in Local
        BY <3>1, Locals, LocalRecords DEF Pc
      <3>3. [loc[p] EXCEPT !.customer = customers + 1, !.pc = "session_company"].row = loc[p].row
        BY Locals DEF Local
      <3>4. QED BY <1>7, <3>2, <3>3 DEF SessionCustomer, TypeOK
    <2>3. /\ LocOK' /\ Elsewhere(p)
          /\ loc'[p] = [loc[p] EXCEPT !.customer = customers + 1, !.pc = "session_company"]
      BY <1>7, <2>1, <2>2, Moves DEF SessionCustomer, Lasting, LoadCustomer
    <2>4. TypeOK'
      BY <1>7, <2>1, <2>3, Locals, ConstantsAssumption
         DEF SessionCustomer, Lasting, TypeOK, LocOK, Begin, At, Company, Status
    <2>5. Knows(p)'
      BY <1>7, <2>1, <2>3, Locals, RowsTyped, ConstantsAssumption
         DEF SessionCustomer, At, Lasting, Idle, KnowsInv, Knows, WithRow, Loads, Billed, Ended
    <2>6. QED BY <2>1, <2>2, <2>3, <2>4, <2>5 DEF Proceeds
  <1>8. ASSUME NEW p \in Procs, SessionCompany(p) PROVE Proceeds(p)
    <2>1. Lasting
      BY <1>8, RowsTyped DEF SessionCompany, Lasting, TypeOK, Company
    <2>2. LocOK' /\ Elsewhere(p) /\ loc'[p] = [loc[p] EXCEPT !.pc = "session_create"]
      BY <1>8, <2>1, Moves DEF SessionCompany, Lasting, Pc
    <2>3. TypeOK'
      BY <1>8, <2>1, <2>2, Locals
         DEF SessionCompany, Lasting, TypeOK, LocOK, Begin, At, Company, Status
    <2>4. Knows(p)'
      BY <1>8, <2>1, <2>2, Locals
         DEF SessionCompany, At, Lasting, KnowsInv, Knows, WithRow, Loads, Billed, Ended
    <2>5. QED BY <2>1, <2>2, <2>3, <2>4 DEF Proceeds
  <1>9. ASSUME NEW p \in Procs, SessionCreate(p) PROVE Proceeds(p)
    <2>1. Lasting
      BY <1>9, RowsTyped DEF SessionCreate, Lasting, TypeOK
    <2>2. LocOK' /\ Elsewhere(p) /\ loc'[p] = Idle
      BY <1>9, <2>1, Moves, IdleTyped DEF SessionCreate, Lasting, End
    <2>3. stripe' \in [StripeIds -> StripeState]
      BY <1>9, Locals DEF SessionCreate, TypeOK, StripeState
    <2>4. TypeOK'
      BY <1>9, <2>1, <2>2, <2>3 DEF SessionCreate, Lasting, TypeOK, LocOK, At
    <2>5. Knows(p)'
      BY <2>2, IdleTyped DEF Knows, WithRow, Loads, Billed, Ended
    <2>6. QED BY <2>1, <2>2, <2>3, <2>4, <2>5 DEF Proceeds
  <1>10. ASSUME NEW p \in Procs, CheckoutInsert(p) PROVE Proceeds(p)
    <2>1. /\ subs' \in Seq(Row) /\ Len(subs) \in Nat /\ Len(subs') = Len(subs) + 1
          /\ DOMAIN subs' = DOMAIN subs \cup {Len(subs) + 1}
          /\ \A r \in DOMAIN subs : subs'[r] = subs[r]
          /\ subs'[Len(subs) + 1].stripe = loc[p].sid
      BY <1>10, Inserts, Locals DEF CheckoutInsert
    <2>2. Lasting
      BY <1>10, <2>1 DEF Lasting, CheckoutInsert
    <2>3. /\ [loc[p] EXCEPT !.pc = "checkout_company", !.row = Len(subs) + 1] \in Local
          /\ [loc[p] EXCEPT !.pc = "checkout_company", !.row = Len(subs) + 1].row <= Len(subs')
      <3>1. Len(subs) + 1 \in Nat /\ Len(subs) + 1 <= Len(subs')
        BY <2>1
      <3>2. [loc[p] EXCEPT !.pc = "checkout_company", !.row = Len(subs) + 1] \in Local
        BY <3>1, IdleTyped, Locals, LocalRecords DEF Pc
      <3>3. [loc[p] EXCEPT !.pc = "checkout_company", !.row = Len(subs) + 1].row = Len(subs) + 1
        BY Locals DEF Idle, Local
      <3>4. QED BY <3>1, <3>2, <3>3
    <2>4. /\ LocOK' /\ Elsewhere(p)
          /\ loc'[p] = [loc[p] EXCEPT !.pc = "checkout_company", !.row = Len(subs) + 1]
      BY <1>10, <2>2, <2>3, Moves DEF CheckoutInsert, Lasting, LoadCustomer
    <2>5. TypeOK'
      BY <1>10, <2>2, <2>4, Locals, ConstantsAssumption
         DEF CheckoutInsert, Lasting, TypeOK, LocOK, Begin, At, Company, Status
    <2>6. Knows(p)'
      BY <1>10, <2>1, <2>2, <2>4, Locals, RowsTyped, ConstantsAssumption
         DEF CheckoutInsert, At, Lasting, Idle, KnowsInv, Knows, WithRow, Loads, Billed, Ended
    <2>7. QED BY <2>1, <2>2, <2>3, <2>4, <2>5, <2>6 DEF Proceeds
  <1>11. ASSUME NEW p \in Procs, CheckoutCompany(p) PROVE Proceeds(p)
    <2>1. Lasting
      BY <1>11, RowsTyped DEF CheckoutCompany, Lasting, TypeOK, Company
    <2>2. LocOK' /\ Elsewhere(p) /\ loc'[p] = [loc[p] EXCEPT !.pc = "checkout_txn"]
      BY <1>11, <2>1, Moves DEF CheckoutCompany, Lasting, Pc
    <2>3. TypeOK'
      BY <1>11, <2>1, <2>2 DEF CheckoutCompany, Lasting, TypeOK, LocOK, Begin, At, Company, Status
    <2>4. Knows(p)'
      BY <1>11, <2>1, <2>2, Locals
         DEF CheckoutCompany, At, Lasting, KnowsInv, Knows, WithRow, Loads, Billed, Ended,
             TypeOK, Company
    <2>5. QED BY <2>1, <2>2, <2>3, <2>4 DEF Proceeds
  <1>12. ASSUME NEW p \in Procs, CheckoutTransaction(p) PROVE Proceeds(p)
    <2>1. Lasting
      BY <1>12, QuietLasts DEF CheckoutTransaction
    <2>2. LocOK' /\ Elsewhere(p) /\ loc'[p] = Idle
      BY <1>12, <2>1, Moves, IdleTyped DEF CheckoutTransaction, Lasting, End
    <2>3. TypeOK'
      BY <1>12, <2>1, <2>2, Locals
         DEF CheckoutTransaction, Lasting, Record, TxnType, TypeOK, LocOK, Begin, At, Company,
             Status
    <2>4. Knows(p)'
      BY <2>2, IdleTyped DEF Knows, WithRow, Loads, Billed, Ended
    <2>5. QED BY <2>1, <2>2, <2>3, <2>4 DEF Proceeds
  <1>13. ASSUME NEW p \in Procs, PaidSave(p) PROVE Proceeds(p)
    <2>1. Rewrites(loc[p].row, loc[p].loaded) /\ loc[p].row \in DOMAIN subs
      BY <1>13, Saves, Locals DEF PaidSave, At, Status, KnowsInv, Knows, WithRow
    <2>2. Lasting
      BY <1>13, <2>1, RowsTyped DEF PaidSave, Lasting, Rewrites
    <2>3. LocOK' /\ Elsewhere(p) /\ loc'[p] = [loc[p] EXCEPT !.pc = "paid_txn"]
      BY <1>13, <2>2, Moves DEF PaidSave, Lasting, Pc
    <2>4. TypeOK'
      BY <1>13, <2>2, <2>3 DEF PaidSave, Lasting, TypeOK, LocOK, Begin, At, Company, Status
    <2>5. Knows(p)'
      BY <1>13, <2>2, <2>3, Locals
         DEF PaidSave, At, Lasting, KnowsInv, Knows, WithRow, Loads, Billed, Ended
    <2>6. QED BY <2>1, <2>2, <2>3, <2>4, <2>5 DEF Proceeds
  <1>14. ASSUME NEW p \in Procs, PaidTransaction(p) PROVE Proceeds(p)
    <2>1. Lasting
      BY <1>14, QuietLasts DEF PaidTransaction
    <2>2. LocOK' /\ Elsewhere(p) /\ loc'[p] = Idle
      BY <1>14, <2>1, Moves, IdleTyped DEF PaidTransaction, Lasting, End
    <2>3. TypeOK'
      BY <1>14, <2>1, <2>2, Locals
         DEF PaidTransaction, Lasting, Record, TxnType, TypeOK, LocOK, Begin, At, Company, Status
    <2>4. Knows(p)'
      BY <2>2, IdleTyped DEF Knows, WithRow, Loads, Billed, Ended
    <2>5. QED BY <2>1, <2>2, <2>3, <2>4 DEF Proceeds
  <1>15. ASSUME NEW p \in Procs, FailedSave(p) PROVE Proceeds(p)
    <2>1. Rewrites(loc[p].row, "past_due") /\ loc[p].row \in DOMAIN subs
      BY <1>15, Saves, Locals DEF FailedSave, At, Status, KnowsInv, Knows, WithRow
    <2>2. Lasting
      BY <1>15, <2>1, RowsTyped DEF FailedSave, Lasting, Rewrites
    <2>3. LocOK' /\ Elsewhere(p) /\ loc'[p] = [loc[p] EXCEPT !.pc = "failed_company"]
      BY <1>15, <2>2, Moves DEF FailedSave, Lasting, Pc
    <2>4. TypeOK'
      BY <1>15, <2>2, <2>3 DEF FailedSave, Lasting, TypeOK, LocOK, Begin, At, Company, Status
    <2>5. Knows(p)'
      BY <1>15, <2>2, <2>3, Locals
         DEF FailedSave, At, Lasting, KnowsInv, Knows, WithRow, Loads, Billed, Ended
    <2>6. QED BY <2>1, <2>2, <2>3, <2>4, <2>5 DEF Proceeds
  <1>16. ASSUME NEW p \in Procs, FailedCompany(p) PROVE Proceeds(p)
    <2>1. Lasting
      BY <1>16, RowsTyped DEF FailedCompany, Lasting, TypeOK, Company
    <2>2. LocOK' /\ Elsewhere(p) /\ loc'[p] = Idle
      BY <1>16, <2>1, Moves, IdleTyped DEF FailedCompany, Lasting, End
    <2>3. TypeOK'
      BY <1>16, <2>1, <2>2, Locals
         DEF FailedCompany, Lasting, Record, TxnType, TypeOK, LocOK, Begin, At, Company, Status
    <2>4. Knows(p)'
      BY <2>2, IdleTyped DEF Knows, WithRow, Loads, Billed, Ended
    <2>5. QED BY <2>1, <2>2, <2>3, <2>4 DEF Proceeds
  <1>17. ASSUME NEW p \in Procs, DeletedSave(p) PROVE Proceeds(p)
    <2>1. Rewrites(loc[p].row, "canceled") /\ loc[p].row \in DOMAIN subs
      BY <1>17, Saves, Locals DEF DeletedSave, At, Status, KnowsInv, Knows, WithRow
    <2>2. Lasting
      BY <1>17, <2>1, RowsTyped DEF DeletedSave, Lasting, Rewrites
    <2>3. LocOK' /\ Elsewhere(p) /\ loc'[p] = [loc[p] EXCEPT !.pc = "deleted_company"]
      BY <1>17, <2>2, Moves DEF DeletedSave, Lasting, Pc
    <2>4. TypeOK'
      BY <1>17, <2>2, <2>3 DEF DeletedSave, Lasting, TypeOK, LocOK, Begin, At, Company, Status
    <2>5. Knows(p)'
      BY <1>17, <2>2, <2>3, Locals
         DEF DeletedSave, At, Lasting, KnowsInv, Knows, WithRow, Loads, Billed, Ended
    <2>6. QED BY <2>1, <2>2, <2>3, <2>4, <2>5 DEF Proceeds
  <1>18. ASSUME NEW p \in Procs, DeletedCompany(p) PROVE Proceeds(p)
    <2>1. Lasting
      BY <1>18, RowsTyped DEF DeletedCompany, Lasting, TypeOK, Company
    <2>2. LocOK' /\ Elsewhere(p) /\ loc'[p] = Idle
      BY <1>18, <2>1, Moves, IdleTyped DEF DeletedCompany, Lasting, End
    <2>3. TypeOK'
      BY <1>18, <2>1, <2>2, Locals
         DEF DeletedCompany, Lasting, Record, TxnType, TypeOK, LocOK, Begin, At, Company, Status
    <2>4. Knows(p)'
      BY <2>2, IdleTyped DEF Knows, WithRow, Loads, Billed, Ended
    <2>5. QED BY <2>1, <2>2, <2>3, <2>4 DEF Proceeds
  <1>19. ASSUME NEW p \in Procs, CancelRead(p) PROVE Proceeds(p)
    <2>1. Lasting
      BY <1>19, QuietLasts DEF CancelRead
    <2>2. PICK r \in DOMAIN subs :
             /\ IsCurrent(r)
             /\ Load(p, r, (IF subs[r].stripe = NoStripe THEN "cancel_save" ELSE "cancel_stripe"))
      BY <1>19 DEF CancelRead, ActiveRows
    <2>3. /\ LocOK' /\ Elsewhere(p)
          /\ loc'[p].pc = (IF subs[r].stripe = NoStripe THEN "cancel_save" ELSE "cancel_stripe")
          /\ loc'[p].row = r
          /\ loc'[p].loaded = subs[r].status /\ loc'[p].sid = subs[r].stripe
      BY <1>19, <2>2, Loading DEF CancelRead, Pc
    <2>4. TypeOK'
      BY <1>19, <2>1, <2>3, ConstantsAssumption
         DEF CancelRead, Lasting, TypeOK, LocOK, Begin, At, Company, Status
    <2>5. subs[r].status = "canceled" => Ended(subs[r].stripe)
      BY <2>2 DEF CanceledStopsBilling, Ended
    <2>6. UNCHANGED <<subs, company, stripe>>
      BY <1>19 DEF CancelRead
    <2>7. Knows(p)'
      BY <1>19, <2>2, <2>3, <2>5, <2>6
         DEF Knows, WithRow, Loads, Billed, Ended, IsCurrent, ActiveRows
    <2>8. QED BY <2>1, <2>2, <2>3, <2>4, <2>5, <2>6, <2>7 DEF Proceeds
  <1>20. ASSUME NEW p \in Procs, CancelStripe(p) PROVE Proceeds(p)
    <2>1. loc[p].sid \in StripeIds
      BY <1>20, Locals DEF CancelStripe, At, Knows, WithRow, Loads, Billed, Ended, KnowsInv
    <2>2. stripe' \in [StripeIds -> StripeState] /\ Lasting
      <3>1. CASE UNCHANGED stripe
        BY <1>20, <3>1, QuietLasts DEF CancelStripe, TypeOK
      <3>2. CASE stripe' = [stripe EXCEPT ![loc[p].sid].state = "canceled"]
        <4>1. stripe' \in [StripeIds -> StripeState]
          BY <2>1, <3>2 DEF TypeOK, StripeState
        <4>2. \A s \in StripeIds : stripe[s].state = "canceled" => stripe'[s].state = "canceled"
          BY <2>1, <3>2 DEF TypeOK, StripeState
        <4>3. QED BY <1>20, <4>1, <4>2, RowsTyped DEF CancelStripe, Lasting, TypeOK
      <3>3. QED BY <1>20, <3>1, <3>2 DEF CancelStripe
    <2>3. LocOK' /\ Elsewhere(p) /\ Knows(p)'
      <3>1. CASE /\ Goto(p, "cancel_save")
                 /\ stripe' = [stripe EXCEPT ![loc[p].sid].state = "canceled"]
        <4>1. LocOK' /\ Elsewhere(p) /\ loc'[p] = [loc[p] EXCEPT !.pc = "cancel_save"]
          BY <2>2, <3>1, Moves DEF Lasting, Pc
        <4>2. stripe'[loc[p].sid].state = "canceled"
          BY <2>1, <3>1 DEF TypeOK, StripeState
        <4>3. Knows(p)'
          BY <1>20, <2>2, <4>1, <4>2, Locals
             DEF CancelStripe, At, Lasting, KnowsInv, Knows, WithRow, Loads, Billed, Ended
        <4>4. QED BY <4>1, <4>3
      <3>2. CASE End(p)
        <4>1. LocOK' /\ Elsewhere(p) /\ loc'[p] = Idle
          BY <2>2, <3>2, Moves, IdleTyped DEF Lasting, End
        <4>2. QED BY <4>1, IdleTyped DEF Knows, WithRow, Loads, Billed, Ended
      <3>3. QED BY <1>20, <3>1, <3>2 DEF CancelStripe
    <2>4. TypeOK'
      BY <1>20, <2>2, <2>3 DEF CancelStripe, Lasting, TypeOK, LocOK, At
    <2>5. QED BY <2>1, <2>2, <2>3, <2>4 DEF Proceeds
  <1>21. ASSUME NEW p \in Procs, CancelSave(p) PROVE Proceeds(p)
    <2>1. Rewrites(loc[p].row, "canceled") /\ loc[p].row \in DOMAIN subs
      BY <1>21, Saves, Locals DEF CancelSave, At, Status, KnowsInv, Knows, WithRow
    <2>2. Lasting
      BY <1>21, <2>1, RowsTyped DEF CancelSave, Lasting, Rewrites
    <2>3. LocOK' /\ Elsewhere(p) /\ loc'[p] = [loc[p] EXCEPT !.pc = "cancel_company"]
      BY <1>21, <2>2, Moves DEF CancelSave, Lasting, Pc
    <2>4. TypeOK'
      BY <1>21, <2>2, <2>3 DEF CancelSave, Lasting, TypeOK, LocOK, Begin, At, Company, Status
    <2>5. Knows(p)'
      BY <1>21, <2>2, <2>3, Locals
         DEF CancelSave, At, Lasting, KnowsInv, Knows, WithRow, Loads, Billed, Ended
    <2>6. QED BY <2>1, <2>2, <2>3, <2>4, <2>5 DEF Proceeds
  <1>22. ASSUME NEW p \in Procs, CancelCompany(p) PROVE Proceeds(p)
    <2>1. Lasting
      BY <1>22, RowsTyped DEF CancelCompany, Lasting, TypeOK, Company
    <2>2. LocOK' /\ Elsewhere(p) /\ loc'[p] = [loc[p] EXCEPT !.pc = "cancel_txn"]
      BY <1>22, <2>1, Moves DEF CancelCompany, Lasting, Pc
    <2>3. TypeOK'
      BY <1>22, <2>1, <2>2 DEF CancelCompany, Lasting, TypeOK, LocOK, Begin, At, Company, Status
    <2>4. Knows(p)'
      BY <1>22, <2>1, <2>2, Locals
         DEF CancelCompany, At, Lasting, KnowsInv, Knows, WithRow, Loads, Billed, Ended, TypeOK,
             Company
    <2>5. QED BY <2>1, <2>2, <2>3, <2>4 DEF Proceeds
  <1>23. ASSUME NEW p \in Procs, CancelTransaction(p) PROVE Proceeds(p)
    <2>1. Lasting
      BY <1>23, QuietLasts DEF CancelTransaction
    <2>2. LocOK' /\ Elsewhere(p) /\ loc'[p] = Idle
      BY <1>23, <2>1, Moves, IdleTyped DEF CancelTransaction, Lasting, End
    <2>3. TypeOK'
      BY <1>23, <2>1, <2>2, Locals
         DEF CancelTransaction, Lasting, Record, TxnType, TypeOK, LocOK, Begin, At, Company, Status
    <2>4. Knows(p)'
      BY <2>2, IdleTyped DEF Knows, WithRow, Loads, Billed, Ended
    <2>5. QED BY <2>1, <2>2, <2>3, <2>4 DEF Proceeds
  <1>24. ASSUME NEW p \in Procs, PlanRead(p) PROVE Proceeds(p)
    <2>1. Lasting
      BY <1>24, QuietLasts DEF PlanRead
    <2>2. PICK r \in DOMAIN subs :
             /\ IsCurrent(r)
             /\ Load(p, r, (IF subs[r].stripe = NoStripe THEN "plan_company" ELSE "plan_stripe"))
      BY <1>24 DEF PlanRead, ActiveRows
    <2>3. /\ LocOK' /\ Elsewhere(p)
          /\ loc'[p].pc = (IF subs[r].stripe = NoStripe THEN "plan_company" ELSE "plan_stripe")
          /\ loc'[p].row = r
          /\ loc'[p].loaded = subs[r].status /\ loc'[p].sid = subs[r].stripe
      BY <1>24, <2>2, Loading DEF PlanRead, Pc
    <2>4. TypeOK'
      BY <1>24, <2>1, <2>3, ConstantsAssumption
         DEF PlanRead, Lasting, TypeOK, LocOK, Begin, At, Company, Status
    <2>5. subs[r].status = "canceled" => Ended(subs[r].stripe)
      BY <2>2 DEF CanceledStopsBilling, Ended
    <2>6. UNCHANGED <<subs, company, stripe>>
      BY <1>24 DEF PlanRead
    <2>7. Knows(p)'
      BY <1>24, <2>2, <2>3, <2>5, <2>6
         DEF Knows, WithRow, Loads, Billed, Ended, IsCurrent, ActiveRows
    <2>8. QED BY <2>1, <2>2, <2>3, <2>4, <2>5, <2>6, <2>7 DEF Proceeds
  <1>25. ASSUME NEW p \in Procs, PlanReadCompany(p) PROVE Proceeds(p)
    <2> DEFINE l == [Idle EXCEPT !.customer = company.customer,
                   !.pc = IF company.customer = 0 THEN "session_customer" ELSE "session_create"]
    <2>1. Lasting
      BY <1>25, QuietLasts DEF PlanReadCompany
    <2>2. l \in Local /\ l.row <= Len(subs')
      <3> DEFINE label == IF company.customer = 0 THEN "session_customer" ELSE "session_create"
      <3>1. label \in Pc /\ company.customer \in Nat
        BY DEF Pc, TypeOK, Company
      <3>2. [Idle EXCEPT !.customer = company.customer, !.pc = label] \in Local
        BY <3>1 DEF Idle, Local, Status
      <3>3. l.row = 0
        BY DEF Idle
      <3>4. QED BY <1>25, <3>2, <3>3, RowsTyped DEF PlanReadCompany
    <2>3. LocOK' /\ Elsewhere(p) /\ loc'[p] = l
      BY <1>25, <2>1, <2>2, Moves DEF PlanReadCompany, Lasting, LoadCustomer
    <2>4. TypeOK'
      BY <1>25, <2>1, <2>3, Locals, ConstantsAssumption
         DEF PlanReadCompany, Lasting, TypeOK, LocOK, Begin, At, Company, Status
    <2>5. Knows(p)'
      BY <1>25, <2>1, <2>3, Locals, RowsTyped, ConstantsAssumption
         DEF PlanReadCompany, At, Lasting, Idle, KnowsInv, Knows, WithRow, Loads, Billed, Ended
    <2>6. QED BY <2>1, <2>2, <2>3, <2>4, <2>5 DEF Proceeds
  <1>26. ASSUME NEW p \in Procs, PlanStripe(p) PROVE Proceeds(p)
    <2>1. Lasting
      BY <1>26, QuietLasts DEF PlanStripe
    <2>2. LocOK' /\ Elsewhere(p) /\ Knows(p)'
      <3>1. CASE Goto(p, "plan_save")
        <4>1. LocOK' /\ Elsewhere(p) /\ loc'[p] = [loc[p] EXCEPT !.pc = "plan_save"]
          BY <2>1, <3>1, Moves DEF Lasting, Pc
        <4>2. Knows(p)'
          BY <1>26, <2>1, <4>1, Locals
             DEF PlanStripe, At, Lasting, KnowsInv, Knows, WithRow, Loads, Billed, Ended
        <4>3. QED BY <4>1, <4>2
      <3>2. CASE End(p)
        <4>1. LocOK' /\ Elsewhere(p) /\ loc'[p] = Idle
          BY <2>1, <3>2, Moves, IdleTyped DEF Lasting, End
        <4>2. QED BY <4>1, IdleTyped DEF Knows, WithRow, Loads, Billed, Ended
      <3>3. QED BY <1>26, <3>1, <3>2 DEF PlanStripe
    <2>3. TypeOK'
      BY <1>26, <2>1, <2>2 DEF PlanStripe, Lasting, TypeOK, LocOK, At
    <2>4. QED BY <2>1, <2>2, <2>3 DEF Proceeds
  <1>27. ASSUME NEW p \in Procs, PlanSave(p) PROVE Proceeds(p)
    <2>1. Rewrites(loc[p].row, loc[p].loaded) /\ loc[p].row \in DOMAIN subs
      BY <1>27, Saves, Locals DEF PlanSave, At, Status, KnowsInv, Knows, WithRow
    <2>2. Lasting
      BY <1>27, <2>1, RowsTyped DEF PlanSave, Lasting, Rewrites
    <2>3. LocOK' /\ Elsewhere(p) /\ loc'[p] = [loc[p] EXCEPT !.pc = "plan_txn"]
      BY <1>27, <2>2, Moves DEF PlanSave, Lasting, Pc
    <2>4. TypeOK'
      BY <1>27, <2>2, <2>3 DEF PlanSave, Lasting, TypeOK, LocOK, Begin, At, Company, Status
    <2>5. Knows(p)'
      BY <1>27, <2>2, <2>3, Locals
         DEF PlanSave, At, Lasting, KnowsInv, Knows, WithRow, Loads, Billed, Ended
    <2>6. QED BY <2>1, <2>2, <2>3, <2>4, <2>5 DEF Proceeds
  <1>28. ASSUME NEW p \in Procs, PlanTransaction(p) PROVE Proceeds(p)
    <2>1. Lasting
      BY <1>28, QuietLasts DEF PlanTransaction
    <2>2. LocOK' /\ Elsewhere(p) /\ loc'[p] = Idle
      BY <1>28, <2>1, Moves, IdleTyped DEF PlanTransaction, Lasting, End
    <2>3. TypeOK'
      BY <1>28, <2>1, <2>2, Locals
         DEF PlanTransaction, Lasting, Record, TxnType, TypeOK, LocOK, Begin, At, Company, Status
    <2>4. Knows(p)'
      BY <2>2, IdleTyped DEF Knows, WithRow, Loads, Billed, Ended
    <2>5. QED BY <2>1, <2>2, <2>3, <2>4 DEF Proceeds
  <1>29. ASSUME NEW p \in Procs, Throws(p) PROVE Proceeds(p)
    <2>1. Lasting
      BY <1>29, QuietLasts DEF Throws
    <2>2. LocOK' /\ Elsewhere(p) /\ loc'[p] = Idle
      BY <1>29, <2>1, Moves, IdleTyped DEF Throws, Lasting, End
    <2>3. TypeOK'
      BY <1>29, <2>1, <2>2, Locals
         DEF Throws, Lasting, Record, TxnType, TypeOK, LocOK, Begin, At, Company, Status
    <2>4. Knows(p)'
      BY <2>2, IdleTyped DEF Knows, WithRow, Loads, Billed, Ended
    <2>5. QED BY <2>1, <2>2, <2>3, <2>4 DEF Proceeds
  <1>30. ASSUME NEW p \in Procs, NEW s \in StripeIds, CheckoutExpire(p, s) PROVE Proceeds(p)
    <2>1. Lasting
      <3>1. UNCHANGED <<company, stripe>>
        BY <1>30 DEF CheckoutExpire
      <3>2. QED BY <1>30, <3>1, Expires, RowsTyped DEF Lasting
    <2>2. /\ [Idle EXCEPT !.pc = "checkout_insert", !.sid = s] \in Local
          /\ [Idle EXCEPT !.pc = "checkout_insert", !.sid = s].row <= Len(subs')
      <3>1. [Idle EXCEPT !.pc = "checkout_insert", !.sid = s] \in Local
        BY IdleTyped, LocalRecords DEF Pc, Status
      <3>2. [Idle EXCEPT !.pc = "checkout_insert", !.sid = s].row = 0
        BY DEF Idle
      <3>3. QED BY <2>1, <3>1, <3>2 DEF Lasting
    <2>3. LocOK' /\ Elsewhere(p) /\ loc'[p] = [Idle EXCEPT !.pc = "checkout_insert", !.sid = s]
      BY <1>30, <2>1, <2>2, Moves DEF CheckoutExpire, Lasting, LoadCustomer
    <2>4. TypeOK'
      BY <1>30, <2>1, <2>3, Locals, ConstantsAssumption
         DEF CheckoutExpire, Lasting, TypeOK, LocOK, Begin, At, Company, Status
    <2>5. Knows(p)'
      BY <1>30, <2>1, <2>3, Locals, RowsTyped, ConstantsAssumption
         DEF CheckoutExpire, At, Lasting, Idle, KnowsInv, Knows, WithRow, Loads, Billed, Ended
    <2>6. QED BY <2>1, <2>2, <2>3, <2>4, <2>5 DEF Proceeds
  <1>31. ASSUME NEW p \in Procs, NEW s \in StripeIds, PaidRead(p, s) PROVE Proceeds(p)
    <2>1. Lasting
      BY <1>31, QuietLasts DEF PaidRead, ReadByStripeId
    <2>2. PICK r \in DOMAIN subs : subs[r].stripe = s /\ Load(p, r, "paid_save")
      BY <1>31 DEF PaidRead, ReadByStripeId, RowsOf
    <2>3. LocOK' /\ Elsewhere(p) /\ loc'[p].pc = "paid_save" /\ loc'[p].row = r
          /\ loc'[p].loaded = subs[r].status /\ loc'[p].sid = subs[r].stripe
      BY <1>31, <2>2, Loading DEF PaidRead, Pc, ReadByStripeId
    <2>4. TypeOK'
      BY <1>31, <2>1, <2>3, ConstantsAssumption
         DEF PaidRead, Lasting, TypeOK, LocOK, Begin, At, Company, Status, ReadByStripeId
    <2>5. subs[r].status = "canceled" => Ended(subs[r].stripe)
      BY <2>2 DEF CanceledStopsBilling, Ended
    <2>6. UNCHANGED <<subs, company, stripe>> /\ s # NoStripe
      BY <1>31, ConstantsAssumption DEF PaidRead, ReadByStripeId
    <2>7. Knows(p)'
      BY <1>31, <2>2, <2>3, <2>5, <2>6 DEF Knows, WithRow, Loads, Billed, Ended
    <2>8. QED BY <2>1, <2>2, <2>3, <2>4, <2>5, <2>6, <2>7 DEF Proceeds
  <1>32. ASSUME NEW p \in Procs, NEW s \in StripeIds, FailedRead(p, s) PROVE Proceeds(p)
    <2>1. Lasting
      BY <1>32, QuietLasts DEF FailedRead, ReadByStripeId
    <2>2. PICK r \in DOMAIN subs : subs[r].stripe = s /\ Load(p, r, "failed_save")
      BY <1>32 DEF FailedRead, ReadByStripeId, RowsOf
    <2>3. LocOK' /\ Elsewhere(p) /\ loc'[p].pc = "failed_save" /\ loc'[p].row = r
          /\ loc'[p].loaded = subs[r].status /\ loc'[p].sid = subs[r].stripe
      BY <1>32, <2>2, Loading DEF FailedRead, Pc, ReadByStripeId
    <2>4. TypeOK'
      BY <1>32, <2>1, <2>3, ConstantsAssumption
         DEF FailedRead, Lasting, TypeOK, LocOK, Begin, At, Company, Status, ReadByStripeId
    <2>5. subs[r].status = "canceled" => Ended(subs[r].stripe)
      BY <2>2 DEF CanceledStopsBilling, Ended
    <2>6. UNCHANGED <<subs, company, stripe>> /\ s # NoStripe
      BY <1>32, ConstantsAssumption DEF FailedRead, ReadByStripeId
    <2>7. Knows(p)'
      BY <1>32, <2>2, <2>3, <2>5, <2>6 DEF Knows, WithRow, Loads, Billed, Ended
    <2>8. QED BY <2>1, <2>2, <2>3, <2>4, <2>5, <2>6, <2>7 DEF Proceeds
  <1>33. ASSUME NEW p \in Procs, NEW s \in StripeIds, DeletedRead(p, s) PROVE Proceeds(p)
    <2>1. Lasting
      BY <1>33, QuietLasts DEF DeletedRead, ReadByStripeId
    <2>2. PICK r \in DOMAIN subs : subs[r].stripe = s /\ Load(p, r, "deleted_save")
      BY <1>33 DEF DeletedRead, ReadByStripeId, RowsOf
    <2>3. LocOK' /\ Elsewhere(p) /\ loc'[p].pc = "deleted_save" /\ loc'[p].row = r
          /\ loc'[p].loaded = subs[r].status /\ loc'[p].sid = subs[r].stripe
      BY <1>33, <2>2, Loading DEF DeletedRead, Pc, ReadByStripeId
    <2>4. TypeOK'
      BY <1>33, <2>1, <2>3, ConstantsAssumption
         DEF DeletedRead, Lasting, TypeOK, LocOK, Begin, At, Company, Status, ReadByStripeId
    <2>5. subs[r].status = "canceled" => Ended(subs[r].stripe)
      BY <2>2 DEF CanceledStopsBilling, Ended
    <2>6. UNCHANGED <<subs, company, stripe>> /\ s # NoStripe
      BY <1>33, ConstantsAssumption DEF DeletedRead, ReadByStripeId
    <2>7. Knows(p)'
      BY <1>33, <2>2, <2>3, <2>5, <2>6 DEF Knows, WithRow, Loads, Billed, Ended, DeletedRead
    <2>8. QED BY <2>1, <2>2, <2>3, <2>4, <2>5, <2>6, <2>7 DEF Proceeds
  <1>34. QED BY <1>1, <1>2, <1>3, <1>4, <1>5, <1>6, <1>7, <1>8, <1>9, <1>10, <1>11, <1>12,
       <1>13, <1>14, <1>15, <1>16, <1>17, <1>18, <1>19, <1>20, <1>21, <1>22, <1>23, <1>24,
       <1>25, <1>26, <1>27, <1>28, <1>29, <1>30, <1>31, <1>32, <1>33 DEF Operation

\* Stripe's own steps.
StripeMoves(s) == StripePays(s) \/ StripeCancels(s)

LEMMA StripeLasts ==
    ASSUME TypeOK, NEW s \in StripeIds, StripeMoves(s)
    PROVE  TypeOK' /\ Lasting /\ UNCHANGED <<subs, company, txns, customers, loc, ops, cut>>
  <1>1. UNCHANGED <<subs, company, txns, customers, loc, ops, cut>>
    BY DEF StripeMoves, StripePays, StripeCancels
  <1>2. PICK new \in {"active", "canceled"} :
           stripe[s].state # "canceled" /\ stripe' = [stripe EXCEPT ![s].state = new]
    BY DEF StripeMoves, StripePays, StripeCancels
  <1>3. stripe' \in [StripeIds -> StripeState]
    BY <1>2 DEF TypeOK, StripeState
  <1>4. \A t \in StripeIds : stripe[t].state = "canceled" => stripe'[t].state = "canceled"
    BY <1>2 DEF TypeOK
  <1>5. TypeOK'
    BY <1>1, <1>3 DEF TypeOK
  <1>6. Lasting
    BY <1>1, <1>4, RowsTyped DEF Lasting, TypeOK
  <1>7. QED BY <1>1, <1>5, <1>6

\* What an operation at rest in an await knows stays true.
LEMMA KnowledgeLasts ==
    ASSUME TypeOK, Lasting, NEW q \in Procs, Knows(q), loc'[q] = loc[q]
    PROVE  Knows(q)'
  BY Locals, RowsTyped DEF Knows, WithRow, Loads, Billed, Ended, Lasting

LEMMA NextCases ==
    ASSUME [Next]_vars
    PROVE  \/ \E o \in Procs : Operation(o)
           \/ \E s \in StripeIds : StripeMoves(s)
           \/ UNCHANGED vars
  BY DEF Next, Operation, StripeMoves

-------------------------------------------------------------------------------
\* A row becomes canceled only when Stripe has canceled its subscription.

Writing(o) ==
    \/ TrialInsert(o) \/ CheckoutInsert(o)
    \/ \E s \in StripeIds : CheckoutExpire(o, s)
    \/ PaidSave(o) \/ FailedSave(o) \/ DeletedSave(o) \/ CancelSave(o) \/ PlanSave(o)

LEMMA WritesRows ==
    ASSUME NEW o \in Procs, Operation(o)
    PROVE  UNCHANGED subs \/ Writing(o)
  BY DEF Operation, Writing, TrialReadCompany, TrialReadCurrent, TrialCompany, TrialTransaction,
         SessionReadCompany, SessionCustomer, SessionCompany, SessionCreate, CheckoutCompany,
         CheckoutTransaction, PaidTransaction, FailedCompany, DeletedCompany, CancelRead,
         CancelStripe, CancelCompany, CancelTransaction, PlanRead, PlanReadCompany, PlanStripe,
         PlanTransaction, Throws, PaidRead, FailedRead, DeletedRead, ReadByStripeId

LEMMA Cancels ==
    ASSUME TypeOK, KnowsInv, NEW o \in Procs, Operation(o),
           NEW r \in DOMAIN subs', subs'[r].status = "canceled"
    PROVE  r \in DOMAIN subs /\ (subs[r].status = "canceled" \/ Ended(subs[r].stripe))
  <1>1. CASE UNCHANGED subs
    BY <1>1
  <1>2. CASE TrialInsert(o)
    BY <1>2, Inserts DEF TrialInsert
  <1>3. CASE CheckoutInsert(o)
    BY <1>3, Inserts, Locals DEF CheckoutInsert
  <1>4. ASSUME NEW s \in StripeIds, CheckoutExpire(o, s)
        PROVE  r \in DOMAIN subs /\ subs[r].status = "canceled"
    BY <1>4, Expires
  <1>5. ASSUME NEW st \in Status, SaveLoaded(o, st), loc[o].row \in DOMAIN subs,
               st = "canceled" => Ended(subs[loc[o].row].stripe)
        PROVE  r \in DOMAIN subs /\ (subs[r].status = "canceled" \/ Ended(subs[r].stripe))
    BY <1>5, Saves DEF Rewrites
  <1>6. CASE PaidSave(o)
    BY <1>5, <1>6, Locals DEF PaidSave, At, KnowsInv, Knows, WithRow, Loads
  <1>7. CASE FailedSave(o)
    BY <1>5, <1>7, Locals DEF FailedSave, At, KnowsInv, Knows, WithRow, Status
  <1>8. CASE DeletedSave(o)
    BY <1>5, <1>8, Locals DEF DeletedSave, At, KnowsInv, Knows, WithRow, Loads, Status
  <1>9. CASE CancelSave(o)
    BY <1>5, <1>9, Locals DEF CancelSave, At, KnowsInv, Knows, WithRow, Loads, Status
  <1>10. CASE PlanSave(o)
    BY <1>5, <1>10, Locals DEF PlanSave, At, KnowsInv, Knows, WithRow, Loads
  <1>11. QED
    BY <1>1, <1>2, <1>3, <1>4, <1>6, <1>7, <1>8, <1>9, <1>10, WritesRows DEF Writing

LEMMA CanceledStep ==
    ASSUME IInv, Lasting, NEW o \in Procs, Operation(o), TypeOK'
    PROVE  CanceledStopsBilling'
  <1> SUFFICES ASSUME NEW r \in DOMAIN subs', subs'[r].status = "canceled",
                      subs'[r].stripe # NoStripe
               PROVE  stripe'[subs'[r].stripe].state = "canceled"
    BY DEF CanceledStopsBilling
  <1>1. r \in DOMAIN subs /\ (subs[r].status = "canceled" \/ Ended(subs[r].stripe))
    BY Cancels DEF IInv
  <1>2. subs'[r].stripe = subs[r].stripe /\ subs[r].stripe \in StripeIds
    BY <1>1, RowsTyped DEF Lasting, IInv
  <1>3. stripe[subs[r].stripe].state = "canceled"
    BY <1>1, <1>2 DEF IInv, CanceledStopsBilling, Ended
  <1>4. QED BY <1>2, <1>3 DEF Lasting

-------------------------------------------------------------------------------
\* A transaction is recorded for the row the operation has in hand.

LEMMA Records ==
    ASSUME KnowsInv, NEW o \in Procs, Operation(o), NEW t \in txns', t \notin txns
    PROVE  /\ t[2] \in DOMAIN subs
           /\ t[1] = "trial_started" => company.usedTrial /\ subs[t[2]].stripe = NoStripe
           /\ t[1] \in {"subscription_payment", "subscription_renewed", "plan_changed"}
                 => subs[t[2]].stripe # NoStripe
  <1>1. \/ TrialTransaction(o) \/ CheckoutTransaction(o) \/ PaidTransaction(o)
        \/ CancelTransaction(o) \/ PlanTransaction(o)
    BY DEF Operation, TrialReadCompany, TrialReadCurrent, TrialInsert, TrialCompany,
           SessionReadCompany, SessionCustomer, SessionCompany, SessionCreate, CheckoutExpire,
           CheckoutInsert, CheckoutCompany, PaidRead, PaidSave, FailedRead, FailedSave,
           FailedCompany, DeletedRead, DeletedSave, DeletedCompany, ReadByStripeId, CancelRead,
           CancelStripe, CancelSave, CancelCompany, PlanRead, PlanReadCompany, PlanStripe,
           PlanSave, Throws
  <1>2. CASE TrialTransaction(o)
    BY <1>2 DEF TrialTransaction, Record, At, KnowsInv, Knows, WithRow
  <1>3. CASE CheckoutTransaction(o)
    BY <1>3 DEF CheckoutTransaction, Record, At, KnowsInv, Knows, WithRow, Billed
  <1>4. CASE PaidTransaction(o)
    BY <1>4 DEF PaidTransaction, Record, At, KnowsInv, Knows, WithRow, Billed
  <1>5. CASE CancelTransaction(o)
    <2>1. t = <<"trial_ended", loc[o].row>>
      BY <1>5 DEF CancelTransaction, Record
    <2>2. loc[o].row \in DOMAIN subs
      BY <1>5 DEF CancelTransaction, At, KnowsInv, Knows, WithRow
    <2>3. t[1] = "trial_ended" /\ t[2] = loc[o].row
      BY <2>1
    <2>4. QED BY <2>2, <2>3
  <1>6. CASE PlanTransaction(o)
    BY <1>6 DEF PlanTransaction, Record, At, KnowsInv, Knows, WithRow, Billed
  <1>7. QED BY <1>1, <1>2, <1>3, <1>4, <1>5, <1>6

LEMMA BooksStep ==
    ASSUME IInv, Lasting, NEW o \in Procs, Operation(o)
    PROVE  BooksMatchRows'
  <1> DEFINE OnBooks(t) ==
        /\ t[2] \in DOMAIN subs
        /\ t[1] = "trial_started" => company.usedTrial /\ subs[t[2]].stripe = NoStripe
        /\ t[1] \in {"subscription_payment", "subscription_renewed", "plan_changed"}
              => subs[t[2]].stripe # NoStripe
  <1>1. ASSUME NEW t \in txns' PROVE OnBooks(t)
    <2>1. CASE t \in txns
      BY <2>1 DEF IInv, BooksMatchRows
    <2>2. CASE t \notin txns
      BY <2>2, Records DEF IInv
    <2>3. QED BY <2>1, <2>2
  <1>2. ASSUME NEW t \in txns', OnBooks(t) PROVE OnBooks(t)'
    BY <1>2 DEF Lasting
  <1>3. QED BY <1>1, <1>2 DEF BooksMatchRows

-------------------------------------------------------------------------------
LEMMA InitIInv == Init => IInv
  <1> SUFFICES ASSUME Init PROVE IInv
    OBVIOUS
  <1>1. subs = <<>> /\ subs \in Seq(Row) /\ Len(subs) = 0 /\ DOMAIN subs = {}
    BY DEF Init
  <1>2. stripe \in [StripeIds -> StripeState] /\ company \in Company
    BY DEF Init, StripeState, Company
  <1>3. loc \in [Procs -> Local] /\ \A p \in Procs : loc[p].row = 0 /\ loc[p].pc = "idle"
    BY IdleTyped DEF Init
  <1>4. TypeOK
    <2>1. txns \in SUBSET (TxnType \X Nat) /\ customers \in Nat /\ cut \in BOOLEAN
      BY DEF Init
    <2>2. ops \in 0..MaxOps
      BY ConstantsAssumption DEF Init
    <2>3. \A p \in Procs : loc[p].row \in 0..Len(subs)
      BY <1>1, <1>3
    <2>4. QED BY <1>1, <1>2, <1>3, <2>1, <2>2, <2>3 DEF TypeOK
  <1>5. KnowsInv
    BY <1>3 DEF KnowsInv, Knows, WithRow, Loads, Billed
  <1>6. CanceledStopsBilling /\ BooksMatchRows
    BY <1>1 DEF Init, CanceledStopsBilling, BooksMatchRows
  <1>7. QED BY <1>4, <1>5, <1>6 DEF IInv

LEMMA StepIInv == IInv /\ [Next]_vars => IInv'
  <1> SUFFICES ASSUME IInv, [Next]_vars PROVE IInv'
    OBVIOUS
  <1>1. ASSUME NEW o \in Procs, Operation(o) PROVE IInv'
    <2>1. TypeOK' /\ Lasting /\ Elsewhere(o) /\ Knows(o)'
      BY <1>1, OperationProceeds DEF IInv, Proceeds
    <2>2. KnowsInv'
      BY <2>1, KnowledgeLasts DEF IInv, KnowsInv, Elsewhere
    <2>3. QED BY <1>1, <2>1, <2>2, CanceledStep, BooksStep DEF IInv
  <1>2. ASSUME NEW s \in StripeIds, StripeMoves(s) PROVE IInv'
    <2>1. TypeOK' /\ Lasting /\ UNCHANGED <<subs, company, txns, customers, loc, ops, cut>>
      BY <1>2, StripeLasts DEF IInv
    <2>2. KnowsInv'
      BY <2>1, KnowledgeLasts DEF IInv, KnowsInv
    <2>3. CanceledStopsBilling' /\ BooksMatchRows'
      BY <2>1, RowsTyped DEF IInv, Lasting, CanceledStopsBilling, BooksMatchRows
    <2>4. QED BY <2>1, <2>2, <2>3 DEF IInv
  <1>3. CASE UNCHANGED vars
    BY <1>3 DEF vars, IInv, TypeOK, KnowsInv, Knows, Ended, CanceledStopsBilling, BooksMatchRows
  <1>4. QED BY <1>1, <1>2, <1>3, NextCases

LEMMA Invariant == Spec => []IInv
  BY InitIInv, StepIInv, PTL DEF Spec

\* The tables and what operations have loaded keep their types: in particular every
\* row an operation refers to exists.
THEOREM SubscriptionsTypeCorrect == Spec => []TypeOK
  <1>1. IInv => TypeOK
    BY DEF IInv
  <1>2. QED BY <1>1, Invariant, PTL

\* cancelSubscription, handleSubscriptionDeleted and the saves of loaded rows: no row
\* is shown as canceled whose subscription Stripe goes on billing.
THEOREM CancellationReachesStripe == Spec => []CanceledStopsBilling
  <1>1. IInv => CanceledStopsBilling
    BY DEF IInv
  <1>2. QED BY <1>1, Invariant, PTL

\* The transactions that operations record belong to rows of the kind they speak of.
THEOREM BooksAreKept == Spec => []BooksMatchRows
  <1>1. IInv => BooksMatchRows
    BY DEF IInv
  <1>2. QED BY <1>1, Invariant, PTL

-------------------------------------------------------------------------------
\* Operations that do not overlap (MaxConcurrent = 1).  What an operation has
\* read is then still so when it writes, whatever failed before it began.

Alone == \A p, q \in Procs : loc[p].pc # "idle" /\ loc[q].pc # "idle" => p = q

OneActive == \A q, r \in ActiveRows : q = r

\* Where the rows are as the operation left or read them.
Watched == {"trial_insert", "checkout_insert", "trial_company", "checkout_company",
            "paid_save", "plan_stripe", "plan_save"}

SeesRows(p) ==
    LET l == loc[p] IN
    /\ l.pc \in {"trial_insert", "checkout_insert"} => ActiveRows = {}
    /\ l.pc \in {"trial_company", "checkout_company"} => ActiveRows # {}
    /\ l.pc \in {"paid_save", "plan_stripe", "plan_save"} => l.loaded = subs[l.row].status

\* Where the row has left ACTIVE and the company's status is about to follow.
Parting == {"checkout_insert", "failed_company", "deleted_company", "cancel_company"}

Backed == (~cut /\ company.status = "active" /\ \A p \in Procs : loc[p].pc \notin Parting)
              => ActiveRows # {}

RowsInv == OneActive /\ Backed /\ \A p \in Procs : SeesRows(p)

SeesCustomer(p) ==
    LET l == loc[p] IN
    /\ l.pc \in {"session_customer", "session_company"} => company.customer = 0
    /\ l.pc = "session_company" => l.customer # 0
    /\ l.pc = "session_create" => company.customer # 0 /\ l.customer = company.customer

NoSessionYet == company.customer = 0 => \A s \in StripeIds : stripe[s].state = "none"

CustomersInv ==
    NoSessionYet /\ SessionsBillCustomerOnFile /\ \A p \in Procs : SeesCustomer(p)

SerialInv == IInv /\ Alone /\ RowsInv /\ CustomersInv

\* Where a step of o leaves o.
LEMMA Arrives ==
    ASSUME TypeOK, NEW o \in Procs
    PROVE  /\ \A label \in Pc : Goto(o, label) =>
                 /\ loc'[o].pc = label /\ loc'[o].row = loc[o].row
                 /\ loc'[o].loaded = loc[o].loaded /\ loc'[o].customer = loc[o].customer
           /\ End(o) => loc'[o].pc = "idle"
           /\ \A r \in DOMAIN subs : \A label \in Pc : Load(o, r, label) =>
                 loc'[o].pc = label /\ loc'[o].row = r /\ loc'[o].loaded = subs[r].status
           /\ LoadCustomer(o) =>
                 /\ loc'[o].customer = company.customer
                 /\ loc'[o].pc = IF company.customer = 0 THEN "session_customer"
                                                         ELSE "session_create"
           /\ \A l : Become(o, l) => loc'[o] = l
  <1>0. loc \in [Procs -> Local] /\ loc[o] \in Local
    BY Locals DEF TypeOK
  <1>1. \A l : Become(o, l) => loc'[o] = l
    BY <1>0 DEF Become
  <1>2. ASSUME NEW label \in Pc, Goto(o, label)
        PROVE  /\ loc'[o].pc = label /\ loc'[o].row = loc[o].row
               /\ loc'[o].loaded = loc[o].loaded /\ loc'[o].customer = loc[o].customer
    BY <1>0, <1>2 DEF Goto, Local
  <1>3. End(o) => loc'[o].pc = "idle"
    BY <1>1, IdleTyped DEF End
  <1>4. ASSUME NEW r \in DOMAIN subs, NEW label \in Pc, Load(o, r, label)
        PROVE  loc'[o].pc = label /\ loc'[o].row = r /\ loc'[o].loaded = subs[r].status
    <2> DEFINE l == [Idle EXCEPT !.pc = label, !.row = r, !.loaded = subs[r].status,
                                 !.sid = subs[r].stripe]
    <2>1. loc'[o] = l
      BY <1>1, <1>4 DEF Load
    <2>2. l.pc = label /\ l.row = r /\ l.loaded = subs[r].status
      BY DEF Idle
    <2>3. QED BY <2>1, <2>2
  <1>5. ASSUME LoadCustomer(o)
        PROVE  /\ loc'[o].customer = company.customer
               /\ loc'[o].pc = IF company.customer = 0 THEN "session_customer"
                                                       ELSE "session_create"
    <2> DEFINE label == IF company.customer = 0 THEN "session_customer" ELSE "session_create"
               l == [Idle EXCEPT !.customer = company.customer, !.pc = label]
    <2>1. loc'[o] = l
      BY <1>1, <1>5 DEF LoadCustomer
    <2>2. l.customer = company.customer /\ l.pc = label
      BY DEF Idle
    <2>3. QED BY <2>1, <2>2
  <1>6. QED BY <1>1, <1>2, <1>3, <1>4, <1>5

\* An operation starts when there is no other, so only one is ever under way.
LEMMA AloneStep ==
    ASSUME MaxConcurrent = 1, TypeOK, Alone, NEW o \in Procs, Operation(o), Elsewhere(o)
    PROVE  Alone' /\ \A q \in Procs \ {o} : loc[q].pc = "idle" /\ loc'[q].pc = "idle"
  <1>1. ASSUME NEW q \in Procs \ {o} PROVE loc[q].pc = "idle"
    <2>1. CASE loc[o].pc # "idle"
      BY <2>1 DEF Alone
    <2>2. CASE loc[o].pc = "idle"
      <3>1. Cardinality(Busy) < 1
        BY <2>2 DEF Operation, Begin, At, Busy, TrialReadCompany, TrialReadCurrent, TrialInsert,
           TrialCompany, TrialTransaction, SessionReadCompany, SessionCustomer, SessionCompany,
           SessionCreate, CheckoutExpire, CheckoutInsert, CheckoutCompany, CheckoutTransaction,
           ReadByStripeId, PaidRead, PaidSave, PaidTransaction, FailedRead, FailedSave,
           FailedCompany, DeletedRead, DeletedSave, DeletedCompany, CancelRead, CancelStripe,
           CancelSave, CancelCompany, CancelTransaction, PlanRead, PlanReadCompany, PlanStripe,
           PlanSave, PlanTransaction, Throws
      <3>2. IsFiniteSet(Busy)
        BY ConstantsAssumption, FS_Subset DEF Busy
      <3>3. Cardinality(Busy) \in Nat
        BY <3>2, FS_CardinalityType
      <3>4. Cardinality(Busy) = 0
        BY <3>1, <3>3
      <3>5. Busy = {}
        BY <3>2, <3>4, FS_EmptySet
      <3>6. QED BY <3>5 DEF Busy
    <2>3. QED BY <2>1, <2>2
  <1>2. QED BY <1>1 DEF Elsewhere, Alone

-------------------------------------------------------------------------------
\* The rows, when operations do not overlap.

RowsHold(o) ==
    /\ OneActive' /\ SeesRows(o)'
    /\ (~cut' /\ company'.status = "active" /\ loc'[o].pc \notin Parting) => ActiveRows' # {}

LEMMA QuietlyHolds ==
    ASSUME RowsInv, NEW o \in Procs, UNCHANGED subs, loc'[o].pc \notin Watched,
           \A q \in Procs \ {o} : loc[q].pc = "idle",
           \/ cut'
           \/ company'.status # "active"
           \/ loc[o].pc \notin Parting /\ cut' = cut /\ company'.status = company.status
    PROVE  RowsHold(o)
  <1>1. ActiveRows' = ActiveRows
    BY DEF ActiveRows
  <1>2. OneActive' /\ SeesRows(o)'
    BY <1>1 DEF RowsInv, OneActive, SeesRows, Watched
  <1>3. (~cut' /\ company'.status = "active" /\ loc'[o].pc \notin Parting) => ActiveRows' # {}
    BY <1>1 DEF RowsInv, Backed, Parting
  <1>4. QED BY <1>2, <1>3 DEF RowsHold

LEMMA RewritesActive ==
    ASSUME TypeOK, NEW r \in DOMAIN subs, NEW st \in Status, Rewrites(r, st)
    PROVE  /\ st # "active" => ActiveRows' \subseteq ActiveRows
           /\ st = subs[r].status => ActiveRows' = ActiveRows
  BY DEF Rewrites, ActiveRows

\* An operation that neither writes rows nor goes on with what it read of them.
Unconcerned(o) ==
    \/ TrialReadCompany(o) \/ TrialTransaction(o) \/ SessionReadCompany(o)
    \/ SessionCustomer(o) \/ SessionCompany(o) \/ SessionCreate(o) \/ CheckoutTransaction(o)
    \/ PaidTransaction(o) \/ FailedCompany(o) \/ DeletedCompany(o) \/ CancelRead(o)
    \/ CancelStripe(o) \/ CancelCompany(o) \/ CancelTransaction(o) \/ PlanReadCompany(o)
    \/ PlanTransaction(o) \/ Throws(o)
    \/ \E s \in StripeIds : FailedRead(o, s) \/ DeletedRead(o, s)

LEMMA UnconcernedHolds ==
    ASSUME TypeOK, RowsInv, NEW o \in Procs, Unconcerned(o),
           \A q \in Procs \ {o} : loc[q].pc = "idle"
    PROVE  RowsHold(o)
  <1>0. loc[o] \in Local /\ company \in Company
    BY Locals DEF TypeOK
  <1>1. ASSUME UNCHANGED <<subs, cut>>, company'.status = company.status,
               loc[o].pc \notin Parting, loc'[o].pc \notin Watched
        PROVE  RowsHold(o)
    BY <1>1, QuietlyHolds
  <1>2. CASE TrialReadCompany(o)
    BY <1>1, <1>2, Arrives DEF TrialReadCompany, Begin, Parting, Watched, Pc
  <1>3. CASE TrialTransaction(o)
    BY <1>1, <1>3, Arrives DEF TrialTransaction, At, Parting, Watched
  <1>4. CASE SessionReadCompany(o)
    BY <1>1, <1>4, Arrives DEF SessionReadCompany, Begin, Parting, Watched
  <1>5. CASE SessionCustomer(o)
    <2>1. loc'[o].pc = "session_company"
      BY <1>0, <1>5, Arrives DEF SessionCustomer, Local
    <2>2. QED BY <1>1, <1>5, <2>1 DEF SessionCustomer, At, Parting, Watched
  <1>6. CASE SessionCompany(o)
    BY <1>0, <1>1, <1>6, Arrives DEF SessionCompany, At, Parting, Watched, Pc, Company
  <1>7. CASE SessionCreate(o)
    BY <1>1, <1>7, Arrives DEF SessionCreate, At, Parting, Watched
  <1>8. CASE CheckoutTransaction(o)
    BY <1>1, <1>8, Arrives DEF CheckoutTransaction, At, Parting, Watched
  <1>9. CASE PaidTransaction(o)
    BY <1>1, <1>9, Arrives DEF PaidTransaction, At, Parting, Watched
  <1>10. CASE FailedCompany(o)
    BY <1>0, <1>10, Arrives, QuietlyHolds DEF FailedCompany, Watched, Company
  <1>11. CASE DeletedCompany(o)
    BY <1>0, <1>11, Arrives, QuietlyHolds DEF DeletedCompany, Watched, Company
  <1>12. CASE CancelRead(o)
    <2>1. loc'[o].pc \in {"cancel_save", "cancel_stripe"}
      <3>1. PICK r \in DOMAIN subs :
               Load(o, r, IF subs[r].stripe = NoStripe THEN "cancel_save" ELSE "cancel_stripe")
        BY <1>12 DEF CancelRead, ActiveRows
      <3>2. QED BY <3>1, Arrives DEF Pc
    <2>2. QED BY <1>1, <1>12, <2>1 DEF CancelRead, Begin, Parting, Watched
  <1>13. CASE CancelStripe(o)
    <2>1. CASE Goto(o, "cancel_save") /\ UNCHANGED cut
      BY <1>1, <1>13, <2>1, Arrives DEF CancelStripe, At, Parting, Watched, Pc
    <2>2. CASE End(o) /\ cut' = TRUE
      BY <1>13, <2>2, Arrives, QuietlyHolds DEF CancelStripe, Watched
    <2>3. QED BY <1>13, <2>1, <2>2 DEF CancelStripe
  <1>14. CASE CancelCompany(o)
    BY <1>0, <1>14, Arrives, QuietlyHolds DEF CancelCompany, Watched, Pc, Company
  <1>15. CASE CancelTransaction(o)
    BY <1>1, <1>15, Arrives DEF CancelTransaction, At, Parting, Watched
  <1>16. CASE PlanReadCompany(o)
    BY <1>1, <1>16, Arrives DEF PlanReadCompany, At, Parting, Watched
  <1>17. CASE PlanTransaction(o)
    BY <1>1, <1>17, Arrives DEF PlanTransaction, At, Parting, Watched
  <1>18. CASE Throws(o)
    BY <1>18, Arrives, QuietlyHolds DEF Throws, Watched
  <1>19. ASSUME NEW s \in StripeIds, FailedRead(o, s) PROVE RowsHold(o)
    BY <1>1, <1>19, Arrives DEF FailedRead, ReadByStripeId, RowsOf, Begin, Parting, Watched, Pc
  <1>20. ASSUME NEW s \in StripeIds, DeletedRead(o, s) PROVE RowsHold(o)
    BY <1>1, <1>20, Arrives DEF DeletedRead, ReadByStripeId, RowsOf, Begin, Parting, Watched, Pc
  <1>21. QED BY <1>2, <1>3, <1>4, <1>5, <1>6, <1>7, <1>8, <1>9, <1>10, <1>11, <1>12, <1>13,
               <1>14, <1>15, <1>16, <1>17, <1>18, <1>19, <1>20 DEF Unconcerned

\* A save that does not make a row active.
LEMMA SaveHolds ==
    ASSUME TypeOK, KnowsInv, RowsInv, NEW o \in Procs, NEW st \in Status, NEW label \in Pc,
           SaveLoaded(o, st), Goto(o, label), loc[o].pc \in WithRow, loc[o].pc \notin Parting,
           UNCHANGED <<company, cut>>, label \notin Watched,
           \/ st # "active" /\ label \in Parting
           \/ st = subs[loc[o].row].status,
           \A q \in Procs \ {o} : loc[q].pc = "idle"
    PROVE  RowsHold(o)
  <1>1. loc[o].row \in DOMAIN subs
    BY DEF KnowsInv, Knows
  <1>2. loc'[o].pc = label
    BY Arrives
  <1>3. (st # "active" => ActiveRows' \subseteq ActiveRows)
        /\ (st = subs[loc[o].row].status => ActiveRows' = ActiveRows)
    BY <1>1, Saves, RewritesActive
  <1>4. OneActive' /\ SeesRows(o)'
    BY <1>2, <1>3 DEF RowsInv, OneActive, SeesRows, Watched
  <1>5. loc'[o].pc \in Parting \/ ActiveRows' = ActiveRows
    BY <1>2, <1>3
  <1>6. QED BY <1>4, <1>5 DEF RowsHold, RowsInv, Backed, Parting

LEMMA InsertHolds ==
    ASSUME TypeOK, NEW o \in Procs, NEW s \in StripeIds \cup {NoStripe}, Insert(s),
           ActiveRows = {}, loc'[o].pc \in {"trial_company", "checkout_company"}
    PROVE  RowsHold(o)
  <1>1. ActiveRows' = {Len(subs) + 1}
    BY Inserts DEF ActiveRows
  <1>2. QED BY <1>1 DEF RowsHold, OneActive, SeesRows

LEMMA RowsStep ==
    ASSUME IInv, RowsInv, NEW o \in Procs, Operation(o), \A q \in Procs \ {o} : loc[q].pc = "idle"
    PROVE  RowsHold(o)
  <1>0. TypeOK /\ KnowsInv /\ loc[o] \in Local /\ company \in Company
    BY Locals DEF IInv, TypeOK
  <1>1. CASE Unconcerned(o)
    BY <1>0, <1>1, UnconcernedHolds
  <1>2. CASE TrialReadCurrent(o)
    <2>1. CASE ActiveRows = {} /\ Goto(o, "trial_insert")
      <3>1. loc'[o].pc = "trial_insert"
        BY <1>0, <2>1, Arrives DEF Pc
      <3>2. ActiveRows' = ActiveRows
        BY <1>2 DEF TrialReadCurrent, ActiveRows
      <3>3. QED BY <1>2, <2>1, <3>1, <3>2
                DEF TrialReadCurrent, At, RowsHold, RowsInv, Backed, OneActive, SeesRows, Parting
    <2>2. CASE End(o)
      BY <1>0, <1>2, <2>2, Arrives, QuietlyHolds DEF TrialReadCurrent, At, Parting, Watched
    <2>3. QED BY <1>2, <2>1, <2>2 DEF TrialReadCurrent
  <1>3. CASE TrialInsert(o)
    <2>1. loc'[o].pc = "trial_company"
      BY <1>0, <1>3, Arrives DEF TrialInsert, Idle
    <2>2. QED BY <1>0, <1>3, <2>1, InsertHolds DEF TrialInsert, At, RowsInv, SeesRows
  <1>4. CASE CheckoutInsert(o)
    <2>1. loc'[o].pc = "checkout_company"
      BY <1>0, <1>4, Arrives DEF CheckoutInsert, Local
    <2>2. QED BY <1>0, <1>4, <2>1, Locals, InsertHolds DEF CheckoutInsert, At, RowsInv, SeesRows
  <1>5. CASE TrialCompany(o) \/ CheckoutCompany(o)
    <2>1. UNCHANGED subs /\ ActiveRows # {}
      BY <1>5 DEF TrialCompany, CheckoutCompany, At, RowsInv, SeesRows
    <2>2. ActiveRows' = ActiveRows
      BY <2>1 DEF ActiveRows
    <2>3. loc'[o].pc \in {"trial_txn", "checkout_txn"}
      BY <1>0, <1>5, Arrives DEF TrialCompany, CheckoutCompany, Pc
    <2>4. QED BY <2>1, <2>2, <2>3 DEF RowsHold, RowsInv, OneActive, SeesRows
  <1>6. ASSUME NEW s \in StripeIds, CheckoutExpire(o, s) PROVE RowsHold(o)
    <2>1. loc'[o].pc = "checkout_insert"
      BY <1>0, <1>6, Arrives DEF CheckoutExpire, Idle
    <2>2. ActiveRows' = {}
      BY <1>0, <1>6, Expires DEF ActiveRows
    <2>3. QED BY <2>1, <2>2 DEF RowsHold, OneActive, SeesRows, Parting
  <1>7. ASSUME NEW s \in StripeIds, PaidRead(o, s) PROVE RowsHold(o)
    <2>1. PICK r \in DOMAIN subs : Load(o, r, "paid_save")
      BY <1>7 DEF PaidRead, ReadByStripeId, RowsOf
    <2>2. loc'[o].pc = "paid_save" /\ loc'[o].row = r /\ loc'[o].loaded = subs[r].status
      BY <1>0, <2>1, Arrives DEF Pc
    <2>3. UNCHANGED <<subs, company, cut>> /\ ActiveRows' = ActiveRows /\ loc[o].pc = "idle"
      BY <1>7 DEF PaidRead, ReadByStripeId, Begin, ActiveRows
    <2>4. QED BY <2>2, <2>3 DEF RowsHold, RowsInv, Backed, OneActive, SeesRows, Parting
  <1>8. CASE PlanRead(o)
    <2>1. PICK r \in DOMAIN subs :
             Load(o, r, IF subs[r].stripe = NoStripe THEN "plan_company" ELSE "plan_stripe")
      BY <1>8 DEF PlanRead, ActiveRows
    <2>2. /\ loc'[o].pc \in {"plan_company", "plan_stripe"}
          /\ loc'[o].row = r /\ loc'[o].loaded = subs[r].status
      BY <1>0, <2>1, Arrives DEF Pc
    <2>3. UNCHANGED <<subs, company, cut>> /\ ActiveRows' = ActiveRows /\ loc[o].pc = "idle"
      BY <1>8 DEF PlanRead, Begin, ActiveRows
    <2>4. QED BY <2>2, <2>3 DEF RowsHold, RowsInv, Backed, OneActive, SeesRows, Parting
  <1>9. CASE PlanStripe(o)
    <2>1. CASE Goto(o, "plan_save") /\ UNCHANGED cut
      <3>1. loc'[o].pc = "plan_save" /\ loc'[o].row = loc[o].row /\ loc'[o].loaded = loc[o].loaded
        BY <1>0, <2>1, Arrives DEF Pc
      <3>2. UNCHANGED <<subs, company, cut>> /\ ActiveRows' = ActiveRows
            /\ loc[o].pc = "plan_stripe"
        BY <1>9, <2>1 DEF PlanStripe, At, ActiveRows
      <3>3. QED BY <3>1, <3>2 DEF RowsHold, RowsInv, Backed, OneActive, SeesRows, Parting
    <2>2. CASE End(o) /\ cut' = TRUE
      BY <1>0, <1>9, <2>2, Arrives, QuietlyHolds DEF PlanStripe, Watched
    <2>3. QED BY <1>9, <2>1, <2>2 DEF PlanStripe
  <1>10. CASE PaidSave(o)
    BY <1>0, <1>10, Locals, SaveHolds
       DEF PaidSave, At, RowsInv, SeesRows, WithRow, Watched, Parting, Pc
  <1>11. CASE PlanSave(o)
    BY <1>0, <1>11, Locals, SaveHolds
       DEF PlanSave, At, RowsInv, SeesRows, WithRow, Watched, Parting, Pc
  <1>12. CASE FailedSave(o)
    BY <1>0, <1>12, SaveHolds DEF FailedSave, At, WithRow, Watched, Parting, Pc, Status
  <1>13. CASE DeletedSave(o)
    BY <1>0, <1>13, SaveHolds DEF DeletedSave, At, WithRow, Watched, Parting, Pc, Status
  <1>14. CASE CancelSave(o)
    BY <1>0, <1>14, SaveHolds DEF CancelSave, At, WithRow, Watched, Parting, Pc, Status
  <1>15. QED BY <1>1, <1>2, <1>3, <1>4, <1>5, <1>6, <1>7, <1>8, <1>9, <1>10, <1>11, <1>12,
               <1>13, <1>14 DEF Operation, Unconcerned

-------------------------------------------------------------------------------
\* The customer on file, when operations do not overlap.

CustomersHold(o) == NoSessionYet' /\ SessionsBillCustomerOnFile' /\ SeesCustomer(o)'

LEMMA CustomersStep ==
    ASSUME TypeOK, KnowsInv, CustomersInv, NEW o \in Procs, Operation(o)
    PROVE  CustomersHold(o)
  <1> DEFINE Selling == {"session_customer", "session_company", "session_create"}
  <1>0. /\ loc \in [Procs -> Local] /\ loc[o] \in Local /\ company \in Company
        /\ stripe \in [StripeIds -> StripeState] /\ customers \in Nat
    BY Locals DEF TypeOK
  <1>1. ASSUME UNCHANGED stripe, company'.customer = company.customer, loc'[o].pc \notin Selling
        PROVE  CustomersHold(o)
    BY <1>1 DEF CustomersHold, CustomersInv, NoSessionYet, SessionsBillCustomerOnFile, SeesCustomer
  <1>2. CASE SessionReadCompany(o) \/ PlanReadCompany(o)
    <2>1. UNCHANGED <<stripe, company>> /\ LoadCustomer(o)
      BY <1>2 DEF SessionReadCompany, PlanReadCompany
    <2>2. /\ loc'[o].customer = company.customer
          /\ loc'[o].pc = IF company.customer = 0 THEN "session_customer" ELSE "session_create"
      BY <2>1, Arrives
    <2>3. QED BY <2>1, <2>2 DEF CustomersHold, CustomersInv, NoSessionYet,
                                SessionsBillCustomerOnFile, SeesCustomer
  <1>3. CASE SessionCustomer(o)
    <2>1. loc'[o].pc = "session_company" /\ loc'[o].customer = customers + 1
      BY <1>0, <1>3, Arrives DEF SessionCustomer, Local
    <2>2. UNCHANGED <<stripe, company>> /\ company.customer = 0
      BY <1>3 DEF SessionCustomer, At, CustomersInv, SeesCustomer
    <2>3. customers + 1 # 0
      BY <1>0
    <2>4. QED BY <2>1, <2>2, <2>3 DEF CustomersHold, CustomersInv, NoSessionYet,
                                      SessionsBillCustomerOnFile, SeesCustomer
  <1>4. CASE SessionCompany(o)
    <2>1. company.customer = 0 /\ loc[o].customer # 0
      BY <1>4 DEF SessionCompany, At, CustomersInv, SeesCustomer
    <2>2. loc'[o].pc = "session_create" /\ loc'[o].customer = loc[o].customer
      BY <1>4, TypeOK, Arrives DEF SessionCompany, Pc
    <2>3. UNCHANGED stripe /\ company'.customer = loc[o].customer
      BY <1>0, <1>4 DEF SessionCompany, Company
    <2>4. QED BY <2>1, <2>2, <2>3 DEF CustomersHold, CustomersInv, NoSessionYet,
                                      SessionsBillCustomerOnFile, SeesCustomer
  <1>5. CASE SessionCreate(o)
    <2>1. loc'[o].pc = "idle" /\ UNCHANGED company
      BY <1>5, TypeOK, Arrives DEF SessionCreate
    <2>2. company.customer # 0 /\ loc[o].customer = company.customer
      BY <1>5 DEF SessionCreate, At, CustomersInv, SeesCustomer
    <2>3. PICK s \in StripeIds :
             stripe' = [stripe EXCEPT ![s] = [state |-> "session", customer |-> loc[o].customer]]
      BY <1>5 DEF SessionCreate
    <2>4. \A t \in StripeIds : \/ stripe'[t] = stripe[t]
                               \/ stripe'[t].customer = loc[o].customer
      BY <1>0, <2>3
    <2>5. QED BY <2>1, <2>2, <2>4 DEF CustomersHold, CustomersInv, NoSessionYet,
                                      SessionsBillCustomerOnFile, SeesCustomer
  <1>6. CASE CancelStripe(o)
    <2>1. CASE UNCHANGED stripe /\ End(o)
      BY <1>1, <1>6, <2>1, Arrives DEF CancelStripe
    <2>2. CASE /\ Goto(o, "cancel_save") /\ stripe[loc[o].sid].state = "active"
               /\ stripe' = [stripe EXCEPT ![loc[o].sid].state = "canceled"]
      <3>1. loc'[o].pc = "cancel_save" /\ UNCHANGED company
        BY <1>6, <2>2, Arrives DEF CancelStripe, Pc
      <3>2. \A t \in StripeIds :
               /\ stripe'[t].customer = stripe[t].customer
               /\ stripe[t].state = "none" <=> stripe'[t].state = "none"
        BY <1>0, <2>2 DEF StripeState
      <3>3. QED BY <3>1, <3>2 DEF CustomersHold, CustomersInv, NoSessionYet,
                                  SessionsBillCustomerOnFile, SeesCustomer
    <2>3. QED BY <1>6, <2>1, <2>2 DEF CancelStripe
  <1>7. CASE TrialReadCompany(o) \/ TrialReadCurrent(o)
             \/ TrialTransaction(o) \/ CheckoutTransaction(o)
    BY <1>1, <1>7, Arrives DEF TrialReadCompany, TrialReadCurrent, TrialTransaction,
                               CheckoutTransaction, Pc
  <1>8. CASE TrialCompany(o) \/ CheckoutCompany(o) \/ FailedCompany(o) \/ DeletedCompany(o)
             \/ CancelCompany(o)
    BY <1>0, <1>1, <1>8, Arrives DEF TrialCompany, CheckoutCompany, FailedCompany, DeletedCompany,
                                     CancelCompany, Pc, Company
  <1>9. CASE TrialInsert(o) \/ CheckoutInsert(o) \/ \E s \in StripeIds : CheckoutExpire(o, s)
    <2>1. loc'[o].pc \in {"trial_company", "checkout_company", "checkout_insert"}
      <3>1. CASE TrialInsert(o)
        BY <3>1, Arrives DEF TrialInsert, Idle
      <3>2. CASE CheckoutInsert(o)
        BY <1>0, <3>2, Arrives DEF CheckoutInsert, Local
      <3>3. ASSUME NEW s \in StripeIds, CheckoutExpire(o, s)
            PROVE  loc'[o].pc = "checkout_insert"
        BY <3>3, Arrives DEF CheckoutExpire, Idle
      <3>4. QED BY <1>9, <3>1, <3>2, <3>3
    <2>2. QED BY <1>1, <1>9, <2>1 DEF TrialInsert, CheckoutInsert, CheckoutExpire
  <1>10. CASE PaidSave(o) \/ FailedSave(o) \/ DeletedSave(o) \/ CancelSave(o) \/ PlanSave(o)
    BY <1>1, <1>10, Arrives DEF PaidSave, FailedSave, DeletedSave, CancelSave, PlanSave, Pc
  <1>11. CASE PaidTransaction(o) \/ CancelTransaction(o) \/ PlanTransaction(o) \/ Throws(o)
    BY <1>1, <1>11, Arrives DEF PaidTransaction, CancelTransaction, PlanTransaction, Throws
  <1>12. CASE CancelRead(o) \/ PlanRead(o)
    <2>1. PICK r \in DOMAIN subs,
               label \in {"cancel_save", "cancel_stripe", "plan_company", "plan_stripe"} :
             Load(o, r, label)
      BY <1>12 DEF CancelRead, PlanRead, ActiveRows
    <2>2. loc'[o].pc = label
      BY <2>1, Arrives DEF Pc
    <2>3. QED BY <1>1, <1>12, <2>2 DEF CancelRead, PlanRead
  <1>13. CASE PlanStripe(o)
    BY <1>1, <1>13, Arrives DEF PlanStripe, Pc
  <1>14. ASSUME NEW s \in StripeIds, PaidRead(o, s) \/ FailedRead(o, s) \/ DeletedRead(o, s)
         PROVE  CustomersHold(o)
    <2>1. PICK r \in DOMAIN subs, label \in {"paid_save", "failed_save", "deleted_save"} :
             Load(o, r, label)
      BY <1>14 DEF PaidRead, FailedRead, DeletedRead, ReadByStripeId, RowsOf
    <2>2. loc'[o].pc = label
      BY <2>1, Arrives DEF Pc
    <2>3. QED BY <1>1, <1>14, <2>2 DEF PaidRead, FailedRead, DeletedRead, ReadByStripeId
  <1>15. QED BY <1>2, <1>3, <1>4, <1>5, <1>6, <1>7, <1>8, <1>9, <1>10, <1>11, <1>12, <1>13, <1>14
             DEF Operation

-------------------------------------------------------------------------------
LEMMA SerialInit == Init => SerialInv
  <1> SUFFICES ASSUME Init PROVE SerialInv
    OBVIOUS
  <1>1. IInv
    BY InitIInv
  <1>2. ActiveRows = {} /\ company.status = "trial" /\ \A p \in Procs : loc[p].pc = "idle"
    BY IdleTyped DEF Init, ActiveRows
  <1>3. Alone /\ RowsInv
    BY <1>2 DEF Alone, RowsInv, OneActive, Backed, SeesRows
  <1>4. \A s \in StripeIds : stripe[s].state = "none"
    BY DEF Init
  <1>5. CustomersInv
    BY <1>2, <1>4 DEF CustomersInv, NoSessionYet, SessionsBillCustomerOnFile, SeesCustomer
  <1>6. QED BY <1>1, <1>3, <1>5 DEF SerialInv

LEMMA SerialStep ==
    ASSUME MaxConcurrent = 1, SerialInv, [Next]_vars
    PROVE  SerialInv'
  <1>0. IInv'
    BY StepIInv DEF SerialInv
  <1>1. ASSUME NEW o \in Procs, Operation(o) PROVE Alone' /\ RowsInv' /\ CustomersInv'
    <2>1. Elsewhere(o)
      BY <1>1, OperationProceeds DEF SerialInv, IInv, Proceeds
    <2>2. Alone' /\ \A q \in Procs \ {o} : loc[q].pc = "idle" /\ loc'[q].pc = "idle"
      BY <1>1, <2>1, AloneStep DEF SerialInv, IInv
    <2>3. RowsHold(o) /\ CustomersHold(o)
      BY <1>1, <2>2, RowsStep, CustomersStep DEF SerialInv, IInv
    <2>4. \A q \in Procs \ {o} : SeesRows(q)' /\ SeesCustomer(q)'
      BY <2>2 DEF SeesRows, SeesCustomer
    <2>5. RowsInv'
      BY <2>2, <2>3, <2>4 DEF RowsInv, RowsHold, Backed, Parting
    <2>6. CustomersInv'
      BY <2>3, <2>4 DEF CustomersInv, CustomersHold
    <2>7. QED BY <2>2, <2>5, <2>6
  <1>2. ASSUME NEW s \in StripeIds, StripeMoves(s) PROVE Alone' /\ RowsInv' /\ CustomersInv'
    <2>1. UNCHANGED <<subs, company, loc, cut>>
      BY <1>2, StripeLasts DEF SerialInv, IInv
    <2>2. Alone' /\ RowsInv'
      BY <2>1 DEF SerialInv, Alone, RowsInv, OneActive, Backed, SeesRows, ActiveRows
    <2>3. \A t \in StripeIds :
             /\ stripe'[t].customer = stripe[t].customer
             /\ stripe[t].state = "none" <=> stripe'[t].state = "none"
      BY <1>2 DEF StripeMoves, StripePays, StripeCancels, SerialInv, IInv, TypeOK, StripeState
    <2>4. CustomersInv'
      BY <2>1, <2>3 DEF SerialInv, CustomersInv, NoSessionYet, SessionsBillCustomerOnFile,
                        SeesCustomer
    <2>5. QED BY <2>2, <2>4
  <1>3. CASE UNCHANGED vars
    <2>1. UNCHANGED <<subs, company, stripe, loc, cut>>
      BY <1>3 DEF vars
    <2>2. Alone' /\ RowsInv'
      BY <2>1 DEF SerialInv, Alone, RowsInv, OneActive, Backed, SeesRows, ActiveRows
    <2>3. CustomersInv'
      BY <2>1 DEF SerialInv, CustomersInv, NoSessionYet, SessionsBillCustomerOnFile, SeesCustomer
    <2>4. QED BY <1>0, <2>2, <2>3 DEF SerialInv
  <1>4. QED BY <1>0, <1>1, <1>2, <1>3, NextCases DEF SerialInv

LEMMA SerialInvariant == ASSUME MaxConcurrent = 1 PROVE Spec => []SerialInv
  <1>1. SerialInv /\ [Next]_vars => SerialInv'
    BY SerialStep
  <1>2. QED BY <1>1, SerialInit, PTL DEF Spec

\* SubscriptionGuard and getCurrentSubscription: as long as operations do not
\* overlap, a company has at most one ACTIVE row, whatever fails in them.
THEOREM OneActiveSubscription == ASSUME MaxConcurrent = 1 PROVE Spec => []AtMostOneActive
  <1>1. SerialInv => AtMostOneActive
    <2> SUFFICES ASSUME SerialInv PROVE Cardinality(ActiveRows) <= 1
      BY DEF AtMostOneActive
    <2>1. CASE ActiveRows = {}
      BY <2>1, FS_EmptySet
    <2>2. ASSUME NEW r \in ActiveRows PROVE Cardinality(ActiveRows) = 1
      <3>1. ActiveRows = {r}
        BY DEF SerialInv, RowsInv, OneActive
      <3>2. QED BY <3>1, FS_Singleton
    <2>3. QED BY <2>1, <2>2
  <1>2. QED BY <1>1, SerialInvariant, PTL

\* The company's own status, which the front end shows: between operations that all
\* ran to their end, an active company has an ACTIVE row.
THEOREM ActiveIsBacked == ASSUME MaxConcurrent = 1 PROVE Spec => []ActiveCompanyHasRow
  <1>1. SerialInv => ActiveCompanyHasRow
    BY DEF SerialInv, RowsInv, Backed, ActiveCompanyHasRow, Busy, Parting
  <1>2. QED BY <1>1, SerialInvariant, PTL

\* createCheckoutSession: every checkout is for the Stripe customer on file.
THEOREM CheckoutsBillCustomerOnFile ==
    ASSUME MaxConcurrent = 1 PROVE Spec => []SessionsBillCustomerOnFile
  <1>1. SerialInv => SessionsBillCustomerOnFile
    BY DEF SerialInv, CustomersInv
  <1>2. QED BY <1>1, SerialInvariant, PTL

-------------------------------------------------------------------------------
\* A row that is not ACTIVE stays so: the only statement that makes a row active
\* makes a new one, and a save writes back a status that is still the row's.

LEMMA SavesKeepEnded ==
    ASSUME TypeOK, NEW o \in Procs, NEW st \in Status, SaveLoaded(o, st),
           loc[o].row \in DOMAIN subs,
           st # "active" \/ st = subs[loc[o].row].status,
           NEW r \in DOMAIN subs, subs[r].status # "active"
    PROVE  subs'[r].status # "active"
  BY Saves DEF Rewrites

LEMMA EndedStep ==
    ASSUME SerialInv, [Next]_vars, NEW r \in DOMAIN subs, subs[r].status # "active"
    PROVE  subs'[r].status # "active"
  <1>0. TypeOK /\ KnowsInv
    BY DEF SerialInv, IInv
  <1>1. CASE UNCHANGED subs
    BY <1>1
  <1>2. ASSUME NEW o \in Procs, Writing(o) PROVE subs'[r].status # "active"
    <2>1. CASE TrialInsert(o)
      BY <1>0, <2>1, Inserts DEF TrialInsert
    <2>2. CASE CheckoutInsert(o)
      BY <1>0, <2>2, Inserts, Locals DEF CheckoutInsert
    <2>3. ASSUME NEW s \in StripeIds, CheckoutExpire(o, s) PROVE subs'[r].status # "active"
      BY <1>0, <2>3, Expires
    <2>4. CASE PaidSave(o)
      BY <1>0, <2>4, Locals, SavesKeepEnded
         DEF PaidSave, At, SerialInv, RowsInv, SeesRows, KnowsInv, Knows, WithRow
    <2>5. CASE PlanSave(o)
      BY <1>0, <2>5, Locals, SavesKeepEnded
         DEF PlanSave, At, SerialInv, RowsInv, SeesRows, KnowsInv, Knows, WithRow
    <2>6. CASE FailedSave(o) \/ DeletedSave(o) \/ CancelSave(o)
      BY <1>0, <2>6, SavesKeepEnded
         DEF FailedSave, DeletedSave, CancelSave, At, KnowsInv, Knows, WithRow, Status
    <2>7. QED BY <1>2, <2>1, <2>2, <2>3, <2>4, <2>5, <2>6 DEF Writing
  <1>3. ASSUME NEW s \in StripeIds, StripeMoves(s) PROVE UNCHANGED subs
    BY <1>3 DEF StripeMoves, StripePays, StripeCancels
  <1>4. QED BY <1>1, <1>2, <1>3, NextCases, WritesRows DEF vars

\* No late, replayed or failed operation brings an ended subscription back.
THEOREM EndedSubscriptionStaysEnded == ASSUME MaxConcurrent = 1 PROVE Spec => EndedStaysEnded
  <1>1. SerialInv /\ [Next]_vars
           => [\A r \in DOMAIN subs :
                  subs[r].status # "active" => subs'[r].status # "active"]_vars
    BY EndedStep
  <1>2. QED BY <1>1, SerialInvariant, PTL DEF Spec, EndedStaysEnded
==============================================================================
