------------------------------ MODULE Production -------------------------------
(***************************************************************************)
(* WorkOrdersService and TimeSegmentsService behind their controllers'     *)
(* routes: the work orders on the floor and the time that is logged on     *)
(* them.  A company has an active location.                                *)
(***************************************************************************)
EXTENDS ResponseCache

CONSTANTS
    Numbers,    \* numbers of work orders; those in Uuids are written as UUIDs
    Uuids,
    Times,      \* instants
    MaxOrders, MaxSegments  \* bounds on rows

Never == 0

ASSUME ProductionAssumption ==
    /\ Times \subseteq Nat \ {Never}
    /\ Uuids \subseteq Numbers
    /\ MaxOrders \in Nat \ {0} /\ MaxSegments \in Nat \ {0}

VARIABLES
    orders,     \* the work orders, in order of their ids
    segments,   \* the time segments, in order of their ids
    rivals      \* history: segments with two requests about them at once

\* An id of a segment's order may be any: no foreign key is on its column (References).
OrderIds == 1..MaxOrders

floorTables == <<orders, segments, rivals>>

OrderOK ==
    /\ orders \in Seq([number : Numbers, closed : BOOLEAN, there : BOOLEAN])
    /\ segments \in Seq([order : OrderIds, start : Times, end : Times \cup {Never},
                         duration : Int, active : BOOLEAN])
    /\ rivals \subseteq DOMAIN segments

\* A company that has not started, or one with a work order that time is logged on.
FloorInit ==
    /\ \/ orders = <<>> /\ segments = <<>>
       \/ \E n \in Numbers, t \in Times :
             /\ orders = <<[number |-> n, closed |-> FALSE, there |-> TRUE]>>
             /\ segments = <<[order |-> 1, start |-> t, end |-> Never, duration |-> 0,
                             active |-> TRUE]>>
    /\ rivals = {}

Id(i) == <<"id", i>>
Started(n) == {i \in DOMAIN orders : orders[i].there /\ orders[i].number = n}
SegmentsOf(w) == {i \in DOMAIN segments : segments[i].order = w}

-------------------------------------------------------------------------------
\* A segment is shown, with nothing of its work order: the relation's own column is
\* null.  A list is by the id of an order, there or not.
Segment(i) == <<"segment", i>>
Segments(w) == <<"segments of", w>>
FloorKeys == {Segment(i) : i \in DOMAIN segments} \cup {Segments(w) : w \in OrderIds}
FloorView(k) == IF k[1] = "segment" THEN {<<k[2], segments[k[2]]>>}
                ELSE {{<<i, segments[i]>> : i \in SegmentsOf(k[2])}}

-------------------------------------------------------------------------------
\* WorkOrdersService

OrderRead(r, n) ==
    /\ Len(orders) < MaxOrders
    /\ \A i \in Started(n) : orders[i].closed
    /\ Begin(r, "start", [NoArg EXCEPT !.loaded = n])
    /\ UNCHANGED floorTables

\* The unique index on the number refuses one that is open, and one that was closed.
OrderInsert(r) ==
    /\ pc[r] = "start"
    /\ orders' = IF Started(arg[r].loaded) # {} \/ Len(orders) = MaxOrders THEN orders
                 ELSE Append(orders, [number |-> arg[r].loaded, closed |-> FALSE, there |-> TRUE])
    /\ Finish(r)
    /\ UNCHANGED <<segments, rivals>>

\* update, close and delete take a UUID and look for the work order with that number.
OrderFind(r, x, label) ==
    /\ \E w \in DOMAIN orders :
          /\ orders[w].there /\ orders[w].number = x
          /\ label = "close_order" => ~orders[w].closed
          /\ Begin(r, label, [NoArg EXCEPT !.row = w, !.loaded = x])
    /\ UNCHANGED floorTables

\* What is written is the work order with that id.  Of a change only that of
\* closingTime is kept.
OrderWrite(r) ==
    /\ pc[r] \in {"change_order", "close_order"}
    /\ orders' = [w \in DOMAIN orders |->
                    IF Id(w) = arg[r].loaded /\ pc[r] = "close_order"
                      THEN [orders[w] EXCEPT !.closed = TRUE] ELSE orders[w]]
    /\ Finish(r)
    /\ UNCHANGED <<segments, rivals>>

\* remove deletes the row that was loaded; its segments stay.
OrderDelete(r) ==
    /\ pc[r] = "delete_order"
    /\ orders' = [orders EXCEPT ![arg[r].row].there = FALSE]
    /\ Finish(r)
    /\ UNCHANGED <<segments, rivals>>

-------------------------------------------------------------------------------
\* TimeSegmentsService

\* "time-segments:work-order:{{dto.work_order_id}}" is no key of any list.
SegmentCreate(r, w, t) ==
    /\ pc[r] = "idle"
    /\ ops < MaxOps
    /\ ops' = ops + 1
    /\ Len(segments) < MaxSegments
    /\ segments' = Append(segments, [order |-> w, start |-> t, end |-> Never, duration |-> 0,
                                     active |-> TRUE])
    /\ UNCHANGED <<cache, pc, arg, faults, now, orders, rivals>>

\* updateTimeSegment and endSegment, which refuses a segment that has ended.
SegmentRead(r, i, label, t) ==
    /\ label = "end" => segments[i].end = Never
    /\ Begin(r, label, [Route({Segment(i)}) EXCEPT !.row = i, !.other = t,
                           !.loaded = segments[i]])
    /\ rivals' = IF \E q \in Requests : pc[q] \in {"patch", "end"} /\ arg[q].row = i
                   THEN rivals \cup {i} ELSE rivals
    /\ UNCHANGED <<orders, segments>>

SegmentWrite(r, row) ==
    /\ segments' = [segments EXCEPT ![arg[r].row] = row]
    /\ Goto(r, "reread", arg[r])
    /\ UNCHANGED <<orders, rivals>>

\* A body with an endTime, or one that clears isActive; undefined is left out.
SegmentPatch(r) ==
    LET i == arg[r].row IN
    /\ pc[r] = "patch"
    /\ \/ SegmentWrite(r, [segments[i] EXCEPT !.end = arg[r].other])
       \/ SegmentWrite(r, [segments[i] EXCEPT !.active = FALSE])

SegmentEnd(r) ==
    LET i == arg[r].row IN
    /\ pc[r] = "end"
    /\ SegmentWrite(r, [segments[i] EXCEPT !.end = arg[r].other,
                                           !.duration = arg[r].other - arg[r].loaded.start])

FloorStep(r) ==
    \/ OrderInsert(r) \/ OrderWrite(r) \/ OrderDelete(r)
    \/ SegmentPatch(r) \/ SegmentEnd(r)
    \/ Reread(r, TRUE) /\ UNCHANGED floorTables

FloorRequest(r) ==
    \/ \E n \in Numbers : OrderRead(r, n)
    \/ \E x \in Uuids \cup {Id(w) : w \in DOMAIN orders} :
          \E label \in {"change_order", "close_order", "delete_order"} : OrderFind(r, x, label)
    \/ \E w \in OrderIds, t \in Times : SegmentCreate(r, w, t)
    \/ \E i \in DOMAIN segments, t \in Times :
          SegmentRead(r, i, "end", t) \/ SegmentRead(r, i, "patch", t)

-------------------------------------------------------------------------------
\* The end of a segment and its duration are set together and once, unless a PATCH
\* changes the end or two requests about the segment overlapped.
EndsKept ==
    \A i \in DOMAIN segments :
        (segments[i].end # Never /\ segments'[i] # segments[i]) =>
            \/ i \in rivals
            \/ \E r \in Requests : pc[r] = "patch" /\ pc'[r] # "patch" /\ arg[r].row = i
===============================================================================
