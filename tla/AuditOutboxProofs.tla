------------------------- MODULE AuditOutboxProofs -------------------------
(***************************************************************************)
(* Proofs about AuditOutbox, for every number of events and drains, every  *)
(* lease time and every bound.                                             *)
(***************************************************************************)
EXTENDS AuditOutbox, TLAPS

InHand == {"put", "ack", "reject", "retry"}

\* A row that is due can be leased: it is absent or settled in no case.
LEMMA DueStatus ==
  ASSUME NEW d \in Drains, NEW i \in Items, Due(d, i)
  PROVE  rows[i].status \in {"pending", "retry", "leased"}
  BY DEF Due

LEMMA LeasedType ==
  ASSUME TypeOK, NEW d \in Drains, NEW i \in Items
  PROVE  /\ Leased(d, i) \in RowSet
         /\ Leased(d, i).status = "leased" /\ Leased(d, i).owner = d
         /\ Leased(d, i).expires = LeaseTime - drain[d].age
         /\ Leased(d, i).next = rows[i].next
<1>1. rows[i] \in RowSet /\ drain[d] \in DrainSet
  BY DEF TypeOK
<1>2. LeaseTime - drain[d].age \in Int
  BY <1>1, OutboxTimes DEF DrainSet
<1> QED
  BY <1>1, <1>2 DEF Leased, RowSet, Statuses

LEMMA FaultType ==
  ASSUME faults \in 0..MaxFaults, Fault
  PROVE  faults' \in 0..MaxFaults
  BY OutboxBounds DEF Fault

\* What the typing of the rows and of the drains says
RowsOK ==
  /\ rows \in [Items -> RowSet]
  /\ \A i \in Items : rows[i].owner = None <=> rows[i].status # "leased"

DrainsOK ==
  /\ drain \in [Drains -> DrainSet]
  /\ \A d \in Drains : drain[d].item # None <=> drain[d].pc \in InHand

LEMMA TypeParts ==
  TypeOK <=> RowsOK /\ DrainsOK /\ stored \subseteq Items /\ faults \in 0..MaxFaults
  BY DEF TypeOK, RowsOK, DrainsOK, InHand

LEMMA OffType == Off \in DrainSet /\ Off.pc = "off" /\ Off.item = None /\ Off.age = 0
  BY OutboxTimes DEF Off, DrainSet

LEMMA LeaveType ==
  ASSUME TypeOK, NEW d \in Drains, Leave(d)
  PROVE  RowsOK' /\ DrainsOK'
<1>1. DrainsOK'
  BY TypeParts, OffType DEF Leave, DrainsOK, InHand
<1>2. \A i \in Items : rows[i] \in RowSet /\ rows[i].status \in Statuses
  BY DEF TypeOK, RowSet
<1>3. \A i \in Items : rows[i].owner = d => [rows[i] EXCEPT !.owner = Gone] \in RowSet
  BY <1>2 DEF RowSet
<1>4. \A i \in Items :
        /\ rows[i].owner = d => [rows[i] EXCEPT !.owner = Gone].owner = Gone
        /\ [rows[i] EXCEPT !.owner = Gone].status = rows[i].status
  BY <1>2 DEF RowSet
<1>5. RowsOK'
  BY <1>2, <1>3, <1>4, OutboxItems, OutboxOwners, TypeParts DEF Leave, RowsOK
<1> QED
  BY <1>1, <1>5

LEMMA SettleType ==
  ASSUME TypeOK, NEW d \in Drains, NEW row \in RowSet, row.status # "leased",
         row.owner = None, Settle(d, row)
  PROVE  TypeOK'
<1>1. drain[d] \in DrainSet
  BY DEF TypeOK
<1>2. [drain[d] EXCEPT !.pc = "loop", !.item = None] \in DrainSet
  BY <1>1 DEF DrainSet
<1>3. /\ [drain[d] EXCEPT !.pc = "loop", !.item = None].pc = "loop"
      /\ [drain[d] EXCEPT !.pc = "loop", !.item = None].item = None
  BY <1>1 DEF DrainSet
<1>4. drain' = [drain EXCEPT ![d] = [drain[d] EXCEPT !.pc = "loop", !.item = None]]
  BY DEF Settle
<1>5. DrainsOK'
  BY <1>2, <1>3, <1>4, TypeParts DEF DrainsOK, InHand
<1>6. RowsOK'
  BY TypeParts DEF Settle, RowsOK
<1> QED
  BY <1>5, <1>6 DEF Settle, TypeOK, RowsOK, DrainsOK, InHand

LEMMA RowType ==
  ASSUME NEW status \in Statuses, NEW next \in Int
  PROVE  /\ Row(status, None, next, 0) \in RowSet
         /\ Row(status, None, next, 0).status = status
         /\ Row(status, None, next, 0).owner = None
  BY DEF Row, RowSet

LEMMA TickType == TypeOK /\ Tick => TypeOK'
<1> SUFFICES ASSUME TypeOK, Tick PROVE TypeOK'
  OBVIOUS
<1>1. \A t \in Int : Earlier(t) \in Int
  BY OutboxTimes DEF Earlier
<1>2. \A row \in RowSet : /\ Aged(row) \in RowSet
                          /\ Aged(row).status = row.status
                          /\ Aged(row).owner = row.owner
  BY <1>1 DEF Aged, RowSet
<1>3. RowsOK'
  BY <1>2, TypeParts DEF Tick, RowsOK
<1>4. ASSUME NEW d \in Drains
      PROVE  /\ drain'[d] \in DrainSet
             /\ drain'[d].pc = drain[d].pc /\ drain'[d].item = drain[d].item
  <2>1. drain[d] \in DrainSet
    BY DEF TypeOK
  <2>2. CASE drain[d].pc = "off"
    BY <2>1, <2>2 DEF Tick
  <2>3. CASE drain[d].pc # "off"
    <3>1. drain[d].age < MaxAge
      BY <2>3 DEF Tick
    <3>2. drain[d].age + 1 \in 0..MaxAge
      BY <2>1, <3>1, OutboxTimes DEF DrainSet
    <3> QED
      BY <2>1, <2>3, <3>2 DEF Tick, DrainSet
  <2> QED
    BY <2>2, <2>3
<1>5. drain' \in [Drains -> DrainSet]
  <2>1. drain' = [d \in Drains |-> drain'[d]]
    BY DEF Tick
  <2> QED
    BY <1>4, <2>1
<1>6. DrainsOK'
  BY <1>4, <1>5, TypeParts DEF DrainsOK
<1> QED
  BY <1>3, <1>6 DEF Tick, TypeOK, RowsOK, DrainsOK, InHand

LEMMA InitType == Init => TypeOK
<1> SUFFICES ASSUME Init PROVE TypeOK
  OBVIOUS
<1>1. Absent \in RowSet /\ Absent.owner = None /\ Absent.status = "absent"
  BY RowType DEF Absent, Statuses
<1>2. faults \in 0..MaxFaults
  BY OutboxBounds DEF Init
<1> QED
  BY <1>1, <1>2, OffType DEF Init, TypeOK

\* The scan and the leasing of rows
LEMMA ScanType ==
  ASSUME TypeOK, NEW d \in Drains, Scan(d) \/ Finish(d) \/ Start(d)
  PROVE  TypeOK'
<1>1. drain[d] \in DrainSet
  BY DEF TypeOK
<1>2. CASE Leave(d) /\ UNCHANGED <<stored, faults>>
  BY <1>2, LeaveType DEF TypeOK, RowsOK, DrainsOK, InHand
<1>3. CASE Start(d)
  <2>1. [Off EXCEPT !.pc = "scan"] \in DrainSet
    BY OutboxTimes DEF Off, DrainSet
  <2>2. [Off EXCEPT !.pc = "scan"].pc = "scan" /\ [Off EXCEPT !.pc = "scan"].item = None
    BY DEF Off
  <2> QED
    BY <1>3, <2>1, <2>2 DEF Start, TypeOK
<1>4. ASSUME drain[d].pc = "scan",
             NEW S \in SUBSET Items,
             drain' = [drain EXCEPT ![d].pc = "loop", ![d].todo = S],
             UNCHANGED <<rows, stored, faults>>
      PROVE  TypeOK'
  <2>1. [drain[d] EXCEPT !.pc = "loop", !.todo = S] \in DrainSet
    BY <1>1 DEF DrainSet
  <2>2. /\ [drain[d] EXCEPT !.pc = "loop", !.todo = S].pc = "loop"
        /\ [drain[d] EXCEPT !.pc = "loop", !.todo = S].item = drain[d].item
    BY <1>1 DEF DrainSet
  <2>3. drain' = [drain EXCEPT ![d] = [drain[d] EXCEPT !.pc = "loop", !.todo = S]]
    BY <1>4
  <2> QED
    BY <1>4, <2>1, <2>2, <2>3 DEF TypeOK
<1>5. CASE Scan(d)
  <2>1. PICK S \in Selections({i \in Items : Due(d, i)}) :
          IF S = {} THEN Leave(d)
          ELSE /\ drain' = [drain EXCEPT ![d].pc = "loop", ![d].todo = S]
               /\ UNCHANGED rows
    BY <1>5 DEF Scan
  <2>2. S \in SUBSET Items
    BY DEF Selections
  <2> QED
    BY <1>2, <1>4, <1>5, <2>1, <2>2 DEF Scan
<1>6. CASE Finish(d)
  BY <1>2, <1>6 DEF Finish
<1> QED
  BY <1>3, <1>5, <1>6

LEMMA LeaseTypeOK ==
  ASSUME TypeOK, NEW d \in Drains, Lease(d)
  PROVE  TypeOK'
<1>1. drain[d] \in DrainSet /\ drain[d].pc = "loop" /\ drain[d].todo \subseteq Items
  BY DEF TypeOK, DrainSet, Lease
<1>2. PICK i \in drain[d].todo :
        IF Due(d, i)
        THEN /\ rows' = [rows EXCEPT ![i] = Leased(d, i)]
             /\ drain' = [drain EXCEPT ![d].pc = IF i \in Corrupt THEN "reject" ELSE "put",
                                       ![d].item = i, ![d].todo = @ \ {i}]
        ELSE /\ drain' = [drain EXCEPT ![d].todo = @ \ {i}]
             /\ UNCHANGED rows
  BY DEF Lease
<1>3. i \in Items
  BY <1>1
<1>4. CASE Due(d, i)
  <2> DEFINE pc == IF i \in Corrupt THEN "reject" ELSE "put"
  <2>1. pc \in InHand /\ i # None
    BY <1>3, OutboxItems DEF InHand
  <2>2. RowsOK'
    BY <1>2, <1>3, <1>4, LeasedType, OutboxItems, TypeParts DEF RowsOK
  <2>3. drain' = [drain EXCEPT ![d] = [drain[d] EXCEPT !.pc = pc, !.item = i,
                                                       !.todo = @ \ {i}]]
    BY <1>2, <1>4
  <2> HIDE DEF pc
  <2>4. [drain[d] EXCEPT !.pc = pc, !.item = i, !.todo = @ \ {i}] \in DrainSet
    BY <1>1, <1>3, <2>1 DEF DrainSet, InHand
  <2>5. /\ [drain[d] EXCEPT !.pc = pc, !.item = i, !.todo = @ \ {i}].pc = pc
        /\ [drain[d] EXCEPT !.pc = pc, !.item = i, !.todo = @ \ {i}].item = i
    BY <1>1 DEF DrainSet
  <2>6. DrainsOK'
    BY <2>1, <2>3, <2>4, <2>5, TypeParts DEF DrainsOK
  <2> QED
    BY <2>2, <2>6 DEF Lease, TypeOK, RowsOK, DrainsOK, InHand
<1>5. CASE ~Due(d, i)
  <2>1. [drain[d] EXCEPT !.todo = @ \ {i}] \in DrainSet
    BY <1>1 DEF DrainSet
  <2>2. /\ [drain[d] EXCEPT !.todo = @ \ {i}].pc = drain[d].pc
        /\ [drain[d] EXCEPT !.todo = @ \ {i}].item = drain[d].item
    BY <1>1 DEF DrainSet
  <2>3. drain' = [drain EXCEPT ![d] = [drain[d] EXCEPT !.todo = @ \ {i}]] /\ UNCHANGED rows
    BY <1>2, <1>5
  <2> QED
    BY <2>1, <2>2, <2>3 DEF Lease, TypeOK
<1> QED
  BY <1>4, <1>5

LEMMA GotoDrain ==
  ASSUME TypeOK, NEW d \in Drains, NEW pc \in InHand, drain[d].pc \in InHand, Goto(d, pc)
  PROVE  /\ DrainsOK' /\ drain'[d].pc = pc /\ drain'[d].item = drain[d].item
         /\ drain'[d].age = drain[d].age
         /\ \A c \in Drains \ {d} : drain'[c] = drain[c]
<1>1. drain[d] \in DrainSet
  BY DEF TypeOK
<1>2. /\ [drain[d] EXCEPT !.pc = pc] \in DrainSet
      /\ [drain[d] EXCEPT !.pc = pc].pc = pc
      /\ [drain[d] EXCEPT !.pc = pc].item = drain[d].item
      /\ [drain[d] EXCEPT !.pc = pc].age = drain[d].age
  BY <1>1 DEF DrainSet, InHand
<1>3. drain' = [drain EXCEPT ![d] = [drain[d] EXCEPT !.pc = pc]]
  BY DEF Goto
<1> QED
  BY <1>2, <1>3, TypeParts DEF DrainsOK

LEMMA ItemInHand ==
  ASSUME TypeOK, NEW d \in Drains, drain[d].pc \in InHand
  PROVE  drain[d].item \in Items
  BY DEF TypeOK, DrainSet, InHand

LEMMA PutType ==
  ASSUME TypeOK, NEW d \in Drains, Put(d) \/ PutFails(d)
  PROVE  TypeOK'
<1>1. drain[d].pc = "put" /\ drain[d].item \in Items
  BY ItemInHand DEF Put, PutFails, InHand
<1>2. stored' \subseteq Items
  BY <1>1 DEF Put, PutFails, TypeOK
<1>3. DrainsOK'
  BY <1>1, GotoDrain DEF Put, PutFails, InHand
<1>4. faults' \in 0..MaxFaults
  BY FaultType DEF Put, PutFails, TypeOK
<1> QED
  BY <1>2, <1>3, <1>4 DEF Put, PutFails, TypeOK, RowsOK, DrainsOK, InHand

LEMMA VerdictType ==
  ASSUME TypeOK, NEW d \in Drains, Ack(d) \/ DeadLetter(d) \/ Retry(d)
  PROVE  TypeOK'
<1>1. CASE Ack(d)
  BY <1>1, RowType, SettleType DEF Ack, Statuses, Settled
<1>2. CASE DeadLetter(d)
  BY <1>2, RowType, SettleType DEF DeadLetter, Statuses, Settled
<1>3. CASE Retry(d)
  <2>1. PICK delay \in Delays : Settle(d, Row("retry", None, delay - drain[d].age, 0))
    BY <1>3 DEF Retry
  <2>2. delay - drain[d].age \in Int
    BY OutboxTimes DEF TypeOK, DrainSet
  <2> QED
    BY <2>1, <2>2, RowType, SettleType DEF Statuses
<1> QED
  BY <1>1, <1>2, <1>3

LEMMA FailureType ==
  ASSUME TypeOK, NEW d \in Drains, Failure(d)
  PROVE  TypeOK'
<1>1. CASE PutFails(d)
  BY <1>1, PutType
<1>2. CASE LeaseThrows(d)
  <2>1. DrainsOK'
    BY <1>2, OffType, TypeParts DEF LeaseThrows, DrainsOK, InHand
  <2>2. RowsOK'
    <3>1. CASE UNCHANGED rows
      BY <3>1, TypeParts DEF RowsOK
    <3>2. ASSUME NEW i \in drain[d].todo, Due(d, i),
                 rows' = [rows EXCEPT ![i] = [Leased(d, i) EXCEPT !.owner = Gone]]
          PROVE  RowsOK'
      <4>1. i \in Items
        BY <3>2 DEF TypeOK, DrainSet
      <4>2. /\ [Leased(d, i) EXCEPT !.owner = Gone] \in RowSet
            /\ [Leased(d, i) EXCEPT !.owner = Gone].owner = Gone
            /\ [Leased(d, i) EXCEPT !.owner = Gone].status = "leased"
        BY <4>1, LeasedType DEF RowSet
      <4> QED
        BY <3>2, <4>1, <4>2, OutboxOwners, TypeParts DEF RowsOK
    <3> QED
      BY <1>2, <3>1, <3>2 DEF LeaseThrows
  <2> QED
    BY <1>2, <2>1, <2>2, FaultType DEF LeaseThrows, TypeOK, RowsOK, DrainsOK, InHand
<1>3. CASE SettleThrows(d)
  <2>1. drain[d] \in DrainSet
    BY DEF TypeOK
  <2>2. /\ [drain[d] EXCEPT !.pc = "loop", !.item = None] \in DrainSet
        /\ [drain[d] EXCEPT !.pc = "loop", !.item = None].pc = "loop"
        /\ [drain[d] EXCEPT !.pc = "loop", !.item = None].item = None
    BY <2>1 DEF DrainSet
  <2>3. drain' = [drain EXCEPT ![d] = [drain[d] EXCEPT !.pc = "loop", !.item = None]]
    BY <1>3 DEF SettleThrows
  <2>4. DrainsOK'
    BY <2>2, <2>3, TypeParts DEF DrainsOK, InHand
  <2> QED
    BY <1>3, <2>4, FaultType DEF SettleThrows, TypeOK, RowsOK, DrainsOK, InHand
<1>4. CASE Crash(d)
  <2>1. stored' \subseteq Items
    BY <1>4, ItemInHand DEF Crash, TypeOK, InHand
  <2> QED
    BY <1>4, <2>1, LeaveType, FaultType DEF Crash, TypeOK, RowsOK, DrainsOK, InHand
<1> QED
  BY <1>1, <1>2, <1>3, <1>4 DEF Failure

LEMMA StepType == TypeOK /\ [Next]_vars => TypeOK'
<1> SUFFICES ASSUME TypeOK, [Next]_vars PROVE TypeOK'
  OBVIOUS
<1>1. ASSUME NEW i \in Items, Enqueue(i) PROVE TypeOK'
  BY <1>1, RowType DEF Enqueue, TypeOK, Statuses
<1>2. ASSUME NEW d \in Drains, Start(d) \/ Step(d) PROVE TypeOK'
  BY <1>2, ScanType, LeaseTypeOK, PutType, VerdictType DEF Step
<1>3. ASSUME NEW d \in Drains, Failure(d) PROVE TypeOK'
  BY <1>3, FailureType
<1>4. CASE UNCHANGED vars
  BY <1>4 DEF vars, TypeOK
<1> QED
  BY <1>1, <1>2, <1>3, <1>4, TickType DEF Next

\* The rows and the drains stay well typed: a row has an owner exactly while it
\* is leased, a drain holds an event exactly between its lease and its verdict.
THEOREM OutboxTypeCorrect == Spec => []TypeOK
  BY InitType, StepType, PTL DEF Spec

-----------------------------------------------------------------------------
(***************************************************************************)
(* What may happen to a row, to a drain and to R2 in one step              *)
(***************************************************************************)
Unsettled == {"pending", "leased", "retry"}

Verdict(i, pc, status) ==
  /\ \E d \in Drains : drain[d].pc = pc /\ drain[d].item = i
  /\ rows[i].status = "leased" /\ rows'[i].status = status

RowMoves(i) ==
  \/ rows'[i] = rows[i]
  \/ rows[i].status = "absent" /\ rows'[i].status = "pending"
  \/ rows[i].status \in Unsettled /\ rows'[i].status \in Unsettled
  \/ Verdict(i, "ack", "archived")
  \/ Verdict(i, "reject", "dead_letter")

LEMMA LeaveMoves ==
  ASSUME TypeOK, NEW d \in Drains, Leave(d), NEW i \in Items
  PROVE  RowMoves(i)
<1>1. rows[i] \in RowSet
  BY DEF TypeOK
<1>2. CASE rows[i].owner = d
  <2>1. rows[i].status = "leased"
    BY <1>2, OutboxItems DEF TypeOK
  <2>2. rows'[i].status = rows[i].status
    BY <1>1, <1>2 DEF Leave, RowSet
  <2> QED
    BY <2>1, <2>2 DEF RowMoves, Unsettled
<1>3. CASE rows[i].owner # d
  BY <1>3 DEF Leave, RowMoves
<1> QED
  BY <1>2, <1>3

LEMMA SettleMoves ==
  ASSUME TypeOK, NEW d \in Drains, Ack(d) \/ DeadLetter(d) \/ Retry(d), NEW i \in Items
  PROVE  RowMoves(i)
<1>1. \E row : Settle(d, row) /\ \/ drain[d].pc = "ack" /\ row.status = "archived"
                                 \/ drain[d].pc = "reject" /\ row.status = "dead_letter"
                                 \/ row.status = "retry"
  <2>1. CASE Ack(d)
    BY <2>1 DEF Ack, Row
  <2>2. CASE DeadLetter(d)
    BY <2>2 DEF DeadLetter, Row
  <2>3. CASE Retry(d)
    <3>1. PICK delay \in Delays : Settle(d, Row("retry", None, delay - drain[d].age, 0))
      BY <2>3 DEF Retry
    <3>2. Row("retry", None, delay - drain[d].age, 0).status = "retry"
      BY DEF Row
    <3> QED
      BY <3>1, <3>2
  <2> QED
    BY <2>1, <2>2, <2>3
<1>2. PICK row : Settle(d, row) /\ \/ drain[d].pc = "ack" /\ row.status = "archived"
                                   \/ drain[d].pc = "reject" /\ row.status = "dead_letter"
                                   \/ row.status = "retry"
  BY <1>1
<1>3. CASE drain[d].item = i /\ rows[i].status = "leased" /\ rows[i].owner = d
  <2>1. rows'[i] = row
    BY <1>2, <1>3 DEF Settle, TypeOK
  <2> QED
    BY <1>2, <1>3, <2>1 DEF RowMoves, Verdict, Unsettled
<1>4. CASE ~(drain[d].item = i /\ rows[i].status = "leased" /\ rows[i].owner = d)
  BY <1>2, <1>4 DEF Settle, RowMoves, TypeOK
<1> QED
  BY <1>3, <1>4

LEMMA RowStep ==
  ASSUME TypeOK, [Next]_vars, NEW i \in Items
  PROVE  RowMoves(i)
<1>1. rows[i] \in RowSet
  BY DEF TypeOK
<1>2. CASE UNCHANGED rows
  BY <1>2 DEF RowMoves
<1>3. ASSUME NEW j \in Items, Enqueue(j) PROVE RowMoves(i)
  BY <1>3 DEF Enqueue, Absent, Row, RowMoves, TypeOK
<1>4. ASSUME NEW d \in Drains, Start(d) \/ Scan(d) \/ Finish(d) \/ Crash(d)
      PROVE  RowMoves(i)
  BY <1>2, <1>4, LeaveMoves DEF Start, Scan, Finish, Crash
<1>5. ASSUME NEW d \in Drains, NEW j \in Items, Due(d, j), NEW row \in RowSet,
             row.status = "leased", rows' = [rows EXCEPT ![j] = row]
      PROVE  RowMoves(i)
  <2>1. CASE i = j
    BY <1>5, <2>1, DueStatus DEF RowMoves, Unsettled, TypeOK
  <2>2. CASE i # j
    BY <1>5, <2>2 DEF RowMoves, TypeOK
  <2> QED
    BY <2>1, <2>2
<1>6. ASSUME NEW d \in Drains, Lease(d) PROVE RowMoves(i)
  <2>1. drain[d].todo \subseteq Items
    BY DEF TypeOK, DrainSet
  <2> QED
    BY <1>2, <1>5, <1>6, <2>1, LeasedType DEF Lease
<1>7. ASSUME NEW d \in Drains, LeaseThrows(d) PROVE RowMoves(i)
  <2>1. drain[d].todo \subseteq Items
    BY DEF TypeOK, DrainSet
  <2>2. \A j \in Items : /\ [Leased(d, j) EXCEPT !.owner = Gone] \in RowSet
                         /\ [Leased(d, j) EXCEPT !.owner = Gone].status = "leased"
    BY LeasedType DEF RowSet
  <2> QED
    BY <1>2, <1>5, <1>7, <2>1, <2>2 DEF LeaseThrows
<1>8. ASSUME NEW d \in Drains, Put(d) \/ PutFails(d) \/ SettleThrows(d) PROVE RowMoves(i)
  BY <1>2, <1>8 DEF Put, PutFails, SettleThrows
<1>9. ASSUME NEW d \in Drains, Ack(d) \/ DeadLetter(d) \/ Retry(d) PROVE RowMoves(i)
  BY <1>9, SettleMoves
<1>10. CASE Tick
  <2>1. rows'[i] = Aged(rows[i])
    BY <1>10 DEF Tick
  <2>2. CASE rows[i].status \in Unsettled
    BY <1>1, <2>1, <2>2 DEF RowMoves, Aged, RowSet
  <2>3. CASE rows[i].status \notin Unsettled
    <3>1. Aged(rows[i]) = rows[i]
      BY <1>1, <2>3 DEF Aged, RowSet, Unsettled
    <3> QED
      BY <2>1, <3>1 DEF RowMoves
  <2> QED
    BY <2>2, <2>3
<1> QED
  BY <1>2, <1>3, <1>4, <1>6, <1>7, <1>8, <1>9, <1>10 DEF Next, Step, Failure, vars

\* An event keeps its verdict, whatever a drain that lost its lease still does.
THEOREM VerdictsFinal == Spec => VerdictFinal
<1>1. TypeOK /\ [Next]_vars =>
        [\A i \in Items : rows[i].status \in Settled => rows'[i] = rows[i]]_vars
  <2> SUFFICES ASSUME TypeOK, [Next]_vars, NEW i \in Items, rows[i].status \in Settled
               PROVE  rows'[i] = rows[i]
    OBVIOUS
  <2> QED
    BY RowStep DEF RowMoves, Verdict, Settled, Unsettled
<1> QED
  BY <1>1, OutboxTypeCorrect, PTL DEF Spec, VerdictFinal

(***************************************************************************)
(* A lease in force is due for nobody, and the final UPDATE compares the   *)
(* owner: only the holder can end it, and only by going on.                *)
(***************************************************************************)
LEMMA InForceNotDue ==
  ASSUME TypeOK, NEW i \in Items, rows[i].status = "leased", rows[i].expires > 0,
         NEW c \in Drains
  PROVE  ~Due(c, i)
<1>1. rows[i].expires \in Int /\ drain[c].age \in Nat
  BY DEF TypeOK, RowSet, DrainSet
<1>2. ~(rows[i].expires <= -drain[c].age)
  BY <1>1
<1> QED
  BY <1>2 DEF Due

LEMMA HolderEndsLease ==
  ASSUME TypeOK, Next, NEW i \in Items, NEW d \in Drains,
         rows[i].status = "leased", rows[i].owner = d, rows[i].expires > 0,
         rows'[i].owner # d
  PROVE  drain'[d] # drain[d]
<1>1. /\ DOMAIN rows = Items /\ DOMAIN drain = Drains /\ rows[i] \in RowSet
      /\ \A c \in Drains : ~Due(c, i)
  BY InForceNotDue DEF TypeOK
<1>2. rows' # rows
  OBVIOUS
<1>3. ASSUME NEW j \in Items, Enqueue(j) PROVE FALSE
  BY <1>1, <1>3 DEF Enqueue, Absent, Row
<1>4. ASSUME NEW c \in Drains, drain[c].pc # "off", Leave(c) PROVE drain'[d] # drain[d]
  <2>1. c = d
    BY <1>1, <1>4 DEF Leave
  <2>2. drain'[d] = Off
    BY <1>1, <1>4, <2>1 DEF Leave
  <2> QED
    BY <1>4, <2>1, <2>2 DEF Off
<1>5. ASSUME NEW c \in Drains, NEW j, Due(c, j), NEW row, rows' = [rows EXCEPT ![j] = row]
      PROVE  FALSE
  BY <1>1, <1>5
<1>6. ASSUME NEW c \in Drains, Start(c) \/ Scan(c) \/ Finish(c) \/ Crash(c)
      PROVE  drain'[d] # drain[d]
  BY <1>2, <1>4, <1>6 DEF Start, Scan, Finish, Crash
<1>7. ASSUME NEW c \in Drains, Lease(c) \/ LeaseThrows(c) PROVE FALSE
  BY <1>2, <1>5, <1>7 DEF Lease, LeaseThrows
<1>8. ASSUME NEW c \in Drains, Put(c) \/ PutFails(c) \/ SettleThrows(c) PROVE FALSE
  BY <1>2, <1>8 DEF Put, PutFails, SettleThrows
<1>9. ASSUME NEW c \in Drains, drain[c].pc \in {"ack", "reject", "retry"},
             NEW row, Settle(c, row)
      PROVE  drain'[d] # drain[d]
  <2>1. c = d
    BY <1>1, <1>9 DEF Settle
  <2>2. drain[d] \in DrainSet
    BY DEF TypeOK
  <2>3. drain'[d].pc = "loop"
    BY <1>1, <1>9, <2>1, <2>2 DEF Settle, DrainSet
  <2> QED
    BY <1>9, <2>1, <2>3
<1>10. ASSUME NEW c \in Drains, Ack(c) \/ DeadLetter(c) \/ Retry(c)
       PROVE  drain'[d] # drain[d]
  BY <1>9, <1>10 DEF Ack, DeadLetter, Retry
<1>11. ~Tick
  <2>1. ASSUME Tick PROVE rows'[i].owner = rows[i].owner
    BY <1>1, <2>1 DEF Tick, Aged, RowSet
  <2> QED
    BY <2>1
<1> QED
  BY <1>3, <1>6, <1>7, <1>8, <1>10, <1>11 DEF Next, Step, Failure

\* Nobody takes away a lease that has not expired, however many drains overlap and
\* however late they are.
THEOREM LeasesHonoured == Spec => LeaseHonoured
<1>1. TypeOK /\ [Next]_vars =>
        [\A i \in Items, d \in Drains :
           /\ rows[i].status = "leased" /\ rows[i].owner = d /\ rows[i].expires > 0
           /\ rows'[i].owner # d
           => drain'[d] # drain[d]]_vars
  BY HolderEndsLease
<1> QED
  BY <1>1, OutboxTypeCorrect, PTL DEF Spec, LeaseHonoured

(***************************************************************************)
(* The evidence for a verdict: a drain that is about to acknowledge has    *)
(* put the object, and what it put was compared with its SHA-256.          *)
(***************************************************************************)
EvidenceOf(d) ==
  /\ drain[d].pc \in {"put", "ack", "retry"} => drain[d].item \notin Corrupt
  /\ drain[d].pc = "reject" => drain[d].item \in Corrupt
  /\ drain[d].pc = "ack" => drain[d].item \in stored

ArchiveInv == TypeOK /\ ArchiveVerified /\ \A d \in Drains : EvidenceOf(d)

\* Nothing changes in the other drains.
Others(d) ==
  \A c \in Drains \ {d} : drain'[c] = drain[c]

LEMMA OthersKeep ==
  ASSUME TypeOK, NEW d \in Drains, Start(d) \/ Step(d) \/ Failure(d)
  PROVE  Others(d)
<1>1. ASSUME NEW c \in Drains \ {d} PROVE drain'[c] = drain[c]
  <2>1. DOMAIN drain = Drains
    BY DEF TypeOK
  <2>2. CASE Start(d) \/ Scan(d) \/ Finish(d) \/ Crash(d)
    BY <2>1, <2>2 DEF Start, Scan, Finish, Crash, Leave
  <2>3. CASE Lease(d)
    BY <2>1, <2>3 DEF Lease
  <2>4. CASE LeaseThrows(d) \/ SettleThrows(d)
    BY <2>1, <2>4 DEF LeaseThrows, SettleThrows
  <2>5. CASE Put(d) \/ PutFails(d)
    BY <2>1, <2>5 DEF Put, PutFails, Goto
  <2>6. CASE Ack(d) \/ DeadLetter(d) \/ Retry(d)
    BY <2>1, <2>6 DEF Ack, DeadLetter, Retry, Settle
  <2> QED
    BY <2>2, <2>3, <2>4, <2>5, <2>6 DEF Step, Failure
<1> QED
  BY <1>1 DEF Others

LEMMA EvidenceStep ==
  ASSUME ArchiveInv, NEW d \in Drains, Start(d) \/ Step(d) \/ Failure(d)
  PROVE  /\ EvidenceOf(d)'
         /\ stored \subseteq stored' /\ stored' \cap Corrupt = {}
<1>1. TypeOK /\ drain[d] \in DrainSet /\ EvidenceOf(d) /\ stored \cap Corrupt = {}
  BY DEF ArchiveInv, TypeOK, ArchiveVerified
<1>2. ASSUME drain'[d].pc \in {"off", "scan", "loop"}, UNCHANGED stored
      PROVE  EvidenceOf(d)' /\ stored \subseteq stored' /\ stored' \cap Corrupt = {}
  <2>1. EvidenceOf(d)'
    BY <1>2 DEF EvidenceOf
  <2> QED
    BY <1>1, <1>2, <2>1
<1>3. CASE Start(d) \/ Scan(d) \/ Finish(d) \/ LeaseThrows(d)
  <2>1. drain'[d].pc \in {"off", "scan", "loop"} /\ UNCHANGED stored
    <3>1. DOMAIN drain = Drains /\ Off.pc = "off"
      BY <1>1, OffType DEF TypeOK
    <3>2. CASE Leave(d)
      BY <3>1, <3>2, <1>3 DEF Leave, Start, Scan, Finish, LeaseThrows
    <3>3. CASE Start(d)
      BY <3>1, <3>3 DEF Start, Off
    <3>4. CASE Scan(d) /\ ~Leave(d)
      <4>1. PICK S : drain' = [drain EXCEPT ![d].pc = "loop", ![d].todo = S] /\ UNCHANGED stored
        BY <3>4 DEF Scan
      <4> QED
        BY <1>1, <3>1, <4>1 DEF DrainSet
    <3>5. CASE Finish(d)
      BY <3>2, <3>5 DEF Finish
    <3>6. CASE LeaseThrows(d)
      BY <3>1, <3>6 DEF LeaseThrows
    <3> QED
      BY <1>3, <3>2, <3>3, <3>4, <3>5, <3>6
  <2> QED
    BY <1>2, <2>1
<1>4. CASE Ack(d) \/ DeadLetter(d) \/ Retry(d) \/ SettleThrows(d)
  <2>1. drain'[d].pc = "loop" /\ UNCHANGED stored
    BY <1>1, <1>4 DEF Ack, DeadLetter, Retry, SettleThrows, Settle, TypeOK, DrainSet
  <2> QED
    BY <1>2, <2>1
<1>5. CASE Crash(d)
  <2>1. drain'[d].pc = "off"
    BY <1>1, <1>5, OffType DEF Crash, Leave, TypeOK
  <2>2. EvidenceOf(d)'
    BY <2>1 DEF EvidenceOf
  <2>3. CASE UNCHANGED stored
    BY <1>1, <2>2, <2>3
  <2>4. CASE drain[d].pc = "put" /\ stored' = stored \cup {drain[d].item}
    <3>1. drain[d].item \notin Corrupt
      BY <1>1, <2>4 DEF EvidenceOf
    <3> QED
      BY <1>1, <2>2, <2>4, <3>1
  <2> QED
    BY <1>5, <2>3, <2>4 DEF Crash
<1>6. CASE Lease(d)
  <2>1. PICK i \in drain[d].todo :
        IF Due(d, i)
        THEN drain' = [drain EXCEPT ![d].pc = IF i \in Corrupt THEN "reject" ELSE "put",
                                    ![d].item = i, ![d].todo = @ \ {i}]
        ELSE drain' = [drain EXCEPT ![d].todo = @ \ {i}]
    BY <1>6 DEF Lease
  <2>2. \/ /\ drain'[d].pc = IF i \in Corrupt THEN "reject" ELSE "put"
           /\ drain'[d].item = i
        \/ drain'[d].pc = "loop"
    BY <1>1, <1>6, <2>1 DEF Lease, TypeOK, DrainSet
  <2> QED
    BY <1>1, <1>6, <2>2 DEF Lease, EvidenceOf
<1>7. CASE Put(d) \/ PutFails(d)
  <2>1. /\ drain[d].pc = "put" /\ drain'[d].item = drain[d].item
        /\ \/ drain'[d].pc = "ack" /\ stored' = stored \cup {drain[d].item}
           \/ drain'[d].pc = "retry" /\ stored' \in {stored, stored \cup {drain[d].item}}
    BY <1>1, <1>7, GotoDrain DEF Put, PutFails, InHand
  <2> QED
    BY <1>1, <2>1 DEF EvidenceOf
<1> QED
  BY <1>3, <1>4, <1>5, <1>6, <1>7 DEF Step, Failure

LEMMA ArchiveStep == ArchiveInv /\ [Next]_vars => ArchiveInv'
<1> SUFFICES ASSUME ArchiveInv, [Next]_vars
             PROVE  ArchiveVerified' /\ \A d \in Drains : EvidenceOf(d)'
  BY StepType DEF ArchiveInv
<1>1. TypeOK
  BY DEF ArchiveInv
<1>2. stored \subseteq stored' /\ stored' \cap Corrupt = {} /\ \A d \in Drains : EvidenceOf(d)'
  <2>1. ASSUME NEW d \in Drains, Start(d) \/ Step(d) \/ Failure(d)
        PROVE  /\ stored \subseteq stored' /\ stored' \cap Corrupt = {}
               /\ \A c \in Drains : EvidenceOf(c)'
    <3>1. EvidenceOf(d)' /\ stored \subseteq stored' /\ stored' \cap Corrupt = {}
      BY <2>1, EvidenceStep
    <3>2. ASSUME NEW c \in Drains \ {d} PROVE EvidenceOf(c)'
      BY <1>1, <2>1, <3>1, OthersKeep DEF Others, EvidenceOf, ArchiveInv
    <3> QED
      BY <3>1, <3>2
  <2>2. CASE Tick
    <3>1. \A c \in Drains : drain'[c].pc = drain[c].pc /\ drain'[c].item = drain[c].item
      BY <1>1, <2>2 DEF Tick, TypeOK, DrainSet
    <3> QED
      BY <2>2, <3>1 DEF Tick, ArchiveInv, ArchiveVerified, EvidenceOf, TypeOK
  <2>3. CASE UNCHANGED <<stored, drain>>
    BY <2>3 DEF ArchiveInv, ArchiveVerified, EvidenceOf, TypeOK
  <2> QED
    BY <2>1, <2>2, <2>3 DEF Next, vars, Enqueue
<1>3. ArchiveVerified'
  <2> SUFFICES ASSUME NEW i \in Items
               PROVE  /\ rows'[i].status = "archived" => i \in stored'
                      /\ rows'[i].status = "dead_letter" => i \in Corrupt
    BY <1>2 DEF ArchiveVerified
  <2> QED
    BY <1>1, <1>2, RowStep
       DEF ArchiveInv, ArchiveVerified, EvidenceOf, RowMoves, Verdict, Unsettled
<1> QED
  BY <1>2, <1>3

\* What is marked archived is in R2, only sound payloads are, and only corrupt
\* ones are dead letters.
THEOREM ArchiveSound == Spec => []ArchiveVerified
<1>1. Init => ArchiveInv
  <2> SUFFICES ASSUME Init PROVE ArchiveVerified /\ \A d \in Drains : EvidenceOf(d)
    BY InitType DEF ArchiveInv
  <2>1. \A i \in Items : rows[i].status = "absent" /\ stored = {}
    BY DEF Init, Absent, Row
  <2>2. \A d \in Drains : drain[d].pc = "off"
    BY OffType DEF Init
  <2> QED
    BY <2>1, <2>2 DEF ArchiveVerified, EvidenceOf, Init
<1>2. ArchiveInv => ArchiveVerified
  BY DEF ArchiveInv
<1> QED
  BY <1>1, <1>2, ArchiveStep, PTL DEF Spec

-----------------------------------------------------------------------------
(***************************************************************************)
(* Until a drain has run for the time of a lease, it holds the lease of    *)
(* the event it has in hand from the lease to the verdict, and the lease   *)
(* runs out exactly LeaseTime after the drain has started.                 *)
(***************************************************************************)
Holds(d) ==
  drain[d].pc \in InHand /\ drain[d].age < LeaseTime =>
    /\ rows[drain[d].item].status = "leased" /\ rows[drain[d].item].owner = d
    /\ rows[drain[d].item].expires = LeaseTime - drain[d].age

HoldInv == TypeOK /\ \A d \in Drains : Holds(d)

\* A step of a drain leaves the rows alone that the others have in hand.
LEMMA OthersRows ==
  ASSUME HoldInv, NEW d \in Drains, Start(d) \/ Step(d) \/ Failure(d),
         NEW i \in Items, NEW c \in Drains \ {d},
         drain[c].pc \in InHand, drain[c].age < LeaseTime, drain[c].item = i
  PROVE  rows'[i] = rows[i]
<1>1. TypeOK /\ DOMAIN rows = Items
  BY DEF HoldInv, TypeOK
<1>2. /\ rows[i].status = "leased" /\ rows[i].owner = c
      /\ rows[i].expires = LeaseTime - drain[c].age
  BY DEF HoldInv, Holds
<1>3. drain[c].age \in 0..MaxAge /\ drain[d].age \in 0..MaxAge
  BY <1>1 DEF TypeOK, DrainSet
<1>4. ~Due(d, i)
  <2>1. ~(rows[i].expires <= -drain[d].age)
    BY <1>2, <1>3, OutboxTimes
  <2> QED
    BY <1>2, <2>1 DEF Due
<1>5. CASE UNCHANGED rows
  BY <1>5
<1>6. CASE Leave(d)
  BY <1>2, <1>6 DEF Leave
<1>7. CASE Lease(d)
  BY <1>1, <1>4, <1>5, <1>7 DEF Lease
<1>8. CASE LeaseThrows(d)
  BY <1>1, <1>4, <1>5, <1>8 DEF LeaseThrows
<1>9. ASSUME NEW row, Settle(d, row) PROVE rows'[i] = rows[i]
  BY <1>1, <1>2, <1>9 DEF Settle
<1>10. CASE Start(d) \/ Scan(d) \/ Finish(d) \/ Crash(d)
  BY <1>5, <1>6, <1>10 DEF Start, Scan, Finish, Crash
<1>11. CASE Put(d) \/ PutFails(d) \/ SettleThrows(d)
  BY <1>5, <1>11 DEF Put, PutFails, SettleThrows
<1>12. CASE Ack(d) \/ DeadLetter(d) \/ Retry(d)
  BY <1>9, <1>12 DEF Ack, DeadLetter, Retry
<1> QED
  BY <1>7, <1>8, <1>10, <1>11, <1>12 DEF Step, Failure

\* The drain that steps: it takes a lease, keeps it, or puts it down.
LEMMA OwnRow ==
  ASSUME HoldInv, NEW d \in Drains, Start(d) \/ Step(d) \/ Failure(d)
  PROVE  Holds(d)'
<1>1. TypeOK /\ Holds(d) /\ DOMAIN rows = Items /\ DOMAIN drain = Drains
      /\ drain[d] \in DrainSet
  BY DEF HoldInv, TypeOK
<1>2. ASSUME drain'[d].pc \notin InHand PROVE Holds(d)'
  BY <1>2 DEF Holds
<1>3. CASE Start(d) \/ Scan(d) \/ Finish(d) \/ Crash(d)
  <2>1. CASE Leave(d)
    BY <1>1, <1>2, <2>1, OffType DEF Leave, InHand
  <2>2. CASE Start(d)
    BY <1>1, <1>2, <2>2 DEF Start, Off, InHand
  <2>3. CASE Scan(d) /\ ~Leave(d)
    <3>1. PICK S : drain' = [drain EXCEPT ![d].pc = "loop", ![d].todo = S]
      BY <2>3 DEF Scan
    <3> QED
      BY <1>1, <1>2, <3>1 DEF InHand, DrainSet
  <2> QED
    BY <1>3, <2>1, <2>2, <2>3 DEF Finish, Crash
<1>4. CASE LeaseThrows(d)
  BY <1>1, <1>2, <1>4, OffType DEF LeaseThrows, InHand
<1>5. CASE Ack(d) \/ DeadLetter(d) \/ Retry(d) \/ SettleThrows(d)
  <2>1. drain' = [drain EXCEPT ![d].pc = "loop", ![d].item = None]
    BY <1>5 DEF Ack, DeadLetter, Retry, SettleThrows, Settle
  <2> QED
    BY <1>1, <1>2, <2>1 DEF InHand, DrainSet
<1>6. CASE Put(d) \/ PutFails(d)
  <2>1. drain[d].pc \in InHand /\ UNCHANGED rows
    BY <1>6 DEF Put, PutFails, InHand
  <2>2. drain'[d].item = drain[d].item /\ drain'[d].age = drain[d].age
    BY <1>1, <1>6, <2>1, GotoDrain DEF Put, PutFails, InHand
  <2> QED
    BY <1>1, <2>1, <2>2 DEF Holds
<1>7. CASE Lease(d)
  <2>1. drain[d].pc = "loop"
    BY <1>7 DEF Lease
  <2>2. PICK i \in drain[d].todo :
        \/ /\ rows' = [rows EXCEPT ![i] = Leased(d, i)]
           /\ drain' = [drain EXCEPT ![d].pc = IF i \in Corrupt THEN "reject" ELSE "put",
                                     ![d].item = i, ![d].todo = @ \ {i}]
        \/ drain' = [drain EXCEPT ![d].todo = @ \ {i}]
    BY <1>7 DEF Lease
  <2>3. CASE drain' = [drain EXCEPT ![d].todo = @ \ {i}]
    BY <1>1, <1>2, <2>1, <2>3 DEF InHand, DrainSet
  <2>4. CASE /\ rows' = [rows EXCEPT ![i] = Leased(d, i)]
             /\ drain' = [drain EXCEPT ![d].pc = IF i \in Corrupt THEN "reject" ELSE "put",
                                       ![d].item = i, ![d].todo = @ \ {i}]
    <3>1. i \in Items
      BY <1>1 DEF DrainSet
    <3>2. drain'[d].item = i /\ drain'[d].age = drain[d].age
      BY <1>1, <2>4 DEF DrainSet
    <3>3. rows'[i] = Leased(d, i)
      BY <1>1, <2>4, <3>1
    <3> QED
      BY <1>1, <3>1, <3>2, <3>3, LeasedType DEF Holds
  <2> QED
    BY <2>2, <2>3, <2>4
<1> QED
  BY <1>3, <1>4, <1>5, <1>6, <1>7 DEF Step, Failure

LEMMA HoldTick ==
  ASSUME HoldInv, Tick, NEW d \in Drains
  PROVE  Holds(d)'
<1> SUFFICES ASSUME drain'[d].pc \in InHand, drain'[d].age < LeaseTime
             PROVE  /\ rows'[drain'[d].item].status = "leased"
                    /\ rows'[drain'[d].item].owner = d
                    /\ rows'[drain'[d].item].expires = LeaseTime - drain'[d].age
  BY DEF Holds
<1>1. TypeOK /\ drain[d] \in DrainSet
  BY DEF HoldInv, TypeOK
<1>2. drain[d].pc # "off" /\ drain' = [c \in Drains |->
                 IF drain[c].pc = "off" THEN drain[c] ELSE [drain[c] EXCEPT !.age = @ + 1]]
  BY DEF Tick, InHand
<1>3. /\ drain'[d].pc = drain[d].pc /\ drain'[d].item = drain[d].item
      /\ drain'[d].age = drain[d].age + 1
  BY <1>1, <1>2 DEF DrainSet
<1> DEFINE i == drain[d].item
<1>4. i \in Items /\ rows[i] \in RowSet
  BY <1>1, <1>3, ItemInHand DEF TypeOK
<1>5. /\ rows[i].status = "leased" /\ rows[i].owner = d
      /\ rows[i].expires = LeaseTime - drain[d].age
  <2>1. drain[d].age < LeaseTime
    BY <1>1, <1>3, OutboxTimes DEF DrainSet
  <2> QED
    BY <1>3, <2>1 DEF HoldInv, Holds
<1>6. Earlier(rows[i].expires) = rows[i].expires - 1
  <2>1. drain[d].age \in 0 .. MaxAge /\ drain[d].age < LeaseTime
    BY <1>1, <1>3, OutboxTimes DEF DrainSet
  <2>2. rows[i].expires > -MaxAge
    BY <1>5, <2>1, OutboxTimes
  <2> QED
    BY <2>2 DEF Earlier
<1>7. rows'[i] = Aged(rows[i])
  BY <1>4 DEF Tick
<1>8. /\ Aged(rows[i]).status = "leased" /\ Aged(rows[i]).owner = d
      /\ Aged(rows[i]).expires = Earlier(rows[i].expires)
  BY <1>4, <1>5 DEF Aged, RowSet
<1>9. rows[i].expires - 1 = LeaseTime - (drain[d].age + 1)
  BY <1>1, <1>5, OutboxTimes DEF DrainSet
<1> QED
  BY <1>3, <1>6, <1>7, <1>8, <1>9

LEMMA HoldStep ==
  ASSUME HoldInv, [Next]_vars
  PROVE  HoldInv'
<1>1. TypeOK /\ TypeOK'
  BY StepType DEF HoldInv
<1>2. ASSUME NEW d \in Drains PROVE Holds(d)'
  <2>1. CASE Tick
    BY <2>1, HoldTick
  <2>2. CASE UNCHANGED vars
    BY <2>2 DEF vars, HoldInv, Holds
  <2>3. ASSUME NEW j \in Items, Enqueue(j) PROVE Holds(d)'
    BY <1>1, <2>3, ItemInHand DEF Enqueue, Absent, Row, HoldInv, Holds, TypeOK
  <2>4. ASSUME NEW c \in Drains, Start(c) \/ Step(c) \/ Failure(c) PROVE Holds(d)'
    <3>1. CASE c = d
      BY <2>4, <3>1, OwnRow
    <3>2. CASE c # d
      <4>1. drain'[d] = drain[d]
        BY <1>1, <2>4, <3>2, OthersKeep DEF Others
      <4>2. CASE drain[d].pc \in InHand /\ drain[d].age < LeaseTime
        <5>1. rows'[drain[d].item] = rows[drain[d].item]
          BY <1>1, <2>4, <3>2, <4>2, OthersRows, ItemInHand
        <5> QED
          BY <4>1, <5>1 DEF HoldInv, Holds
      <4> QED
        BY <4>1, <4>2 DEF Holds
    <3> QED
      BY <3>1, <3>2
  <2> QED
    BY <2>1, <2>2, <2>3, <2>4 DEF Next
<1> QED
  BY <1>1, <1>2 DEF HoldInv

\* No payload is archived by two drains at a time that have both been running for
\* less than the time of a lease (drainBidAuditOutbox: leaseExpiresAt).
THEOREM ArchiversExclude == Spec => []OneArchiver
<1>1. Init => HoldInv
  BY InitType, OffType DEF Init, HoldInv, Holds, InHand
<1>2. HoldInv => OneArchiver
  BY OutboxTimes DEF HoldInv, TypeOK, DrainSet, Holds, OneArchiver, InHand
<1>3. HoldInv /\ [Next]_vars => HoldInv'
  BY HoldStep
<1> QED
  BY <1>1, <1>2, <1>3, PTL DEF Spec

=============================================================================
