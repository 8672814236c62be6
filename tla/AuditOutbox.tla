---------------------------- MODULE AuditOutbox ----------------------------
(***************************************************************************)
(* The archive outbox of canonical command events.  Each accepted command  *)
(* leaves one row in D1 (CanonicalCommand); drains copy the payloads to R2 *)
(* after the fact.  A drain is one call of drainBidAuditOutbox: the DO     *)
(* starts one after each command, the daily cron another.  Drains overlap, *)
(* crash, and lose the answers of D1 and R2; a lease on the row, guarded   *)
(* by the identity of the drain, keeps them apart.                         *)
(*                                                                         *)
(* Times are relative to the present: a time t that lies in the past is    *)
(* negative.  A drain reads the clock once, when it starts; what it        *)
(* compares and stores is relative to that moment, which lies age ago.     *)
(***************************************************************************)
EXTENDS Integers, FiniteSets

CONSTANTS
  Items,       \* the events to archive
  Corrupt,     \* those whose payload does not have the recorded SHA-256
  Drains,      \* the drains that may run at the same time
  LeaseTime,   \* leaseMs
  Delays,      \* the values of retryDelayMs
  Limit,       \* the LIMIT of the SELECT
  MaxAge,      \* the longest a drain runs (the platform's limit)
  MaxFaults,   \* bound on crashes, failed calls and lost answers
  None         \* SQL NULL

ASSUME OutboxItems  == Corrupt \subseteq Items /\ None \notin Items \cup Drains
ASSUME OutboxTimes  == LeaseTime \in Nat /\ MaxAge \in Nat /\ Delays \subseteq Nat
ASSUME OutboxBounds == Limit \in Nat \ {0} /\ MaxFaults \in Nat

\* The identity of a drain that has ended: it is never used again.
Gone == "gone"

ASSUME OutboxOwners == Gone \notin Drains /\ Gone # None

VARIABLES
  rows,     \* bid_audit_outbox by event: [status, owner, next, expires]
  stored,   \* the R2 objects under canonical-audit/, by event
  drain,    \* the local state of each drain: [pc, age, todo, item]
  faults    \* faults so far

vars == <<rows, stored, drain, faults>>

Row(status, owner, next, expires) ==
  [status |-> status, owner |-> owner, next |-> next, expires |-> expires]

Absent   == Row("absent", None, 0, 0)
Settled  == {"archived", "dead_letter"}
Off      == [pc |-> "off", age |-> 0, todo |-> {}, item |-> None]

Init ==
  /\ rows = [i \in Items |-> Absent]
  /\ stored = {}
  /\ drain = [d \in Drains |-> Off]
  /\ faults = 0

Fault == faults < MaxFaults /\ faults' = faults + 1

\* The batch of an accepted command inserts the row, due at once.
Enqueue(i) ==
  /\ rows[i] = Absent
  /\ rows' = [rows EXCEPT ![i] = Row("pending", None, 0, 0)]
  /\ UNCHANGED <<stored, drain, faults>>

\* now = Date.now(), leaseOwner = a new UUID
Start(d) ==
  /\ drain[d].pc = "off"
  /\ drain' = [drain EXCEPT ![d] = [Off EXCEPT !.pc = "scan"]]
  /\ UNCHANGED <<rows, stored, faults>>

\* Mutant: a leased row is due whether or not the lease has expired.
DueUnexpired(d, i) ==
  \/ rows[i].status \in {"pending", "retry"} /\ rows[i].next <= -drain[d].age
  \/ rows[i].status = "leased"

\* Mutant: a lease that was left behind is never taken over.
DueNeverExpires(d, i) ==
  rows[i].status \in {"pending", "retry"} /\ rows[i].next <= -drain[d].age

\* next_attempt_at <= now, or lease_expires_at <= now, with the now of the drain
Due(d, i) ==
  \/ rows[i].status \in {"pending", "retry"} /\ rows[i].next <= -drain[d].age
  \/ rows[i].status = "leased" /\ rows[i].expires <= -drain[d].age

\* ORDER BY next_attempt_at LIMIT
Selections(due) ==
  {S \in SUBSET due :
     /\ S = due \/ Cardinality(S) = Limit
     /\ Cardinality(S) <= Limit
     /\ \A i \in S, j \in due \ S : rows[i].next <= rows[j].next}

\* The end of a drain: what it leaves leased belongs to nobody any more.
Leave(d) ==
  /\ drain' = [drain EXCEPT ![d] = Off]
  /\ rows' = [i \in Items |->
                IF rows[i].owner = d THEN [rows[i] EXCEPT !.owner = Gone] ELSE rows[i]]

Scan(d) ==
  /\ drain[d].pc = "scan"
  /\ \E S \in Selections({i \in Items : Due(d, i)}) :
       IF S = {} THEN Leave(d)
       ELSE /\ drain' = [drain EXCEPT ![d].pc = "loop", ![d].todo = S]
            /\ UNCHANGED rows
  /\ UNCHANGED <<stored, faults>>

Leased(d, i) == [rows[i] EXCEPT !.status = "leased", !.owner = d,
                                !.expires = LeaseTime - drain[d].age]

\* The conditional UPDATE that takes the lease; changes # 1: the next row.
Lease(d) ==
  /\ drain[d].pc = "loop"
  /\ \E i \in drain[d].todo :
       IF Due(d, i)
       THEN /\ rows' = [rows EXCEPT ![i] = Leased(d, i)]
            /\ drain' = [drain EXCEPT ![d].pc = IF i \in Corrupt THEN "reject" ELSE "put",
                                      ![d].item = i, ![d].todo = @ \ {i}]
       ELSE /\ drain' = [drain EXCEPT ![d].todo = @ \ {i}]
            /\ UNCHANGED rows
  /\ UNCHANGED <<stored, faults>>

\* The UPDATE throws, applied or not: the whole drain ends.
LeaseThrows(d) ==
  /\ drain[d].pc = "loop" /\ Fault
  /\ drain' = [drain EXCEPT ![d] = Off]
  /\ \/ UNCHANGED rows
     \/ \E i \in drain[d].todo :
          Due(d, i) /\ rows' = [rows EXCEPT ![i] = [Leased(d, i) EXCEPT !.owner = Gone]]
  /\ UNCHANGED stored

Finish(d) ==
  /\ drain[d].pc = "loop" /\ drain[d].todo = {}
  /\ Leave(d)
  /\ UNCHANGED <<stored, faults>>

Goto(d, pc) == drain' = [drain EXCEPT ![d].pc = pc]

\* Mutant: the row is acknowledged and the put is still to come.
PutUnawaited(d) ==
  /\ drain[d].pc = "put"
  /\ Goto(d, "ack")
  /\ UNCHANGED <<rows, stored, faults>>

Put(d) ==
  /\ drain[d].pc = "put"
  /\ stored' = stored \cup {drain[d].item}
  /\ Goto(d, "ack")
  /\ UNCHANGED <<rows, faults>>

PutFails(d) ==
  /\ drain[d].pc = "put" /\ Fault
  /\ stored' \in {stored, stored \cup {drain[d].item}}
  /\ Goto(d, "retry")
  /\ UNCHANGED rows

\* Mutant: the final UPDATE does not compare the lease owner.
SettleAnyOwner(d, row) ==
  LET i == drain[d].item
  IN  /\ rows' = [rows EXCEPT ![i] = row]
      /\ drain' = [drain EXCEPT ![d].pc = "loop", ![d].item = None]
      /\ UNCHANGED <<stored, faults>>

\* UPDATE ... WHERE status = 'leased' AND lease_owner = ?, and the next row
Settle(d, row) ==
  LET i == drain[d].item
  IN  /\ rows' = IF rows[i].status = "leased" /\ rows[i].owner = d
                 THEN [rows EXCEPT ![i] = row] ELSE rows
      /\ drain' = [drain EXCEPT ![d].pc = "loop", ![d].item = None]
      /\ UNCHANGED <<stored, faults>>

Ack(d) == drain[d].pc = "ack" /\ Settle(d, Row("archived", None, 0, 0))

DeadLetter(d) == drain[d].pc = "reject" /\ Settle(d, Row("dead_letter", None, 0, 0))

Retry(d) ==
  /\ drain[d].pc = "retry"
  /\ \E delay \in Delays : Settle(d, Row("retry", None, delay - drain[d].age, 0))

\* The final UPDATE throws: caught, and the lease is left to expire.
SettleThrows(d) ==
  /\ drain[d].pc \in {"ack", "reject", "retry"} /\ Fault
  /\ drain' = [drain EXCEPT ![d].pc = "loop", ![d].item = None]
  /\ UNCHANGED <<rows, stored>>

Crash(d) ==
  /\ drain[d].pc # "off" /\ Fault
  /\ Leave(d)
  /\ \/ UNCHANGED stored
     \/ drain[d].pc = "put" /\ stored' = stored \cup {drain[d].item}

\* Times in the past are told apart as far back as a drain can have started.
Earlier(t) == IF t > -MaxAge THEN t - 1 ELSE t

Aged(row) ==
  [row EXCEPT !.next = IF row.status \in {"pending", "leased", "retry"}
                       THEN Earlier(@) ELSE @,
              !.expires = IF row.status = "leased" THEN Earlier(@) ELSE @]

Tick ==
  /\ \A d \in Drains : drain[d].pc # "off" => drain[d].age < MaxAge
  /\ rows' = [i \in Items |-> Aged(rows[i])]
  /\ drain' = [d \in Drains |->
                 IF drain[d].pc = "off" THEN drain[d]
                 ELSE [drain[d] EXCEPT !.age = @ + 1]]
  /\ UNCHANGED <<stored, faults>>

Step(d) ==
  Scan(d) \/ Lease(d) \/ Finish(d) \/ Put(d) \/ Ack(d) \/ DeadLetter(d) \/ Retry(d)

Failure(d) == LeaseThrows(d) \/ PutFails(d) \/ SettleThrows(d) \/ Crash(d)

Next ==
  \/ \E i \in Items : Enqueue(i)
  \/ \E d \in Drains : Start(d) \/ Step(d) \/ Failure(d)
  \/ Tick

Spec == Init /\ [][Next]_vars

(***************************************************************************)
(* Fairness: time passes, the daily cron starts a drain again and again,   *)
(* and a drain that has not crashed goes on.                               *)
(***************************************************************************)
Fairness ==
  /\ WF_vars(Tick)
  /\ WF_vars(\E d \in Drains : Start(d))
  /\ \A d \in Drains : WF_vars(Step(d))

FairSpec == Spec /\ Fairness

-----------------------------------------------------------------------------
Statuses == {"absent", "pending", "leased", "retry"} \cup Settled
RowSet   == [status: Statuses, owner: Drains \cup {Gone, None}, next: Int, expires: Int]
DrainSet == [pc: {"off", "scan", "loop", "put", "ack", "reject", "retry"},
             age: 0..MaxAge, todo: SUBSET Items, item: Items \cup {None}]

\* A row has an owner exactly while it is leased (the CHECK of migration 0022),
\* and a drain has a row in hand exactly between its lease and its verdict.
TypeOK ==
  /\ rows \in [Items -> RowSet]
  /\ \A i \in Items : rows[i].owner = None <=> rows[i].status # "leased"
  /\ stored \subseteq Items
  /\ drain \in [Drains -> DrainSet]
  /\ \A d \in Drains :
       drain[d].item # None <=> drain[d].pc \in {"put", "ack", "reject", "retry"}
  /\ faults \in 0..MaxFaults

\* An event that is marked archived is in R2, and R2 and the dead letters
\* divide the sound payloads from the corrupt ones, whoever acknowledged what.
ArchiveVerified ==
  \A i \in Items :
    /\ rows[i].status = "archived" => i \in stored
    /\ i \in stored => i \notin Corrupt
    /\ rows[i].status = "dead_letter" => i \in Corrupt

\* A verdict is final: a drain that lost its lease, and fails or answers late,
\* does not take an archived event back to retry.
VerdictFinal ==
  [][\A i \in Items : rows[i].status \in Settled => rows'[i] = rows[i]]_vars

\* A lease that has not expired is ended by the drain that holds it only.
LeaseHonoured ==
  [][\A i \in Items, d \in Drains :
       /\ rows[i].status = "leased" /\ rows[i].owner = d /\ rows[i].expires > 0
       /\ rows'[i].owner # d
       => drain'[d] # drain[d]]_vars

\* Two drains archive the same payload at the same time ("a cron repair and a
\* post-command background attempt cannot archive the same payload concurrently")
\* only where one of them has been running for a whole lease time.
OneArchiver ==
  \A c, d \in Drains :
    /\ c # d /\ drain[c].pc = "put" /\ drain[d].pc = "put" /\ drain[c].item = drain[d].item
    => drain[c].age >= LeaseTime \/ drain[d].age >= LeaseTime

\* Every event gets its verdict, whatever was lost on the way, where drains come
\* to end before the leases they gave out.
Prompt == \A d \in Drains : drain[d].age < LeaseTime

EventuallySettled ==
  <>[]Prompt =>
    \A i \in Items : rows[i].status = "pending" ~> rows[i].status \in Settled

=============================================================================
