------------------------- MODULE PortalOutboxProofs -------------------------
(***************************************************************************)
(* Proofs about PortalOutbox, for every number of employees, consumers,    *)
(* corrections, messages and faults, and every budget of retries.          *)
(***************************************************************************)
EXTENDS PortalOutbox, TLAPS

LEMMA SentType ==
  ASSUME BagToSet(queue) \subseteq Messages, NEW m \in Messages
  PROVE  BagToSet(Sent(m)) \subseteq Messages
  BY DEF Sent, BagToSet, SetToBag, (+)

LEMMA LessType ==
  ASSUME BagToSet(queue) \subseteq Messages, NEW m
  PROVE  BagToSet(Less(m)) \subseteq Messages
  BY DEF Less, BagToSet, SetToBag, (-)

LEMMA FaultType ==
  ASSUME faults \in 0..MaxFaults, Fault
  PROVE  faults' \in 0..MaxFaults
  BY PortalBounds DEF Fault

LEMMA RowType ==
  ASSUME NEW m \in Messages
  PROVE  /\ m.row \in Rows /\ m.row[1] \in 1..MaxSequence /\ m.row[2] \in Employees
         /\ m.attempts \in Nat /\ m.attempts + 1 \in Nat /\ m.tries \in 0..QueueRetries
  BY DEF Messages, Rows

\* A busy consumer has a message in hand, and the message names a row.
LEMMA BusyType ==
  ASSUME TypeOK, NEW c \in Consumers, consumer[c].pc # "idle"
  PROVE  /\ consumer[c] \in ConsumerSet
         /\ consumer[c].msg \in Messages
         /\ RowOf(c) \in Rows /\ RowOf(c)[1] \in 1..MaxSequence /\ RowOf(c)[2] \in Employees
         /\ consumer[c].msg.attempts \in Nat /\ consumer[c].msg.attempts + 1 \in Nat
         /\ outbox[RowOf(c)] \in RowSet
<1>1. consumer[c] \in ConsumerSet /\ consumer[c].msg # None
  BY DEF TypeOK
<1>2. consumer[c].msg \in Messages
  BY <1>1 DEF ConsumerSet
<1> QED
  BY <1>1, <1>2, RowType DEF RowOf, TypeOK

\* What a consumer's UPDATE of its row leaves
LEMMA WrittenType ==
  ASSUME NEW c \in Consumers, outbox[RowOf(c)] \in RowSet,
         NEW status \in {"queued", "in_flight"} \cup Terminal, NEW attempts \in Nat
  PROVE  /\ Written(c, status, attempts) \in RowSet
         /\ Written(c, status, attempts).status =
              IF outbox[RowOf(c)].status = "superseded" THEN "superseded" ELSE status
         /\ Written(c, status, attempts).due = outbox[RowOf(c)].due
         /\ Written(c, status, attempts).attempts =
              IF outbox[RowOf(c)].status = "superseded" THEN outbox[RowOf(c)].attempts
              ELSE attempts
  BY DEF Written, RowSet

LEMMA PublishedType ==
  ASSUME TypeOK, NEW r \in Rows
  PROVE  /\ Published[r] \in RowSet
         /\ \/ Published[r] = outbox[r]
            \/ /\ outbox[r].status = "absent"
               /\ Published[r] = NewRow
            \/ /\ outbox[r].status # "absent"
               /\ Published[r] = [outbox[r] EXCEPT !.status = "superseded"]
<1>1. outbox[r] \in RowSet
  BY DEF TypeOK
<1>2. \/ Published[r] = outbox[r]
      \/ /\ outbox[r].status = "absent"
         /\ Published[r] = NewRow
      \/ /\ outbox[r].status # "absent"
         /\ Published[r] = [outbox[r] EXCEPT !.status = "superseded"]
  BY DEF Published
<1>3. NewRow \in RowSet /\ [outbox[r] EXCEPT !.status = "superseded"] \in RowSet
  BY <1>1 DEF NewRow, RowSet, Terminal
<1> QED
  BY <1>1, <1>2, <1>3

-----------------------------------------------------------------------------
(***************************************************************************)
(* The inductive invariant.  OnePoster does not follow from itself: what   *)
(* keeps a second consumer from a row is that the row stays claimed, with  *)
(* a claim that has not expired, or is superseded, for as long as the      *)
(* first one works on it.  That its attempts are those of the message is   *)
(* what keeps a consumer from turning the count back; and an answer it     *)
(* takes for a success is one the Hub has given.                           *)
(***************************************************************************)
Claimed ==
  \A c \in Consumers :
    consumer[c].pc \in Delivering =>
      \/ outbox[RowOf(c)].status = "superseded"
      \/ outbox[RowOf(c)].status = "in_flight" /\ ~outbox[RowOf(c)].due

Counted ==
  \A c \in Consumers :
    /\ consumer[c].pc \in {"attempt", "post", "mark"} =>
         outbox[RowOf(c)].attempts = consumer[c].msg.attempts
    /\ consumer[c].pc = "write" =>
         outbox[RowOf(c)].attempts = consumer[c].msg.attempts + 1

Received ==
  \A c \in Consumers :
    consumer[c].pc \in {"mark", "write"} /\ consumer[c].outcome = "done" =>
      hub[RowOf(c)[2]] >= RowOf(c)[1]

\* A consumer between the answer of the Hub and the end has an outcome.
Decided ==
  \A c \in Consumers : consumer[c].pc \in {"mark", "write"} => consumer[c].outcome # "none"

IInv ==
  /\ TypeOK /\ OnePoster /\ Delivered
  /\ Claimed /\ Counted /\ Received /\ Decided

\* The invariant holds at the start: nothing is published, nobody delivers.
LEMMA InitIInv == Init => IInv
<1> SUFFICES ASSUME Init PROVE IInv
  OBVIOUS
<1>1. /\ Absent \in RowSet /\ Absent.status = "absent"
      /\ Idle \in ConsumerSet /\ Idle.pc = "idle" /\ Idle.msg = None
  BY DEF Absent, RowSet, Idle, ConsumerSet
<1>2. BagToSet(queue) \subseteq Messages
  BY DEF Init, EmptyBag, BagToSet, SetToBag
<1>3. TypeOK
  <2>1. \A c \in Consumers : consumer[c].pc = "idle" <=> consumer[c].msg = None
    BY <1>1 DEF Init
  <2>2. sequence \in 0..MaxSequence /\ hub \in [Employees -> 0..MaxSequence]
    BY PortalBounds DEF Init
  <2>3. outbox \in [Rows -> RowSet] /\ consumer \in [Consumers -> ConsumerSet]
    BY <1>1 DEF Init
  <2>4. complete \in BOOLEAN
    BY DEF Init
  <2>5. faults \in 0..MaxFaults
    BY PortalBounds DEF Init
  <2>6. todo \subseteq Rows /\ retrying \subseteq Rows
    BY DEF Init
  <2> QED
    BY <1>2, <2>1, <2>2, <2>3, <2>4, <2>5, <2>6 DEF TypeOK
<1>4. \A c \in Consumers : consumer[c].pc = "idle"
  BY <1>1 DEF Init
<1>5. OnePoster /\ Claimed /\ Counted /\ Received /\ Decided
  BY <1>4 DEF OnePoster, Claimed, Counted, Received, Decided, Delivering
<1>6. Delivered
  BY <1>1 DEF Init, Delivered
<1> QED
  BY <1>3, <1>5, <1>6 DEF IInv

(***************************************************************************)
(* Steps that move no consumer and do not reach the Hub: a row that is     *)
(* being delivered keeps its attempts, and its claim unless it is          *)
(* superseded.                                                             *)
(***************************************************************************)
LEMMA QuietStep ==
  ASSUME IInv, TypeOK', UNCHANGED <<consumer, hub>>,
         \A r \in Rows :
           /\ outbox[r].status # "absent" => outbox'[r].status # "absent"
           /\ outbox'[r].status = "done" => outbox[r].status = "done",
         \A c \in Consumers :
           consumer[c].pc \in Delivering =>
             /\ outbox'[RowOf(c)].attempts = outbox[RowOf(c)].attempts
             /\ \/ outbox'[RowOf(c)].status = "superseded"
                \/ outbox'[RowOf(c)].status = "in_flight" /\ ~outbox'[RowOf(c)].due
  PROVE  IInv'
<1>1. OnePoster' /\ Received' /\ Decided'
  BY DEF IInv, OnePoster, Received, Decided, RowOf
<1>2. Claimed'
  BY DEF Claimed, RowOf
<1>3. Counted'
  BY DEF IInv, Counted, RowOf, Delivering
<1>4. \A e \in Employees : hub[e] > 0 => <<hub[e], e>> \in Rows
  BY PortalBounds DEF IInv, TypeOK, Rows
<1>5. Delivered'
  BY <1>4 DEF IInv, Delivered
<1> QED
  BY <1>1, <1>2, <1>3, <1>5 DEF IInv

\* Steps that leave rows, consumers and the Hub alone
LEMMA QueueStep ==
  ASSUME IInv, TypeOK', UNCHANGED <<outbox, consumer, hub>>
  PROVE  IInv'
<1>1. \A c \in Consumers :
        consumer[c].pc \in Delivering =>
          \/ outbox[RowOf(c)].status = "superseded"
          \/ outbox[RowOf(c)].status = "in_flight" /\ ~outbox[RowOf(c)].due
  BY DEF IInv, Claimed
<1> QED
  BY <1>1, QuietStep

\* What the administrator, the cron and the queue do
LEMMA CommandStep == IInv /\ Command => IInv'
<1> SUFFICES ASSUME IInv, Command PROVE IInv'
  OBVIOUS
<1>1. sequence + 1 \in 0..MaxSequence
  BY PortalBounds DEF IInv, TypeOK, Command
<1>2. TypeOK'
  BY <1>1 DEF IInv, TypeOK, Command
<1> QED
  BY <1>2, QueueStep DEF Command

LEMMA PublishStep == IInv /\ Publish => IInv'
<1> SUFFICES ASSUME IInv, Publish PROVE IInv'
  OBVIOUS
<1> USE DEF IInv
<1>1. outbox' \in [Rows -> RowSet]
  BY PublishedType DEF Publish, Published
<1>2. DueIn(Published) \subseteq Rows
  BY DEF DueIn
<1>3. TypeOK'
  BY <1>1, <1>2 DEF TypeOK, Publish
<1>4. ASSUME NEW r \in Rows
      PROVE  \/ outbox'[r] = outbox[r]
             \/ /\ outbox[r].status = "absent"
                /\ outbox'[r].status = "queued"
             \/ /\ outbox[r].status # "absent"
                /\ outbox'[r].status = "superseded"
                /\ outbox'[r].attempts = outbox[r].attempts
  <2>1. outbox[r] \in RowSet /\ outbox' = Published
    BY DEF TypeOK, Publish
  <2>2. /\ NewRow.status = "queued"
        /\ [outbox[r] EXCEPT !.status = "superseded"].status = "superseded"
        /\ [outbox[r] EXCEPT !.status = "superseded"].attempts = outbox[r].attempts
    BY <2>1 DEF NewRow, RowSet
  <2> QED
    BY <2>1, <2>2, PublishedType
<1>5. ASSUME NEW c \in Consumers, consumer[c].pc \in Delivering
      PROVE  /\ outbox'[RowOf(c)].attempts = outbox[RowOf(c)].attempts
             /\ \/ outbox'[RowOf(c)].status = "superseded"
                \/ outbox'[RowOf(c)].status = "in_flight" /\ ~outbox'[RowOf(c)].due
  <2>1. RowOf(c) \in Rows
    BY <1>5, BusyType DEF Delivering
  <2> QED
    BY <1>4, <1>5, <2>1 DEF Claimed
<1> QED
  BY <1>3, <1>4, <1>5, QuietStep DEF Publish

LEMMA RetryStep ==
  ASSUME IInv, NEW r \in Rows, Retry(r)
  PROVE  IInv'
<1> USE DEF IInv
<1>1. NewRow \in RowSet /\ NewRow.status = "queued"
  BY DEF NewRow, RowSet
<1>2. \/ outbox' = outbox
      \/ outbox[r].status = "failed" /\ outbox' = [outbox EXCEPT ![r] = NewRow]
  BY DEF Retry
<1>3. outbox' \in [Rows -> RowSet]
  BY <1>1, <1>2 DEF TypeOK
<1>4. todo' \subseteq Rows
  BY DEF Retry, DueIn, TypeOK
<1>5. TypeOK'
  BY <1>3, <1>4 DEF TypeOK, Retry
<1>6. ASSUME NEW c \in Consumers, consumer[c].pc \in Delivering
      PROVE  outbox'[RowOf(c)] = outbox[RowOf(c)]
  <2>1. outbox[RowOf(c)].status # "failed"
    BY <1>6 DEF Claimed
  <2>2. RowOf(c) \in Rows
    BY <1>6, BusyType DEF Delivering
  <2> QED
    BY <1>2, <2>1, <2>2 DEF TypeOK
<1>7. \A q \in Rows :
        /\ outbox[q].status # "absent" => outbox'[q].status # "absent"
        /\ outbox'[q].status = "done" => outbox[q].status = "done"
  BY <1>1, <1>2 DEF TypeOK
<1>8. UNCHANGED <<consumer, hub>>
  BY DEF Retry
<1> QED
  BY <1>5, <1>6, <1>7, <1>8, QuietStep DEF Claimed

LEMMA ElapseStep ==
  ASSUME IInv, NEW r \in Rows, Elapse(r)
  PROVE  IInv'
<1> USE DEF IInv
<1>1. outbox[r] \in RowSet
  BY DEF TypeOK
<1>2. outbox' = [outbox EXCEPT ![r] = [outbox[r] EXCEPT !.due = TRUE]]
  BY DEF Elapse
<1>3. /\ [outbox[r] EXCEPT !.due = TRUE] \in RowSet
      /\ [outbox[r] EXCEPT !.due = TRUE].status = outbox[r].status
  BY <1>1 DEF RowSet
<1>4. TypeOK'
  BY <1>2, <1>3 DEF TypeOK, Elapse
<1>5. ASSUME NEW c \in Consumers, consumer[c].pc \in Delivering
      PROVE  outbox'[RowOf(c)] = outbox[RowOf(c)]
  <2>1. RowOf(c) # r
    BY <1>5 DEF Elapse, Handled, Claimed, Delivering, RowOf
  <2> QED
    BY <1>2, <2>1
<1>6. \A q \in Rows : outbox'[q].status = outbox[q].status
  BY <1>2, <1>3 DEF TypeOK
<1> QED
  BY <1>4, <1>5, <1>6, QuietStep DEF Elapse, Claimed

LEMMA SendStep ==
  ASSUME IInv, NEW r \in Rows, Send(r)
  PROVE  IInv'
<1> USE DEF IInv
<1>1. [row |-> r, attempts |-> outbox[r].attempts, tries |-> 0] \in Messages
  BY PortalBounds DEF TypeOK, RowSet, Messages
<1>2. BagToSet(queue') \subseteq Messages
  BY <1>1, SentType DEF Send, TypeOK
<1>3. TypeOK'
  BY <1>2 DEF TypeOK, Send
<1> QED
  BY <1>3, QueueStep DEF Send

LEMMA MessageStep ==
  ASSUME IInv, NEW m \in BagToSet(queue), Skip(m) \/ Duplicate(m) \/ Discard(m)
  PROVE  IInv'
<1> USE DEF IInv
<1>1. m \in Messages
  BY DEF TypeOK
<1>2. BagToSet(queue') \subseteq Messages
  BY <1>1, SentType, LessType DEF TypeOK, Skip, Duplicate, Discard
<1>3. faults' \in 0..MaxFaults
  BY FaultType DEF TypeOK, Skip, Duplicate, Discard
<1>4. UNCHANGED <<sequence, complete, outbox, todo, retrying, consumer, hub>>
  BY DEF Skip, Duplicate, Discard
<1>5. TypeOK'
  BY <1>2, <1>3, <1>4 DEF TypeOK
<1> QED
  BY <1>4, <1>5, QueueStep

LEMMA OtherQuietStep ==
  ASSUME IInv, Drain \/ \E r \in Rows : AskRetry(r) \/ SendFails(r)
  PROVE  IInv'
<1> USE DEF IInv
<1>1. todo' \subseteq Rows /\ retrying' \subseteq Rows
  BY DEF TypeOK, Drain, DueIn, AskRetry, SendFails
<1>2. faults' \in 0..MaxFaults
  BY FaultType DEF TypeOK, Drain, AskRetry, SendFails
<1>3. UNCHANGED <<sequence, complete, outbox, queue, consumer, hub>>
  BY DEF Drain, AskRetry, SendFails
<1>4. TypeOK'
  BY <1>1, <1>2, <1>3 DEF TypeOK
<1> QED
  BY <1>3, <1>4, QueueStep

-----------------------------------------------------------------------------
(***************************************************************************)
(* Steps of a consumer.  A consumer that leaves, or is not yet delivering, *)
(* owes nothing; the others keep what they rely on as long as their rows   *)
(* keep their claims and their attempts.                                   *)
(***************************************************************************)
\* What a delivering consumer in state k relies on, and what it has recorded
Holds(k) ==
  k.pc \in Delivering =>
    /\ \/ outbox[k.msg.row].status = "superseded"
       \/ outbox[k.msg.row].status = "in_flight" /\ ~outbox[k.msg.row].due
    /\ outbox[k.msg.row].attempts =
         IF k.pc = "write" THEN k.msg.attempts + 1 ELSE k.msg.attempts
    /\ k.pc \in {"mark", "write"} /\ k.outcome = "done" =>
         hub[k.msg.row[2]] >= k.msg.row[1]
    /\ k.pc \in {"mark", "write"} => k.outcome # "none"

LEMMA HoldsAll ==
  Claimed /\ Counted /\ Received /\ Decided <=> \A c \in Consumers : Holds(consumer[c])
<1>1. ASSUME Claimed, Counted, Received, Decided, NEW c \in Consumers
      PROVE  Holds(consumer[c])
  BY <1>1 DEF Claimed, Counted, Received, Decided, Holds, Delivering, RowOf
<1>2. ASSUME \A c \in Consumers : Holds(consumer[c])
      PROVE  Claimed /\ Counted /\ Received /\ Decided
  BY <1>2 DEF Claimed, Counted, Received, Decided, Holds, Delivering, RowOf
<1> QED
  BY <1>1, <1>2

LEMMA ConsumerStep ==
  ASSUME IInv, TypeOK', NEW c \in Consumers, NEW k,
         consumer' = [consumer EXCEPT ![c] = k],
         \A r \in Rows :
           /\ outbox[r].status # "absent" => outbox'[r].status # "absent"
           /\ outbox'[r].status = "done" => outbox[r].status = "done" \/ hub'[r[2]] >= r[1],
         \A e \in Employees :
           /\ hub'[e] >= hub[e]
           /\ hub'[e] = hub[e] \/ outbox[<<hub'[e], e>>].status # "absent",
         \A d \in Consumers \ {c} :
           consumer[d].pc \in Delivering =>
             /\ outbox'[RowOf(d)] = outbox[RowOf(d)] \/
                (/\ outbox'[RowOf(d)].status = "superseded"
                 /\ outbox'[RowOf(d)].attempts = outbox[RowOf(d)].attempts)
             /\ k.pc \in Delivering => RowOf(d) # k.msg.row,
         Holds(k)'
  PROVE  IInv'
<1> USE DEF IInv
<1>1. consumer'[c] = k /\ \A d \in Consumers \ {c} : consumer'[d] = consumer[d]
  BY DEF TypeOK
<1>2. OnePoster'
  BY <1>1 DEF OnePoster, RowOf
<1>3. ASSUME NEW d \in Consumers \ {c} PROVE Holds(consumer[d])'
  <2> SUFFICES ASSUME consumer[d].pc \in Delivering PROVE Holds(consumer[d])'
    BY <1>1 DEF Holds
  <2>1. Holds(consumer[d])
    BY HoldsAll
  <2>2. hub'[RowOf(d)[2]] >= hub[RowOf(d)[2]]
    BY BusyType DEF Delivering
  <2>3. /\ hub'[RowOf(d)[2]] \in Nat /\ hub[RowOf(d)[2]] \in Nat /\ RowOf(d)[1] \in Nat
    BY BusyType, PortalBounds DEF Delivering, TypeOK
  <2> QED
    BY <1>1, <2>1, <2>2, <2>3 DEF Holds, RowOf
<1>4. (\A d \in Consumers : Holds(consumer[d]))'
  BY <1>1, <1>3
<1>5. Claimed' /\ Counted' /\ Received' /\ Decided'
  BY <1>4 DEF Claimed, Counted, Received, Decided, Holds, Delivering, RowOf
<1>6. \A e \in Employees : hub'[e] > 0 => outbox'[<<hub'[e], e>>].status # "absent"
  <2> SUFFICES ASSUME NEW e \in Employees, hub'[e] > 0
               PROVE  outbox'[<<hub'[e], e>>].status # "absent"
    OBVIOUS
  <2>1. <<hub'[e], e>> \in Rows
    BY PortalBounds DEF TypeOK, Rows
  <2> QED
    BY <2>1 DEF Delivered
<1>7. \A r \in Rows : outbox'[r].status = "done" => hub'[r[2]] >= r[1]
  <2> SUFFICES ASSUME NEW r \in Rows, outbox[r].status = "done"
               PROVE  hub'[r[2]] >= r[1]
    OBVIOUS
  <2>1. r[1] \in Nat /\ r[2] \in Employees
    BY DEF Rows
  <2>2. hub'[r[2]] \in Nat /\ hub[r[2]] \in Nat
    BY <2>1, PortalBounds DEF TypeOK
  <2>3. hub'[r[2]] >= hub[r[2]] /\ hub[r[2]] >= r[1]
    BY <2>1 DEF Delivered
  <2> QED
    BY <2>1, <2>2, <2>3
<1> QED
  BY <1>2, <1>5, <1>6, <1>7 DEF Delivered

LEMMA IdleType ==
  Idle \in ConsumerSet /\ Idle.pc = "idle" /\ Idle.msg = None /\ Idle.pc \notin Delivering
  BY DEF Idle, ConsumerSet, Delivering

LEMMA IdleHolds == Holds(Idle)'
  BY IdleType DEF Holds

\* A consumer takes a message, or leaves, without touching rows or the Hub.
LEMMA LeaveStep ==
  ASSUME IInv, TypeOK', NEW c \in Consumers, NEW k \in ConsumerSet,
         k.pc \notin Delivering,
         consumer' = [consumer EXCEPT ![c] = k], UNCHANGED <<outbox, hub>>
  PROVE  IInv'
<1>1. Holds(k)'
  BY DEF Holds
<1>2. \A e \in Employees : hub[e] >= hub[e]
  BY PortalBounds DEF IInv, TypeOK
<1> QED
  BY <1>1, <1>2, ConsumerStep

LEMMA TakeStep ==
  ASSUME IInv, NEW m \in BagToSet(queue), NEW c \in Consumers, Take(c, m)
  PROVE  IInv'
<1> USE DEF IInv
<1>1. m \in Messages /\ m # None
  BY NoneIsNoMessage DEF TypeOK
<1>2. PICK pc \in {"supersede", "claim"} :
        consumer' = [consumer EXCEPT ![c] = [pc |-> pc, msg |-> m, outcome |-> "none"]]
  <2>1. CASE Overtaken(m)
    BY <2>1 DEF Take
  <2>2. CASE ~Overtaken(m)
    BY <2>2 DEF Take
  <2> QED
    BY <2>1, <2>2
<1>3. /\ [pc |-> pc, msg |-> m, outcome |-> "none"] \in ConsumerSet
      /\ [pc |-> pc, msg |-> m, outcome |-> "none"].pc \notin Delivering
  BY <1>1 DEF ConsumerSet, Delivering
<1>4. BagToSet(queue') \subseteq Messages
  BY LessType DEF Take, TypeOK
<1>5. TypeOK'
  BY <1>1, <1>2, <1>3, <1>4 DEF TypeOK, Take
<1> QED
  BY <1>2, <1>3, <1>5, LeaveStep DEF Take

LEMMA RequeueStep ==
  ASSUME IInv, NEW c \in Consumers, Requeue(c)
  PROVE  IInv'
<1> USE DEF IInv
<1>1. [row |-> RowOf(c), attempts |-> consumer[c].msg.attempts + 1, tries |-> 0] \in Messages
  BY BusyType, PortalBounds DEF Requeue, Messages
<1>2. BagToSet(queue') \subseteq Messages
  BY <1>1, SentType DEF Requeue, TypeOK
<1>3. TypeOK'
  BY <1>2, IdleType DEF TypeOK, Requeue, Leave
<1> QED
  BY <1>3, IdleType, LeaveStep DEF Requeue, Leave

LEMMA FailStep ==
  ASSUME IInv, NEW c \in Consumers, Fail(c)
  PROVE  IInv'
<1> USE DEF IInv
<1>1. consumer[c].msg \in Messages
  BY BusyType DEF Fail
<1>2. consumer[c].msg.tries # QueueRetries =>
        [consumer[c].msg EXCEPT !.tries = @ + 1] \in Messages
  BY <1>1, PortalBounds DEF Messages
<1>3. BagToSet(queue') \subseteq Messages
  BY <1>2, SentType DEF Fail, TypeOK
<1>4. faults' \in 0..MaxFaults
  BY FaultType DEF Fail, TypeOK
<1>5. TypeOK'
  BY <1>3, <1>4, IdleType DEF TypeOK, Fail, Leave
<1> QED
  BY <1>5, IdleType, LeaveStep DEF Fail, Leave

\* What the other consumers see of a step that changes the row in hand only
LEMMA OthersKeep ==
  ASSUME IInv, NEW c \in Consumers, consumer[c].pc # "idle", NEW row,
         outbox' = [outbox EXCEPT ![RowOf(c)] = row],
         NEW d \in Consumers \ {c}, consumer[d].pc \in Delivering,
         \/ consumer[c].pc \in Delivering
         \/ outbox[RowOf(c)].status = "queued"
         \/ outbox[RowOf(c)].status = "in_flight" /\ outbox[RowOf(c)].due
  PROVE  RowOf(d) # RowOf(c) /\ outbox'[RowOf(d)] = outbox[RowOf(d)]
<1>1. RowOf(d) # RowOf(c)
  BY DEF IInv, OnePoster, Claimed
<1>2. RowOf(d) \in Rows
  BY BusyType DEF IInv, Delivering
<1> QED
  BY <1>1, <1>2 DEF IInv, TypeOK

LEMMA SupersedeStep ==
  ASSUME IInv, NEW c \in Consumers, Supersede(c)
  PROVE  IInv'
<1> USE DEF IInv
<1> DEFINE row == [outbox[RowOf(c)] EXCEPT !.status = "superseded"]
<1>1. outbox[RowOf(c)] \in RowSet /\ RowOf(c) \in Rows
  BY BusyType DEF Supersede
<1>2. /\ row \in RowSet /\ row.status = "superseded"
      /\ row.attempts = outbox[RowOf(c)].attempts
  BY <1>1 DEF RowSet, Terminal
<1>3. outbox' = [outbox EXCEPT ![RowOf(c)] = row] /\ consumer' = [consumer EXCEPT ![c] = Idle]
  BY DEF Supersede, Set, Leave
<1> HIDE DEF row
<1>4. TypeOK'
  BY <1>2, <1>3, IdleType DEF TypeOK, Supersede
<1>5. \A r \in Rows :
        /\ outbox[r].status # "absent" => outbox'[r].status # "absent"
        /\ outbox'[r].status = "done" => outbox[r].status = "done"
  BY <1>1, <1>2, <1>3 DEF TypeOK
<1>6. ASSUME NEW d \in Consumers \ {c}, consumer[d].pc \in Delivering
      PROVE  \/ outbox'[RowOf(d)] = outbox[RowOf(d)]
             \/ /\ outbox'[RowOf(d)].status = "superseded"
                /\ outbox'[RowOf(d)].attempts = outbox[RowOf(d)].attempts
  <2>1. RowOf(d) \in Rows
    BY <1>6, BusyType DEF Delivering
  <2> QED
    BY <1>1, <1>2, <1>3, <2>1 DEF TypeOK
<1>7. hub' = hub /\ \A e \in Employees : hub[e] >= hub[e]
  BY PortalBounds DEF TypeOK, Supersede
<1> QED
  BY <1>3, <1>4, <1>5, <1>6, <1>7, IdleType, IdleHolds, ConsumerStep

\* A step that changes the row in hand, which no other consumer delivers, and
\* moves the consumer to state k
LEMMA RowStep ==
  ASSUME IInv, NEW c \in Consumers, consumer[c].pc # "idle",
         NEW row \in RowSet, row.status # "absent",
         outbox' = [outbox EXCEPT ![RowOf(c)] = row],
         NEW k \in ConsumerSet, k.pc = "idle" <=> k.msg = None,
         k.msg = consumer[c].msg \/ k.pc \notin Delivering,
         consumer' = [consumer EXCEPT ![c] = k],
         \/ consumer[c].pc \in Delivering
         \/ outbox[RowOf(c)].status = "queued"
         \/ outbox[RowOf(c)].status = "in_flight" /\ outbox[RowOf(c)].due,
         row.status = "done" => hub[RowOf(c)[2]] >= RowOf(c)[1],
         UNCHANGED <<sequence, complete, queue, todo, retrying, hub, faults>>,
         k.pc \in Delivering =>
           /\ row.status = "superseded" \/ (row.status = "in_flight" /\ ~row.due)
           /\ row.attempts = IF k.pc = "write" THEN k.msg.attempts + 1 ELSE k.msg.attempts
           /\ k.pc \in {"mark", "write"} =>
                /\ k.outcome # "none"
                /\ k.outcome = "done" => hub[RowOf(c)[2]] >= RowOf(c)[1]
  PROVE  IInv'
<1> USE DEF IInv
<1>1. RowOf(c) \in Rows /\ outbox'[RowOf(c)] = row
  BY BusyType DEF TypeOK
<1>2. TypeOK'
  BY <1>1 DEF TypeOK
<1>3. \A r \in Rows :
        /\ outbox[r].status # "absent" => outbox'[r].status # "absent"
        /\ outbox'[r].status = "done" => outbox[r].status = "done" \/ hub'[r[2]] >= r[1]
  BY <1>1 DEF TypeOK
<1>4. \A e \in Employees : hub'[e] >= hub[e] /\ hub'[e] = hub[e]
  BY PortalBounds DEF TypeOK
<1>5. ASSUME NEW d \in Consumers \ {c}, consumer[d].pc \in Delivering
      PROVE  /\ outbox'[RowOf(d)] = outbox[RowOf(d)]
             /\ k.pc \in Delivering => RowOf(d) # k.msg.row
  <2>1. RowOf(d) # RowOf(c) /\ outbox'[RowOf(d)] = outbox[RowOf(d)]
    BY <1>5, OthersKeep
  <2> QED
    BY <2>1 DEF RowOf
<1>6. Holds(k)'
  BY <1>1 DEF Holds, RowOf
<1> QED
  BY <1>2, <1>3, <1>4, <1>5, <1>6, ConsumerStep

LEMMA ClaimStep ==
  ASSUME IInv, NEW c \in Consumers, Claim(c)
  PROVE  IInv'
<1> USE DEF IInv
<1>1. CASE ~Free(c)
  <2>1. consumer' = [consumer EXCEPT ![c] = Idle] /\ UNCHANGED <<outbox, hub>>
    BY <1>1 DEF Claim, Leave
  <2>2. TypeOK'
    BY <2>1, IdleType DEF TypeOK, Claim
  <2> QED
    BY <2>1, <2>2, IdleType, LeaveStep
<1>2. CASE Free(c)
  <2> DEFINE row == [outbox[RowOf(c)] EXCEPT !.status = "in_flight", !.due = FALSE]
             k   == [consumer[c] EXCEPT !.pc = "attempt"]
  <2>1. consumer[c].pc = "claim" /\ consumer[c] \in ConsumerSet /\ consumer[c].msg # None
    BY DEF Claim, TypeOK
  <2>2. outbox[RowOf(c)] \in RowSet
    BY <2>1, BusyType
  <2>3. /\ row \in RowSet /\ row.status = "in_flight" /\ ~row.due
        /\ row.attempts = outbox[RowOf(c)].attempts
    BY <2>2 DEF RowSet
  <2>4. k \in ConsumerSet /\ k.pc = "attempt" /\ k.msg = consumer[c].msg
    BY <2>1 DEF ConsumerSet
  <2>5. outbox' = [outbox EXCEPT ![RowOf(c)] = row] /\ consumer' = [consumer EXCEPT ![c] = k]
    BY <1>2 DEF Claim, Set, Goto
  <2>6. /\ \/ outbox[RowOf(c)].status = "queued"
           \/ outbox[RowOf(c)].status = "in_flight" /\ outbox[RowOf(c)].due
        /\ row.attempts = k.msg.attempts
    BY <1>2, <2>3, <2>4 DEF Free
  <2>7. UNCHANGED <<sequence, complete, queue, todo, retrying, hub, faults>>
    BY DEF Claim
  <2> HIDE DEF row, k
  <2> QED
    BY <2>1, <2>3, <2>4, <2>5, <2>6, <2>7, RowStep
<1> QED
  BY <1>1, <1>2

LEMMA AttemptStep ==
  ASSUME IInv, NEW c \in Consumers, Attempt(c)
  PROVE  IInv'
<1> USE DEF IInv
<1> DEFINE row == Written(c, "in_flight", consumer[c].msg.attempts)
           k   == [consumer[c] EXCEPT !.pc = "post"]
<1>1. /\ consumer[c].pc = "attempt" /\ consumer[c].pc \in Delivering
      /\ consumer[c] \in ConsumerSet /\ consumer[c].msg # None
  BY DEF Attempt, TypeOK, Delivering
<1>2. Holds(consumer[c])
  BY HoldsAll
<1>3. /\ row \in RowSet
      /\ row.status = "superseded" \/ (row.status = "in_flight" /\ ~row.due)
      /\ row.attempts = consumer[c].msg.attempts
  BY <1>1, <1>2, BusyType, WrittenType DEF Holds, RowOf
<1>4. k \in ConsumerSet /\ k.pc = "post" /\ k.msg = consumer[c].msg
  BY <1>1 DEF ConsumerSet
<1>5. outbox' = [outbox EXCEPT ![RowOf(c)] = row] /\ consumer' = [consumer EXCEPT ![c] = k]
  BY DEF Attempt, Set, Goto
<1>6. UNCHANGED <<sequence, complete, queue, todo, retrying, hub, faults>>
  BY DEF Attempt
<1> HIDE DEF row, k
<1> QED
  BY <1>1, <1>3, <1>4, <1>5, <1>6, RowStep

LEMMA MarkStep ==
  ASSUME IInv, NEW c \in Consumers, Mark(c)
  PROVE  IInv'
<1> USE DEF IInv
<1> DEFINE row == [outbox[RowOf(c)] EXCEPT !.attempts = consumer[c].msg.attempts + 1]
           k   == [consumer[c] EXCEPT !.pc = "write"]
<1>1. /\ consumer[c].pc = "mark" /\ consumer[c].pc \in Delivering
      /\ consumer[c] \in ConsumerSet /\ consumer[c].msg # None
  BY DEF Mark, TypeOK, Delivering
<1>2. Holds(consumer[c])
  BY HoldsAll
<1>3. /\ row \in RowSet /\ row.status = outbox[RowOf(c)].status
      /\ row.due = outbox[RowOf(c)].due /\ row.attempts = consumer[c].msg.attempts + 1
  BY <1>1, BusyType DEF RowSet
<1>4. /\ k \in ConsumerSet /\ k.pc = "write" /\ k.msg = consumer[c].msg
      /\ k.outcome = consumer[c].outcome
  BY <1>1 DEF ConsumerSet
<1>5. outbox' = [outbox EXCEPT ![RowOf(c)] = row] /\ consumer' = [consumer EXCEPT ![c] = k]
  BY DEF Mark, Set, Goto
<1>6. UNCHANGED <<sequence, complete, queue, todo, retrying, hub, faults>>
  BY DEF Mark
<1>7. row.status = "superseded" \/ (row.status = "in_flight" /\ ~row.due)
  BY <1>1, <1>2, <1>3 DEF Holds, RowOf
<1>8. /\ k.outcome # "none"
      /\ k.outcome = "done" => hub[RowOf(c)[2]] >= RowOf(c)[1]
  BY <1>1, <1>2, <1>4 DEF Holds, RowOf
<1> HIDE DEF row, k
<1> QED
  BY <1>1, <1>3, <1>4, <1>5, <1>6, <1>7, <1>8, RowStep

LEMMA WriteStep ==
  ASSUME IInv, NEW c \in Consumers, Write(c)
  PROVE  IInv'
<1> USE DEF IInv
<1> DEFINE row == Written(c, consumer[c].outcome, consumer[c].msg.attempts + 1)
           k   == IF consumer[c].outcome = "queued"
                  THEN [consumer[c] EXCEPT !.pc = "requeue"] ELSE Idle
<1>1. /\ consumer[c].pc = "write" /\ consumer[c].pc \in Delivering
      /\ consumer[c] \in ConsumerSet /\ consumer[c].msg # None
  BY DEF Write, TypeOK, Delivering
<1>2. Holds(consumer[c])
  BY HoldsAll
<1>3. consumer[c].outcome \in {"queued", "done", "failed"}
  BY <1>1, <1>2 DEF Holds, ConsumerSet
<1>4. /\ row \in RowSet
      /\ \/ row.status \in {"superseded", "queued", "failed"}
         \/ row.status = "done" /\ consumer[c].outcome = "done"
  <2>1. /\ outbox[RowOf(c)] \in RowSet /\ consumer[c].msg.attempts + 1 \in Nat
        /\ consumer[c].outcome \in {"queued", "in_flight"} \cup Terminal
    BY <1>1, <1>3, BusyType DEF Terminal
  <2>2. /\ row \in RowSet
        /\ row.status = IF outbox[RowOf(c)].status = "superseded" THEN "superseded"
                        ELSE consumer[c].outcome
    BY <2>1, WrittenType
  <2> HIDE DEF row
  <2> QED
    BY <1>3, <2>2
<1>5. row.status = "done" => hub[RowOf(c)[2]] >= RowOf(c)[1]
  BY <1>1, <1>2, <1>4 DEF Holds, RowOf
<1>6. /\ k \in ConsumerSet /\ k.pc \notin Delivering
      /\ k.pc = "idle" <=> k.msg = None
  BY <1>1, IdleType DEF ConsumerSet, Delivering
<1>7. outbox' = [outbox EXCEPT ![RowOf(c)] = row] /\ consumer' = [consumer EXCEPT ![c] = k]
  BY DEF Write, Set, Goto, Leave
<1>8. UNCHANGED <<sequence, complete, queue, todo, retrying, hub, faults>>
  BY DEF Write
<1> HIDE DEF row, k
<1> QED
  BY <1>1, <1>4, <1>5, <1>6, <1>7, <1>8, RowStep

\* The Hub has the assignment, or not, and the consumer takes it one way or the
\* other; it is never taken for delivered unless the Hub has it.
LEMMA HubStep ==
  ASSUME IInv, NEW c \in Consumers, consumer[c].pc = "post",
         NEW outcome \in {"done", "failed", "queued"}, Outcome(c, outcome),
         \/ hub' = hub /\ outcome # "done"
         \/ AcceptedByHub(c) /\ hub' = [hub EXCEPT ![RowOf(c)[2]] = RowOf(c)[1]],
         UNCHANGED <<sequence, complete, outbox, queue, todo, retrying>>,
         faults' \in 0..MaxFaults
  PROVE  IInv'
<1> USE DEF IInv
<1>0. PICK k : k = [consumer[c] EXCEPT !.pc = "mark", !.outcome = outcome]
  OBVIOUS
<1>1. /\ consumer[c] \in ConsumerSet /\ consumer[c].msg # None
      /\ consumer[c].pc \in Delivering
  BY DEF TypeOK, Delivering
<1>2. /\ k \in ConsumerSet /\ k.pc = "mark" /\ k.msg = consumer[c].msg
      /\ k.outcome = outcome
  BY <1>0, <1>1 DEF ConsumerSet
<1>3. consumer' = [consumer EXCEPT ![c] = k]
  BY <1>0 DEF Outcome
<1>4. /\ RowOf(c) \in Rows /\ RowOf(c) = <<RowOf(c)[1], RowOf(c)[2]>>
      /\ RowOf(c)[1] \in 1..MaxSequence /\ RowOf(c)[2] \in Employees
  BY BusyType DEF Rows
<1>5. hub' \in [Employees -> 0..MaxSequence]
  BY <1>4, PortalBounds DEF TypeOK
<1>6. TypeOK'
  BY <1>1, <1>2, <1>3, <1>5 DEF TypeOK
<1>7. Holds(consumer[c])
  BY HoldsAll
<1>8. outbox[RowOf(c)].status # "absent"
  BY <1>1, <1>7 DEF Holds, RowOf
<1>9. ASSUME NEW e \in Employees
      PROVE  /\ hub'[e] >= hub[e]
             /\ hub'[e] = hub[e] \/ outbox[<<hub'[e], e>>].status # "absent"
  <2>1. hub[e] \in Nat
    BY PortalBounds DEF TypeOK
  <2>2. CASE hub'[e] = hub[e]
    BY <2>1, <2>2
  <2>3. CASE hub'[e] # hub[e]
    <3>1. /\ e = RowOf(c)[2] /\ hub'[e] = RowOf(c)[1]
          /\ RowOf(c)[1] >= hub[e]
      BY <2>3, <1>4 DEF AcceptedByHub, TypeOK
    <3> QED
      BY <3>1, <1>4, <1>8
  <2> QED
    BY <2>2, <2>3
<1>10. outcome = "done" => hub'[RowOf(c)[2]] >= RowOf(c)[1]
  BY <1>4, PortalBounds DEF TypeOK
<1>11. Holds(k)'
  <2>1. k.msg.row = RowOf(c) /\ outbox' = outbox
    BY <1>2 DEF RowOf
  <2>2. /\ \/ outbox[RowOf(c)].status = "superseded"
           \/ outbox[RowOf(c)].status = "in_flight" /\ ~outbox[RowOf(c)].due
        /\ outbox[RowOf(c)].attempts = consumer[c].msg.attempts
    BY <1>1, <1>7 DEF Holds, RowOf
  <2> QED
    BY <1>2, <1>10, <2>1, <2>2 DEF Holds
<1>12. \A d \in Consumers \ {c} :
         consumer[d].pc \in Delivering => RowOf(d) # k.msg.row
  BY <1>1, <1>2 DEF OnePoster, RowOf
<1>13. /\ \A r \in Rows : outbox'[r].status = "done" => outbox[r].status = "done"
       /\ \A d \in Consumers : outbox'[RowOf(d)] = outbox[RowOf(d)]
       /\ \A r \in Rows : outbox[r].status # "absent" => outbox'[r].status # "absent"
  OBVIOUS
<1> QED
  BY <1>3, <1>6, <1>9, <1>11, <1>12, <1>13, ConsumerStep

LEMMA PostStep ==
  ASSUME IInv, NEW c \in Consumers, Post(c) \/ PostFails(c)
  PROVE  IInv'
<1>1. faults' \in 0..MaxFaults
  BY FaultType DEF IInv, TypeOK, Post, PostFails
<1> DEFINE at == RowOf(c)
           Kept     == hub' = hub
           Recorded == AcceptedByHub(c) /\ hub' = [hub EXCEPT ![at[2]] = at[1]]
<1>2. Post(c) => \/ Outcome(c, "done") /\ Recorded
                 \/ Outcome(c, "failed") /\ Kept
  BY DEF Post
<1>3. PostFails(c) => \/ Outcome(c, Transient(c)) /\ (Kept \/ Recorded)
                      \/ Outcome(c, "failed") /\ Kept
  BY DEF PostFails
<1>5. Transient(c) \in {"failed", "queued"}
  BY DEF Transient
<1>4. /\ consumer[c].pc = "post"
      /\ UNCHANGED <<sequence, complete, outbox, queue, todo, retrying>>
  BY DEF Post, PostFails
<1>6. \E outcome \in {"done", "failed", "queued"} :
        Outcome(c, outcome) /\ ((Kept /\ outcome # "done") \/ Recorded)
  <2> HIDE DEF Kept, Recorded
  <2> QED
    BY <1>2, <1>3, <1>5
<1> QED
  BY <1>1, <1>4, <1>6, HubStep

-----------------------------------------------------------------------------
LEMMA NextIInv == IInv /\ [Next]_vars => IInv'
<1> SUFFICES ASSUME IInv, [Next]_vars PROVE IInv'
  OBVIOUS
<1>1. CASE Command \/ Publish \/ Drain
  BY <1>1, CommandStep, PublishStep, OtherQuietStep
<1>2. CASE \E r \in Rows :
             AskRetry(r) \/ Retry(r) \/ Elapse(r) \/ Send(r) \/ SendFails(r)
  BY <1>2, OtherQuietStep, RetryStep, ElapseStep, SendStep
<1>3. CASE \E m \in BagToSet(queue) : Deliver(m) \/ Duplicate(m) \/ Discard(m)
  BY <1>3, MessageStep, TakeStep DEF Deliver
<1>4. CASE \E c \in Consumers : Step(c) \/ PostFails(c) \/ Fail(c)
  BY <1>4, SupersedeStep, ClaimStep, AttemptStep, PostStep, MarkStep, WriteStep,
     RequeueStep, FailStep DEF Step
<1>5. CASE UNCHANGED vars
  <2>1. TypeOK'
    BY <1>5 DEF IInv, TypeOK, vars
  <2> QED
    BY <1>5, <2>1, QueueStep DEF vars
<1> QED
  BY <1>1, <1>2, <1>3, <1>4, <1>5 DEF Next

LEMMA Invariant == Spec => []IInv
  BY InitIInv, NextIInv, PTL DEF Spec

\* The variables stay well typed; a busy consumer has a message in hand.
THEOREM TypeCorrect == Spec => []TypeOK
<1>1. IInv => TypeOK
  BY DEF IInv
<1> QED
  BY Invariant, <1>1, PTL

\* Two consumers never deliver the same row at the same time.
THEOREM PostersExclude == Spec => []OnePoster
<1>1. IInv => OnePoster
  BY DEF IInv
<1> QED
  BY Invariant, <1>1, PTL

\* What is marked as done is at the Hub, or a later publication is.
THEOREM DoneIsDelivered == Spec => []Delivered
<1>1. IInv => Delivered
  BY DEF IInv
<1> QED
  BY Invariant, <1>1, PTL

-----------------------------------------------------------------------------
(***************************************************************************)
(* The verdicts.  A step writes one row at most, but for a publication; a  *)
(* consumer writes a verdict to a row that it has claimed, so that no      *)
(* verdict is there yet, or a later publication has come in between.       *)
(***************************************************************************)
VerdictKept(r) ==
  /\ outbox[r].status = "superseded" => outbox'[r].status = "superseded"
  /\ outbox[r].status = "done" => outbox'[r].status \in {"done", "superseded"}
  /\ outbox[r].status = "failed" =>
       \/ outbox'[r].status \in {"failed", "superseded"}
       \/ outbox'[r].status = "queued" /\ outbox'[r].attempts = 0
  /\ outbox'[r].attempts < outbox[r].attempts =>
       outbox[r].status \in {"absent", "failed"}

LEMMA SameRow ==
  ASSUME TypeOK, NEW r \in Rows, outbox'[r] = outbox[r]
  PROVE  VerdictKept(r)
  BY DEF TypeOK, RowSet, VerdictKept

\* A row takes no attempt back, and no verdict that is not superseded.
LEMMA ChangedRow ==
  ASSUME NEW r \in Rows, outbox[r].attempts \in Nat,
         NEW row, row.attempts \in Nat, row.attempts >= outbox[r].attempts,
         \/ row.status = outbox[r].status
         \/ row.status = "superseded"
         \/ outbox[r].status \in {"queued", "in_flight"},
         outbox'[r] = row
  PROVE  VerdictKept(r)
  BY DEF VerdictKept

LEMMA WritesKeepVerdicts ==
  ASSUME IInv, NEW r \in Rows, NEW c \in Consumers,
         Supersede(c) \/ Claim(c) \/ Attempt(c) \/ Mark(c) \/ Write(c)
  PROVE  VerdictKept(r)
<1> USE DEF IInv
<1>8. CASE r # RowOf(c)
  <2>1. outbox'[r] = outbox[r]
    BY <1>8 DEF Supersede, Claim, Attempt, Mark, Write, Set, TypeOK
  <2> QED
    BY <2>1, SameRow
<1> SUFFICES ASSUME r = RowOf(c) PROVE VerdictKept(r)
  BY <1>8
<1> DEFINE old == outbox[r]
           n   == consumer[c].msg.attempts
<1>1. /\ consumer[c].pc # "idle" /\ RowOf(c) \in Rows /\ old \in RowSet /\ n \in Nat
      /\ old.attempts \in Nat
  BY BusyType DEF Supersede, Claim, Attempt, Mark, Write, RowSet
<1>2. Holds(consumer[c])
  BY HoldsAll
<1>3. CASE Supersede(c)
  <2> DEFINE row == [old EXCEPT !.status = "superseded"]
  <2>1. row \in RowSet /\ row.status = "superseded" /\ row.attempts = old.attempts
    BY <1>1 DEF RowSet, Terminal
  <2>2. outbox'[r] = row
    BY <1>3 DEF Supersede, Set, TypeOK
  <2> HIDE DEF row
  <2> QED
    BY <1>1, <2>1, <2>2, ChangedRow
<1>4. CASE Claim(c)
  <2> DEFINE row == [old EXCEPT !.status = "in_flight", !.due = FALSE]
  <2>1. row \in RowSet /\ row.status = "in_flight" /\ row.attempts = old.attempts
    BY <1>1 DEF RowSet
  <2>2. CASE Free(c)
    <3>1. old.status \in {"queued", "in_flight"}
      BY <2>2 DEF Free
    <3>2. outbox'[r] = row
      BY <1>4, <2>2 DEF Claim, Set, TypeOK
    <3> HIDE DEF row
    <3> QED
      BY <1>1, <2>1, <3>1, <3>2, ChangedRow
  <2>3. CASE ~Free(c)
    BY <1>4, <2>3, SameRow DEF Claim
  <2> QED
    BY <2>2, <2>3
<1>5. CASE Attempt(c)
  <2> DEFINE row == Written(c, "in_flight", n)
  <2>1. old.attempts = n /\ old.status \in {"superseded", "in_flight"}
    BY <1>2, <1>5 DEF Attempt, Holds, Delivering, RowOf
  <2>2. row \in RowSet /\ row.attempts = n /\ row.status = old.status
    BY <1>1, <2>1, WrittenType
  <2>3. outbox'[r] = row
    BY <1>5 DEF Attempt, Set, TypeOK
  <2> HIDE DEF row
  <2> QED
    BY <1>1, <2>1, <2>2, <2>3, ChangedRow
<1>6. CASE Mark(c)
  <2> DEFINE row == [old EXCEPT !.attempts = n + 1]
  <2>1. old.attempts = n
    BY <1>2, <1>6 DEF Mark, Holds, Delivering, RowOf
  <2>2. row \in RowSet /\ row.attempts = n + 1 /\ row.status = old.status
    BY <1>1 DEF RowSet
  <2>3. outbox'[r] = row
    BY <1>6 DEF Mark, Set, TypeOK
  <2> HIDE DEF row
  <2> QED
    BY <1>1, <2>1, <2>2, <2>3, ChangedRow
<1>7. CASE Write(c)
  <2> DEFINE row == Written(c, consumer[c].outcome, n + 1)
  <2>1. old.attempts = n + 1 /\ old.status \in {"superseded", "in_flight"}
    BY <1>2, <1>7 DEF Write, Holds, Delivering, RowOf
  <2>2. consumer[c].outcome \in {"queued", "in_flight"} \cup Terminal
    BY <1>2, <1>7 DEF Write, Holds, Delivering, TypeOK, ConsumerSet, Terminal
  <2>3. /\ row \in RowSet /\ row.attempts = n + 1
        /\ old.status = "superseded" => row.status = "superseded"
    <3>1. n + 1 \in Nat /\ outbox[RowOf(c)] \in RowSet
      BY <1>1
    <3>2. /\ row \in RowSet
          /\ row.status = IF old.status = "superseded" THEN "superseded"
                          ELSE consumer[c].outcome
          /\ row.attempts = IF old.status = "superseded" THEN old.attempts ELSE n + 1
      BY <2>2, <3>1, WrittenType, ZenonT(30)
    <3> HIDE DEF row
    <3> QED
      BY <2>1, <3>2
  <2>4. outbox'[r] = row
    BY <1>7 DEF Write, Set, TypeOK
  <2> HIDE DEF row
  <2> QED
    BY <1>1, <2>1, <2>3, <2>4, ChangedRow
<1> QED
  BY <1>3, <1>4, <1>5, <1>6, <1>7

LEMMA StepsKeepVerdicts ==
  ASSUME IInv, [Next]_vars, NEW r \in Rows
  PROVE  VerdictKept(r)
<1> USE DEF IInv
<1>1. CASE Publish
  <2>1. outbox[r] \in RowSet /\ outbox' = Published
    BY <1>1 DEF TypeOK, Publish
  <2>2. /\ [outbox[r] EXCEPT !.status = "superseded"].status = "superseded"
        /\ [outbox[r] EXCEPT !.status = "superseded"].attempts = outbox[r].attempts
    BY <2>1 DEF RowSet
  <2>3. \/ outbox'[r] = outbox[r]
        \/ outbox[r].status = "absent"
        \/ /\ outbox'[r].status = "superseded"
           /\ outbox'[r].attempts = outbox[r].attempts
    BY <2>1, <2>2, PublishedType
  <2> QED
    BY <2>1, <2>3, SameRow DEF VerdictKept, RowSet
<1>2. ASSUME NEW q \in Rows, Retry(q) PROVE VerdictKept(r)
  <2>1. CASE outbox[q].status = "failed" /\ q = r
    BY <1>2, <2>1 DEF Retry, VerdictKept, NewRow, TypeOK
  <2>2. CASE ~(outbox[q].status = "failed" /\ q = r)
    BY <1>2, <2>2, SameRow DEF Retry, TypeOK
  <2> QED
    BY <2>1, <2>2
<1>3. ASSUME NEW q \in Rows, Elapse(q) PROVE VerdictKept(r)
  <2>1. outbox[r] \in RowSet
    BY DEF TypeOK
  <2>2. CASE r = q
    <3> DEFINE row == [outbox[r] EXCEPT !.due = TRUE]
    <3>1. row \in RowSet /\ row.status = outbox[r].status /\ row.attempts = outbox[r].attempts
      BY <2>1 DEF RowSet
    <3>2. outbox'[r] = row
      BY <1>3, <2>2 DEF Elapse, TypeOK
    <3>3. outbox[r].attempts \in Nat
      BY <2>1 DEF RowSet
    <3> HIDE DEF row
    <3> QED
      BY <3>1, <3>2, <3>3, ChangedRow
  <2>3. CASE r # q
    BY <1>3, <2>3, SameRow DEF Elapse, TypeOK
  <2> QED
    BY <2>2, <2>3
<1>4. CASE \/ Command \/ Drain \/ UNCHANGED vars
           \/ \E q \in Rows : AskRetry(q) \/ Send(q) \/ SendFails(q)
           \/ \E m \in BagToSet(queue) : Deliver(m) \/ Duplicate(m) \/ Discard(m)
           \/ \E c \in Consumers : Post(c) \/ PostFails(c) \/ Requeue(c) \/ Fail(c)
  <2>1. outbox' = outbox
    BY <1>4 DEF Command, Drain, vars, AskRetry, Send, SendFails, Deliver, Skip, Take,
                Duplicate, Discard, Post, PostFails, Requeue, Fail
  <2> QED
    BY <2>1, SameRow
<1>5. ASSUME NEW c \in Consumers,
             Supersede(c) \/ Claim(c) \/ Attempt(c) \/ Mark(c) \/ Write(c)
      PROVE  VerdictKept(r)
  BY <1>5, WritesKeepVerdicts
<1> QED
  BY <1>1, <1>2, <1>3, <1>4, <1>5 DEF Next, Step

\* Superseded rows stay superseded, done rows done until then, failed rows wait
\* for an administrator, and no attempt is taken back.
THEOREM VerdictsKept == Spec => VerdictsFinal
<1>1. IInv /\ [Next]_vars => [\A r \in Rows : VerdictKept(r)]_vars
  BY StepsKeepVerdicts
<1>2. [\A r \in Rows : VerdictKept(r)]_vars =>
        [\A r \in Rows :
           /\ outbox[r].status = "superseded" => outbox'[r].status = "superseded"
           /\ outbox[r].status = "done" => outbox'[r].status \in {"done", "superseded"}
           /\ outbox[r].status = "failed" =>
                \/ outbox'[r].status \in {"failed", "superseded"}
                \/ outbox'[r].status = "queued" /\ outbox'[r].attempts = 0
           /\ outbox'[r].attempts < outbox[r].attempts =>
                outbox[r].status \in {"absent", "failed"}]_vars
  BY DEF VerdictKept
<1> QED
  BY Invariant, <1>1, <1>2, PTL DEF Spec, VerdictsFinal
=============================================================================
