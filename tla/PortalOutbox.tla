---------------------------- MODULE PortalOutbox ----------------------------
(***************************************************************************)
(* The publication of final assignments to the member portal (the Hub).    *)
(* An administrator publishes a completed canonical sequence: one durable  *)
(* row per employee in D1.  Messages that name a row travel through a      *)
(* Queue that delivers them at least once and in any order; consumers      *)
(* claim the row, post its assignment and record what became of it.  A     *)
(* daily cron sends a message again for every row that is due.  Meanwhile  *)
(* audited corrections move the session to the next sequence, which makes  *)
(* everything published before it stale.                                   *)
(*                                                                         *)
(* The module models one Real session.  Of a row's next_attempt_at it      *)
(* keeps whether that time has come.                                       *)
(***************************************************************************)
EXTENDS Naturals, Bags

CONSTANTS
  Employees,     \* the employees of a publication
  MaxSequence,   \* bound on the canonical sequence
  Consumers,     \* the queue consumers that may run at the same time
  MaxAttempts,   \* RETRY_MAX_ATTEMPTS
  QueueRetries,  \* max_retries of the queue
  MaxMessages,   \* bound on the messages a drain adds to the queue
  MaxFaults,     \* bound on crashes, failed calls, lost answers and messages
  None           \* no message in hand

ASSUME PortalBounds ==
  /\ MaxSequence \in Nat /\ MaxAttempts \in Nat /\ QueueRetries \in Nat
  /\ MaxMessages \in Nat /\ MaxFaults \in Nat

Rows == (1..MaxSequence) \X Employees

\* A message names its row and carries the attempts the row had; tries counts
\* the platform's own redeliveries.
Messages == [row: Rows, attempts: Nat, tries: 0..QueueRetries]

ASSUME NoneIsNoMessage == None \notin Messages

VARIABLES
  sequence,   \* canonical_bid_session_state.current_seq
  complete,   \* currentPhase = 'complete'
  outbox,     \* final_portal_outbox: [status, attempts, due]
  queue,      \* PORTAL_QUEUE, a bag of messages
  todo,       \* rows that drains have selected and not sent yet
  retrying,   \* rows an administrator was shown as failed and current
  consumer,   \* the local state of each consumer: [pc, msg, outcome]
  hub,        \* per employee, the sequence of the assignment the Hub holds
  faults      \* faults so far

vars == <<sequence, complete, outbox, queue, todo, retrying, consumer, hub, faults>>

Absent   == [status |-> "absent", attempts |-> 0, due |-> FALSE]
NewRow   == [status |-> "queued", attempts |-> 0, due |-> TRUE]
Idle     == [pc |-> "idle", msg |-> None, outcome |-> "none"]
Terminal == {"done", "failed", "superseded"}

Init ==
  /\ sequence = 0 /\ complete = FALSE
  /\ outbox = [r \in Rows |-> Absent]
  /\ queue = EmptyBag
  /\ todo = {} /\ retrying = {}
  /\ consumer = [c \in Consumers |-> Idle]
  /\ hub = [e \in Employees |-> 0]
  /\ faults = 0

Fault == faults < MaxFaults /\ faults' = faults + 1

Stale(r) == r[1] # sequence

-----------------------------------------------------------------------------
(* The session and its administrator *)

\* An accepted canonical command.  Commands are still accepted after the
\* session is complete; some of them reopen it.
Command ==
  /\ sequence < MaxSequence
  /\ sequence' = sequence + 1
  /\ complete' \in BOOLEAN
  /\ UNCHANGED <<outbox, queue, todo, retrying, consumer, hub, faults>>

\* status IN ('queued', 'in_flight') AND next_attempt_at <= now
DueIn(rows) == {r \in Rows : rows[r].status \in {"queued", "in_flight"} /\ rows[r].due}

\* INSERT OR IGNORE of the rows, and the UPDATE of those of older sequences
Published ==
  [r \in Rows |->
     IF r[1] = sequence /\ outbox[r].status = "absent" THEN NewRow
     ELSE IF r[1] < sequence /\ outbox[r].status # "absent"
     THEN [outbox[r] EXCEPT !.status = "superseded"]
     ELSE outbox[r]]

\* One batch, which the guard of final_portal_publications aborts unless the
\* reviewed sequence is current and complete; then a drain.
Publish ==
  /\ sequence > 0 /\ complete
  /\ outbox' = Published
  /\ todo' = todo \cup DueIn(Published)
  /\ UNCHANGED <<sequence, complete, queue, retrying, consumer, hub, faults>>

\* portal-final-retry reads the row ...
AskRetry(r) ==
  /\ outbox[r].status = "failed" /\ ~Stale(r)
  /\ retrying' = retrying \cup {r}
  /\ UNCHANGED <<sequence, complete, outbox, queue, todo, consumer, hub, faults>>

\* ... and writes it in a later batch, if it has failed still; then a drain.
Retry(r) ==
  /\ r \in retrying
  /\ retrying' = retrying \ {r}
  /\ LET rows == IF outbox[r].status = "failed"
                 THEN [outbox EXCEPT ![r] = NewRow]
                 ELSE outbox
     IN  outbox' = rows /\ todo' = todo \cup DueIn(rows)
  /\ UNCHANGED <<sequence, complete, queue, consumer, hub, faults>>

-----------------------------------------------------------------------------
(* Time, the drains and the queue *)

\* A consumer is done with a row before the claim it took expires: a batch of
\* 20 messages with posts of at most 10 seconds ends within the 300 seconds.
Handled(r) == \E c \in Consumers : consumer[c].pc # "idle" /\ consumer[c].msg.row = r

\* The time of the next attempt comes, or a claim that was left behind expires.
Elapse(r) ==
  /\ outbox[r].status \in {"queued", "in_flight"} /\ ~outbox[r].due
  /\ outbox[r].status = "in_flight" => ~Handled(r)
  /\ outbox' = [outbox EXCEPT ![r].due = TRUE]
  /\ UNCHANGED <<sequence, complete, queue, todo, retrying, consumer, hub, faults>>

\* Mutant: rows that were claimed are never looked at again.
DrainQueued ==
  LET due == {r \in DueIn(outbox) : outbox[r].status = "queued"}
  IN  /\ due # {} /\ todo' = todo \cup due
      /\ UNCHANGED <<sequence, complete, outbox, queue, retrying, consumer, hub, faults>>

\* The daily cron: the SELECT of drainFinalOutbox.
Drain ==
  /\ DueIn(outbox) # {}
  /\ todo' = todo \cup DueIn(outbox)
  /\ UNCHANGED <<sequence, complete, outbox, queue, retrying, consumer, hub, faults>>

Sent(m) == queue (+) SetToBag({m})
Less(m) == queue (-) SetToBag({m})

\* Each selected row is read again and sent with the attempts it has now.
Send(r) ==
  /\ r \in todo
  /\ BagCardinality(queue) < MaxMessages
  /\ todo' = todo \ {r}
  /\ queue' = Sent([row |-> r, attempts |-> outbox[r].attempts, tries |-> 0])
  /\ UNCHANGED <<sequence, complete, outbox, retrying, consumer, hub, faults>>

\* A send that fails is left to the cron.
SendFails(r) ==
  /\ r \in todo /\ Fault
  /\ todo' = todo \ {r}
  /\ UNCHANGED <<sequence, complete, outbox, queue, retrying, consumer, hub>>

\* The queue delivers a message twice.
Duplicate(m) ==
  /\ Fault
  /\ queue' = Sent(m)
  /\ UNCHANGED <<sequence, complete, outbox, todo, retrying, consumer, hub>>

\* A Worker with publication disabled acknowledges what it is given.
Discard(m) ==
  /\ Fault
  /\ queue' = Less(m)
  /\ UNCHANGED <<sequence, complete, outbox, todo, retrying, consumer, hub>>

-----------------------------------------------------------------------------
(* The consumers: claimFinalMessage, then handleMessage *)

\* What the row a message names asks for, as the consumer reads it
Overtaken(m) == Stale(m.row) /\ outbox[m.row].status # "superseded"
Claimable(m) ==
  /\ ~Stale(m.row) /\ outbox[m.row].status \notin Terminal
  /\ m.attempts = outbox[m.row].attempts

\* Nothing is left to do for the row, or another message has it: acknowledged.
Skip(m) ==
  /\ ~Overtaken(m) /\ ~Claimable(m)
  /\ queue' = Less(m)
  /\ UNCHANGED <<sequence, complete, outbox, todo, retrying, consumer, hub, faults>>

Take(c, m) ==
  /\ consumer[c].pc = "idle"
  /\ Overtaken(m) \/ Claimable(m)
  /\ queue' = Less(m)
  /\ consumer' = [consumer EXCEPT ![c] =
                    [pc |-> IF Overtaken(m) THEN "supersede" ELSE "claim",
                     msg |-> m, outcome |-> "none"]]
  /\ UNCHANGED <<sequence, complete, outbox, todo, retrying, hub, faults>>

Goto(c, pc)  == consumer' = [consumer EXCEPT ![c].pc = pc]
Leave(c)     == consumer' = [consumer EXCEPT ![c] = Idle]
RowOf(c)     == consumer[c].msg.row
Set(c, row)  == outbox' = [outbox EXCEPT ![RowOf(c)] = row]

Supersede(c) ==
  /\ consumer[c].pc = "supersede"
  /\ Set(c, [outbox[RowOf(c)] EXCEPT !.status = "superseded"])
  /\ Leave(c)
  /\ UNCHANGED <<sequence, complete, queue, todo, retrying, hub, faults>>

\* Mutant: a claimed row is claimed again before the claim has expired.
FreeAnyTime(c) ==
  LET row == outbox[RowOf(c)]
  IN  /\ row.status \in {"queued", "in_flight"}
      /\ row.attempts = consumer[c].msg.attempts
      /\ ~Stale(RowOf(c))

\* The WHERE of the UPDATE that claims the row
Free(c) ==
  LET row == outbox[RowOf(c)]
  IN  /\ row.status = "queued" \/ (row.status = "in_flight" /\ row.due)
      /\ row.attempts = consumer[c].msg.attempts
      /\ ~Stale(RowOf(c))

Claim(c) ==
  /\ consumer[c].pc = "claim"
  /\ IF Free(c)
     THEN /\ Set(c, [outbox[RowOf(c)] EXCEPT !.status = "in_flight", !.due = FALSE])
          /\ Goto(c, "attempt")
     ELSE Leave(c) /\ UNCHANGED outbox
  /\ UNCHANGED <<sequence, complete, queue, todo, retrying, hub, faults>>

\* Mutant: the status of a superseded row is overwritten.
WrittenAnyway(c, status, attempts) ==
  [outbox[RowOf(c)] EXCEPT !.status = status, !.attempts = attempts]

\* updateQueueRow of finalConsumerDeps: ... WHERE id = ? AND status <> 'superseded'
Written(c, status, attempts) ==
  LET row == outbox[RowOf(c)]
  IN  IF row.status = "superseded" THEN row
      ELSE [row EXCEPT !.status = status, !.attempts = attempts]

Attempt(c) ==
  /\ consumer[c].pc = "attempt"
  /\ Set(c, Written(c, "in_flight", consumer[c].msg.attempts))
  /\ Goto(c, "post")
  /\ UNCHANGED <<sequence, complete, queue, todo, retrying, hub, faults>>

Outcome(c, outcome) ==
  consumer' = [consumer EXCEPT ![c].pc = "mark", ![c].outcome = outcome]

\* Mutant: an answer that is not understood counts as success.
TransientSynced(c) == "done"

\* nextAttempt: how a transient failure goes on
Transient(c) ==
  IF consumer[c].msg.attempts + 1 > MaxAttempts THEN "failed" ELSE "queued"

\* Whether the Hub takes or has the assignment: a newer sequence is kept and
\* an older one is a conflict; 409 counts with the code already_recorded only.
AcceptedByHub(c) == RowOf(c)[1] >= hub[RowOf(c)[2]]

Post(c) ==
  /\ consumer[c].pc = "post"
  /\ IF AcceptedByHub(c)
     THEN Outcome(c, "done") /\ hub' = [hub EXCEPT ![RowOf(c)[2]] = RowOf(c)[1]]
     ELSE Outcome(c, "failed") /\ UNCHANGED hub
  /\ UNCHANGED <<sequence, complete, outbox, queue, todo, retrying, faults>>

\* 5xx, a timeout or a network error, before or after the Hub has recorded the
\* assignment; or a refusal (4xx).
PostFails(c) ==
  /\ consumer[c].pc = "post" /\ Fault
  /\ \/ Outcome(c, Transient(c)) /\ UNCHANGED hub
     \/ /\ AcceptedByHub(c)
        /\ Outcome(c, Transient(c)) /\ hub' = [hub EXCEPT ![RowOf(c)[2]] = RowOf(c)[1]]
     \/ Outcome(c, "failed") /\ UNCHANGED hub
  /\ UNCHANGED <<sequence, complete, outbox, queue, todo, retrying>>

\* markBidSynced, markBidFailed, incrementAttempts: the attempts of the row,
\* also of a superseded one
Mark(c) ==
  /\ consumer[c].pc = "mark"
  /\ Set(c, [outbox[RowOf(c)] EXCEPT !.attempts = consumer[c].msg.attempts + 1])
  /\ Goto(c, "write")
  /\ UNCHANGED <<sequence, complete, queue, todo, retrying, hub, faults>>

Write(c) ==
  /\ consumer[c].pc = "write"
  /\ Set(c, Written(c, consumer[c].outcome, consumer[c].msg.attempts + 1))
  /\ IF consumer[c].outcome = "queued" THEN Goto(c, "requeue") ELSE Leave(c)
  /\ UNCHANGED <<sequence, complete, queue, todo, retrying, hub, faults>>

Requeue(c) ==
  /\ consumer[c].pc = "requeue"
  /\ queue' = Sent([row |-> RowOf(c), attempts |-> consumer[c].msg.attempts + 1, tries |-> 0])
  /\ Leave(c)
  /\ UNCHANGED <<sequence, complete, outbox, todo, retrying, hub, faults>>

\* A call throws or the consumer dies: the queue delivers the message again,
\* or moves it to the dead letters.
Fail(c) ==
  /\ consumer[c].pc # "idle" /\ Fault
  /\ LET m == consumer[c].msg
     IN  queue' = IF m.tries = QueueRetries THEN queue
                  ELSE Sent([m EXCEPT !.tries = @ + 1])
  /\ Leave(c)
  /\ UNCHANGED <<sequence, complete, outbox, todo, retrying, hub>>

-----------------------------------------------------------------------------
Step(c) ==
  \/ Supersede(c) \/ Claim(c) \/ Attempt(c) \/ Post(c)
  \/ Mark(c) \/ Write(c) \/ Requeue(c)

Deliver(m) == Skip(m) \/ \E c \in Consumers : Take(c, m)

Next ==
  \/ Command \/ Publish \/ Drain
  \/ \E r \in Rows :
       AskRetry(r) \/ Retry(r) \/ Elapse(r) \/ Send(r) \/ SendFails(r)
  \/ \E m \in BagToSet(queue) : Deliver(m) \/ Duplicate(m) \/ Discard(m)
  \/ \E c \in Consumers : Step(c) \/ PostFails(c) \/ Fail(c)

Spec == Init /\ [][Next]_vars

(***************************************************************************)
(* Fairness: time passes, the cron comes every day, a drain goes through   *)
(* its rows, the queue delivers, and a consumer that was not stopped goes  *)
(* on.  Nobody has to publish, to correct or to ask for a retry.           *)
(***************************************************************************)
Fairness ==
  /\ WF_vars(Drain)
  /\ \A r \in Rows : WF_vars(Elapse(r)) /\ WF_vars(Send(r))
  /\ WF_vars(\E m \in BagToSet(queue) : Deliver(m))
  /\ \A c \in Consumers : WF_vars(Step(c))

FairSpec == Spec /\ Fairness

-----------------------------------------------------------------------------
RowSet      == [status: {"absent", "queued", "in_flight"} \cup Terminal,
                attempts: Nat, due: BOOLEAN]
ConsumerSet == [pc: {"idle", "supersede", "claim", "attempt", "post", "mark", "write", "requeue"},
                msg: Messages \cup {None}, outcome: {"none", "done", "failed", "queued"}]

\* A consumer has a message in hand exactly while it is busy.
TypeOK ==
  /\ sequence \in 0..MaxSequence /\ complete \in BOOLEAN
  /\ outbox \in [Rows -> RowSet]
  /\ BagToSet(queue) \subseteq Messages
  /\ todo \subseteq Rows /\ retrying \subseteq Rows
  /\ consumer \in [Consumers -> ConsumerSet]
  /\ \A c \in Consumers : consumer[c].pc = "idle" <=> consumer[c].msg = None
  /\ hub \in [Employees -> 0..MaxSequence]
  /\ faults \in 0..MaxFaults

\* No two consumers deliver the same row at the same time, however often its
\* message was sent, redelivered or duplicated.
Delivering == {"attempt", "post", "mark", "write"}

OnePoster ==
  \A c, d \in Consumers :
    /\ c # d /\ consumer[c].pc \in Delivering /\ consumer[d].pc \in Delivering
    => RowOf(c) # RowOf(d)

\* A row that says done has its assignment, or one of a later publication, at
\* the Hub; the Hub never has an assignment nobody published.
Delivered ==
  /\ \A r \in Rows : outbox[r].status = "done" => hub[r[2]] >= r[1]
  /\ \A e \in Employees : hub[e] > 0 => outbox[<<hub[e], e>>].status # "absent"

\* What became of a row is final: superseded for good, done until superseded,
\* failed until an administrator gives it a new budget; late answers, old
\* messages and interrupted consumers take nothing back and refund no attempts.
VerdictsFinal ==
  [][\A r \in Rows :
       /\ outbox[r].status = "superseded" => outbox'[r].status = "superseded"
       /\ outbox[r].status = "done" => outbox'[r].status \in {"done", "superseded"}
       /\ outbox[r].status = "failed" =>
            \/ outbox'[r].status \in {"failed", "superseded"}
            \/ outbox'[r].status = "queued" /\ outbox'[r].attempts = 0
       /\ outbox'[r].attempts < outbox[r].attempts =>
            outbox[r].status \in {"absent", "failed"}]_vars

\* No row is forgotten: it is delivered, given up or superseded in the end,
\* whatever messages and consumers were lost.
EventuallySettled ==
  \A r \in Rows :
    outbox[r].status \in {"queued", "in_flight"} ~> outbox[r].status \in Terminal

=============================================================================
