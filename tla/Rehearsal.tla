----------------------------- MODULE Rehearsal -----------------------------
(***************************************************************************)
(* The direct commands of a mock session that has no canonical state:      *)
(* auto-bid and manual-pick (routes/admin/rehearsal.ts) with their         *)
(* receipts, their recovery and the lease they run under, beside the       *)
(* session controls and close-mock.                                        *)
(*                                                                         *)
(* A command is one D1 batch: it reserves the receipt of the idempotency   *)
(* key, inserts the bids with their audit rows, advances the session if    *)
(* its revision is the one the administrator reviewed, and completes the   *)
(* receipt.  A Worker may stop waiting for a batch that D1 executes later  *)
(* (flights); it may also die with the lease.                              *)
(***************************************************************************)
EXTENDS Naturals, FiniteSets, Sequences

CONSTANTS
  Order,        \* computeBidOrder: the members in the order they bid
  Rules,        \* coverage.rules: the biddable positions in the rules' order
  Eligible,     \* evaluateEligibility: {<<member, position>>}
  Keys,         \* Idempotency-Key
  Requests,
  Workers,      \* Worker invocations
  MissLimit,    \* members without an eligible position that end an auto-bid
  LateBatches,  \* D1 may execute a batch that nobody waits for
  MaxFaults,    \* bound on lost answers, failed calls and crashes
  MaxRevision,  \* bound on the session controls
  None          \* SQL NULL

Members == {Order[i] : i \in DOMAIN Order}
Seats   == {Rules[i] : i \in DOMAIN Rules}
Phases  == {"config", "position_bid", "paused", "complete"}

RequestShape ==
  [key: Keys, op: {"auto_bid", "manual_pick"}, expected: Nat, count: Nat,
   member: Members \cup {None}, seat: Seats \cup {None}, force: BOOLEAN]

ASSUME RehearsalAssumption ==
  /\ Requests \subseteq RequestShape
  /\ \A r \in Requests : r.op = "manual_pick" => r.member # None /\ r.seat # None
  /\ Eligible \subseteq Members \X Seats
  /\ LateBatches \in BOOLEAN
  /\ MissLimit \in Nat \ {0} /\ MaxFaults \in Nat /\ MaxRevision \in Nat
  /\ None \notin Keys \cup Members \cup Seats \cup Workers \cup Requests

ASSUME ArrayAssumption == Order \in Seq(Members) /\ Rules \in Seq(Seats)

\* request_fingerprint: everything but the key
Fingerprint(r) == [r EXCEPT !.key = None]

VARIABLES
  (* D1 *)
  session,    \* bid_sessions: [phase, bidder, revision]
  order,      \* bid_order rows of the session exist
  sealed,     \* canonical_bid_session_state has a row
  bids,       \* bids with their audit rows: {[id, member, seat, audited]}
  receipts,   \* mock_rehearsal_command_receipts by key: [req, done, answer]
  recoveries, \* mock_rehearsal_command_recovery_outcomes: None or answer
  flights,    \* batches that were sent and are no longer waited for
  (* the Workers and their clients *)
  lease,      \* the normal mutation lease, kept by the Durable Object
  workers,    \* [pc, req, kind, seen, batch, answer]
  answers,    \* every answer given that is meant to be final
  faults,
  late        \* D1 has executed a batch that nobody waited for

vars == <<session, order, sealed, bids, receipts, recoveries, flights, lease,
          workers, answers, faults, late>>
tables == <<session, order, sealed, bids, receipts, recoveries>>

Fault == faults < MaxFaults /\ faults' = faults + 1

Final == {"applied", "recovered", "rehearsal_command_recovery_required"}

Answer(r, code, picked) == [req |-> r, code |-> code, picked |-> picked]
Refusal(r, code) == Answer(r, code, {})

ASSUME NullIsNoAnswer ==
  \A r \in Requests : None # Refusal(r, "rehearsal_command_recovery_required")

Idle == [pc |-> "idle", req |-> None, kind |-> None, seen |-> None,
         batch |-> None, answer |-> None]

BidOf(r, i, m, p, audited) ==
  [id |-> <<Fingerprint(r), i>>, member |-> m, seat |-> p, audited |-> audited]

BidsOf(r) == {b \in bids : b.id[1] = Fingerprint(r)}
Taken     == {b.seat : b \in bids}

NoReceipt  == [req |-> None, done |-> FALSE, answer |-> None]
Receipt(r) == [req |-> r, done |-> FALSE, answer |-> None]
Completed(r, answer) == [req |-> r, done |-> TRUE, answer |-> answer]

-----------------------------------------------------------------------------
(* The plan of a command, computed before anything is written.             *)

PlaceOf(m) == CHOOSE i \in DOMAIN Order : Order[i] = m
After(m)   == IF PlaceOf(m) < Len(Order) THEN Order[PlaceOf(m) + 1] ELSE None

\* The positions m could take, the first of the rules among them.
Open(m, taken)  == {i \in DOMAIN Rules : Rules[i] \notin taken /\ <<m, Rules[i]>> \in Eligible}
First(m, taken) == Rules[CHOOSE i \in Open(m, taken) : \A j \in Open(m, taken) : i <= j]

\* One round of the loop of auto-bid; index numbers the rounds.
Round(r, plan, index) ==
  LET m     == plan.bidder
      taken == Taken \cup {b.seat : b \in plan.bids}
  IN CASE plan.over -> plan
       [] ~plan.over /\ m = None -> [plan EXCEPT !.over = TRUE, !.phase = "complete"]
       [] ~plan.over /\ m # None /\ Open(m, taken) = {} ->
            [plan EXCEPT !.misses = @ + 1,
                         !.over   = plan.misses + 1 >= MissLimit,
                         !.bidder = IF plan.misses + 1 >= MissLimit THEN m ELSE After(m)]
       [] OTHER ->
            [plan EXCEPT !.misses = 0,
                         !.bids   = @ \cup {BidOf(r, index, m, First(m, taken), TRUE)},
                         !.bidder = After(m),
                         !.over   = After(m) = None,
                         !.phase  = IF After(m) = None THEN "complete" ELSE @]

\* An auto-bid that finds no order, no bidder or a session in config begins
\* with the first member.
Bootstrapped(seen) == ~order \/ seen.phase = "config" \/ seen.bidder = None

AutoPlan(r, seen) ==
  LET begin == [bidder |-> IF Bootstrapped(seen) THEN Order[1] ELSE seen.bidder,
                phase  |-> IF Bootstrapped(seen) THEN "position_bid" ELSE seen.phase,
                bids   |-> {}, misses |-> 0, over |-> FALSE]
      after[i \in 0 .. r.count] ==
        IF i = 0 THEN begin ELSE Round(r, after[i - 1], i - 1)
  IN after[r.count]

\* A manual pick moves the clock only if its member is on it.
ManualPlan(r, seen) ==
  [bidder |-> IF seen.bidder = r.member /\ order THEN After(r.member) ELSE seen.bidder,
   phase  |-> seen.phase,
   bids   |-> {BidOf(r, 0, r.member, r.seat, TRUE)}]

-----------------------------------------------------------------------------
(* The batch.                                                              *)

BatchOf(r, kind, seen) ==
  LET plan == IF r.op = "auto_bid" THEN AutoPlan(r, seen) ELSE ManualPlan(r, seen)
  IN [req |-> r, reserve |-> kind = "new", seed |-> r.op = "auto_bid" /\ ~order,
      bids |-> plan.bids, phase |-> plan.phase, bidder |-> plan.bidder,
      answer |-> Answer(r, "applied", plan.bids)]

\* UPDATE bid_sessions ... AND mock_control_revision = ? AND NOT EXISTS canonical
Advances(b) == session.revision = b.req.expected /\ ~sealed

RevisionAfter(b) == IF Advances(b) THEN session.revision + 1 ELSE session.revision

\* The receipt that is pending when the last statement of the batch runs.
Completes(b) ==
  b.reserve \/ (receipts[b.req.key] # NoReceipt /\ ~receipts[b.req.key].done)

\* Mutant: a reserved key is reserved again.
BatchAllowedAgain(b) ==
  /\ b.seed => ~order
  /\ b.seed \/ b.bids # {} => ~sealed
  /\ Completes(b) => RevisionAfter(b) = b.req.expected + 1

\* Mutant: migration 0022 has no triggers on these tables.
BatchAllowedUnsealed(b) ==
  /\ b.reserve => receipts[b.req.key] = NoReceipt
  /\ b.seed => ~order
  /\ \A x \in b.bids, y \in bids : x.id # y.id
  /\ Completes(b) => RevisionAfter(b) = b.req.expected + 1

\* The primary keys, the UNIQUE idempotency key of a bid, the triggers of
\* migration 0022, and the CHECK that the completion runs into.
BatchAllowed(b) ==
  /\ b.reserve => receipts[b.req.key] = NoReceipt
  /\ b.seed => ~order
  /\ \A x \in b.bids, y \in bids : x.id # y.id
  /\ b.seed \/ b.bids # {} => ~sealed
  /\ Completes(b) => RevisionAfter(b) = b.req.expected + 1

Execute(b) ==
  /\ BatchAllowed(b)
  /\ order' = (order \/ b.seed)
  /\ bids' = bids \cup b.bids
  /\ session' = IF Advances(b)
                THEN [phase |-> b.phase, bidder |-> b.bidder, revision |-> session.revision + 1]
                ELSE session
  /\ receipts' = [receipts EXCEPT ![b.req.key] =
                    IF Completes(b) THEN Completed(b.req, b.answer) ELSE @]
  /\ UNCHANGED <<sealed, recoveries>>

-----------------------------------------------------------------------------
(* What an older program may have left behind: a receipt that is pending,   *)
(* with nothing of its command done, or with its bid and the revision but   *)
(* perhaps not the audit row.                                               *)

Historic(r) ==
  LET m == IF r.op = "auto_bid" THEN Order[1] ELSE r.member
      p == IF r.op = "auto_bid" THEN First(m, {}) ELSE r.seat
  IN /\ r.op = "auto_bid" => Open(m, {}) # {}
     /\ receipts = [k \in Keys |-> IF k = r.key THEN Receipt(r) ELSE NoReceipt]
     /\ \/ session.revision = r.expected /\ bids = {}
        \/ /\ session.revision = r.expected + 1
           /\ \E audited \in BOOLEAN : bids = {BidOf(r, 0, m, p, audited)}

Init ==
  /\ order \in BOOLEAN
  /\ session \in [phase: IF order THEN {"position_bid"} ELSE {"config"},
                  bidder: IF order THEN {Order[1]} ELSE {None},
                  revision: 0 .. 1]
  /\ \/ /\ session.revision = 0 /\ bids = {}
        /\ receipts = [k \in Keys |-> NoReceipt]
     \/ \E r \in Requests : Historic(r)
  /\ sealed = FALSE
  /\ recoveries = [k \in Keys |-> None]
  /\ flights = {}
  /\ lease = None
  /\ workers = [w \in Workers |-> Idle]
  /\ answers = {}
  /\ faults = 0
  /\ late = FALSE

-----------------------------------------------------------------------------
(* inspectMockRehearsalReceipt *)

Inspected(r) ==
  IF receipts[r.key] = NoReceipt THEN "new"
  ELSE IF receipts[r.key].req # r THEN "conflict"
  ELSE IF recoveries[r.key] # None \/ receipts[r.key].done THEN "replay"
  ELSE "pending"

Replayed(r) ==
  IF receipts[r.key] = NoReceipt \/ receipts[r.key].req # r
  THEN Refusal(r, "rehearsal_idempotency_key_reused")
  ELSE IF recoveries[r.key] # None THEN recoveries[r.key] ELSE receipts[r.key].answer

Settled(r) == Inspected(r) \in {"replay", "conflict"}

\* The answer is given when the lease is back.
Leave(w, answer) ==
  workers' = [workers EXCEPT ![w] = [Idle EXCEPT !.pc = "release", !.answer = answer]]

Goto(w, pc) == workers' = [workers EXCEPT ![w].pc = pc]

Eligibly(r) == r.op = "manual_pick" /\ ~r.force => <<r.member, r.seat>> \in Eligible

Tell(answer) ==
  answers' = answers \cup {a \in {answer} : a.code \in Final}

\* A request that is settled is answered without the lease.  Canonical state,
\* an ineligible member and a taken lease turn the others away.
AnswerSettled(r) ==
  /\ Settled(r)
  /\ Tell(Replayed(r))
  /\ UNCHANGED <<tables, flights, lease, workers, faults, late>>

\* Mutant: the lease is not asked for.
SubmitUnleased(w, r) ==
  /\ workers[w].pc = "idle"
  /\ ~Settled(r) /\ ~sealed /\ Eligibly(r)
  /\ lease' = w
  /\ workers' = [workers EXCEPT ![w] = [Idle EXCEPT !.pc = "inspect", !.req = r]]
  /\ UNCHANGED <<tables, flights, answers, faults, late>>

Submit(w, r) ==
  /\ workers[w].pc = "idle"
  /\ ~Settled(r) /\ ~sealed /\ Eligibly(r)
  /\ lease = None
  /\ lease' = w
  /\ workers' = [workers EXCEPT ![w] = [Idle EXCEPT !.pc = "inspect", !.req = r]]
  /\ UNCHANGED <<tables, flights, answers, faults, late>>

\* Everything is looked at again under the lease.
InspectAgain(w) ==
  /\ workers[w].pc = "inspect"
  /\ LET r == workers[w].req
     IN IF Settled(r) THEN Leave(w, Replayed(r))
        ELSE workers' = [workers EXCEPT ![w].pc = "check", ![w].kind = Inspected(r)]
  /\ UNCHANGED <<tables, flights, lease, answers, faults, late>>

Check(w) ==
  /\ workers[w].pc = "check"
  /\ LET r == workers[w].req
     IN CASE sealed -> Leave(w, Refusal(r, "canonical_mutation_requires_command"))
          [] ~sealed /\ session.revision # r.expected ->
               IF workers[w].kind = "pending" THEN Goto(w, "recover")
               ELSE Leave(w, Refusal(r, "stale_mock_control_revision"))
          [] ~sealed /\ session.revision = r.expected
             /\ r.op = "auto_bid" /\ session.phase = "complete" ->
               Leave(w, Refusal(r, "complete"))
          [] OTHER ->
               workers' = [workers EXCEPT ![w].pc = "plan", ![w].seen = session]
  /\ UNCHANGED <<tables, flights, lease, answers, faults, late>>

\* Mutant: bids alone are evidence enough.
EvidenceOfBids(r) == BidsOf(r) # {}

\* The bids of the command are there, all audited, and so is its revision.
Evidence(r) ==
  /\ session.revision = r.expected + 1
  /\ BidsOf(r) # {} /\ \A b \in BidsOf(r) : b.audited

\* recoverPendingMock...Receipt: a pending receipt becomes final.
Recover(w) ==
  /\ workers[w].pc = "recover"
  /\ LET r == workers[w].req
     IN CASE session.revision = r.expected ->
               /\ Leave(w, Refusal(r, "stale_mock_control_revision"))
               /\ UNCHANGED <<receipts, recoveries>>
          [] session.revision # r.expected /\ Inspected(r) # "pending" ->
               /\ Leave(w, Refusal(r, "uncaught"))
               /\ UNCHANGED <<receipts, recoveries>>
          [] OTHER ->
               IF Evidence(r)
               THEN LET answer == Answer(r, "recovered", BidsOf(r))
                    IN /\ receipts' = [receipts EXCEPT ![r.key] = Completed(r, answer)]
                       /\ UNCHANGED recoveries
                       /\ Leave(w, answer)
               ELSE LET answer == Refusal(r, "rehearsal_command_recovery_required")
                    IN /\ recoveries' = [recoveries EXCEPT ![r.key] = answer]
                       /\ UNCHANGED receipts
                       /\ Leave(w, answer)
  /\ UNCHANGED <<session, order, sealed, bids, flights, lease, answers, faults, late>>

Plan(w) ==
  /\ workers[w].pc = "plan"
  /\ LET r == workers[w].req
     IN IF r.op = "manual_pick" /\ r.seat \in Taken
        THEN Leave(w, Refusal(r, "position_already_filled"))
        ELSE workers' = [workers EXCEPT ![w].pc = "sent", ![w].seen = None,
                           ![w].batch = BatchOf(r, workers[w].kind, workers[w].seen)]
  /\ UNCHANGED <<tables, flights, lease, answers, faults, late>>

Commit(w) ==
  /\ workers[w].pc = "sent"
  /\ Execute(workers[w].batch)
  /\ Goto(w, "verify")
  /\ UNCHANGED <<flights, lease, answers, faults, late>>

\* The batch is committed and the answer of D1 is lost.
CommitUnheard(w) ==
  /\ workers[w].pc = "sent" /\ Fault
  /\ Execute(workers[w].batch)
  /\ Goto(w, "recheck")
  /\ UNCHANGED <<flights, lease, answers, late>>

Abort(w) ==
  /\ workers[w].pc = "sent"
  /\ ~BatchAllowed(workers[w].batch)
  /\ Goto(w, "recheck")
  /\ UNCHANGED <<tables, flights, lease, answers, faults, late>>

InFlight(b) == flights' \in {flights} \cup IF LateBatches THEN {flights \cup {b}} ELSE {}

\* The call fails: the batch never runs, or it is still to run.
CallFails(w) ==
  /\ workers[w].pc = "sent" /\ Fault
  /\ Goto(w, "recheck")
  /\ InFlight(workers[w].batch)
  /\ UNCHANGED <<tables, lease, answers, late>>

\* D1 executes a batch nobody waits for, or drops it.
LateBatch(b) ==
  /\ flights' = flights \ {b}
  /\ \/ Execute(b) /\ late' = TRUE
     \/ UNCHANGED <<tables, late>>
  /\ UNCHANGED <<lease, workers, answers, faults>>

Recheck(w) ==
  /\ workers[w].pc = "recheck"
  /\ LET r == workers[w].req
     IN Leave(w, IF Inspected(r) = "replay" THEN Replayed(r)
                 ELSE Refusal(r, "rehearsal_command_retry_safe"))
  /\ UNCHANGED <<tables, flights, lease, answers, faults, late>>

Verify(w) ==
  /\ workers[w].pc = "verify"
  /\ LET r == workers[w].req
     IN Leave(w, IF Inspected(r) = "replay" THEN workers[w].batch.answer
                 ELSE Refusal(r, "rehearsal_command_retry_safe"))
  /\ UNCHANGED <<tables, flights, lease, answers, faults, late>>

Release(w) ==
  /\ workers[w].pc = "release"
  /\ lease' = None
  /\ Tell(workers[w].answer)
  /\ workers' = [workers EXCEPT ![w] = Idle]
  /\ UNCHANGED <<tables, flights, faults, late>>

\* A release with an unknown result overrides the answer.
ReleaseFails(w) ==
  /\ workers[w].pc = "release" /\ Fault
  /\ lease' \in {None, lease}
  /\ workers' = [workers EXCEPT ![w] = Idle]
  /\ UNCHANGED <<tables, flights, answers, late>>

\* The lease has no expiry: it stays with the Worker that died.
Crash(w) ==
  /\ workers[w].pc # "idle" /\ Fault
  /\ workers' = [workers EXCEPT ![w] = Idle]
  /\ \/ UNCHANGED <<tables, flights>>
     \/ workers[w].pc = "sent" /\ InFlight(workers[w].batch) /\ UNCHANGED tables
     \/ workers[w].pc = "sent" /\ Execute(workers[w].batch) /\ UNCHANGED flights
  /\ UNCHANGED <<lease, answers, late>>

-----------------------------------------------------------------------------
(* The other writers of the session.  The controls run under the lease and  *)
(* check their phase in the UPDATE; close-mock takes no lease.              *)

Control(phase, bidder) ==
  /\ lease = None /\ ~sealed /\ session.revision < MaxRevision
  /\ session' = [phase |-> phase, bidder |-> bidder, revision |-> session.revision + 1]
  /\ UNCHANGED <<sealed, bids, receipts, recoveries, flights, lease, workers, answers,
                 faults, late>>

Start ==
  /\ session.phase = "config"
  /\ Control("position_bid", Order[1])
  /\ order' = TRUE

Pause ==
  /\ session.phase \notin {"paused", "complete"}
  /\ Control("paused", session.bidder) /\ UNCHANGED order

\* day-end pauses a session that is paused, too
DayEnd ==
  /\ session.phase # "complete"
  /\ Control("paused", session.bidder) /\ UNCHANGED order

\* resume and day-start
Resume ==
  /\ session.phase = "paused"
  /\ Control("position_bid", session.bidder) /\ UNCHANGED order

CloseMock ==
  /\ ~sealed /\ session.phase # "complete"
  /\ session' = [session EXCEPT !.phase = "complete", !.bidder = None]
  /\ UNCHANGED <<order, sealed, bids, receipts, recoveries, flights, lease, workers,
                 answers, faults, late>>

\* The freeze command seeds the canonical state of a mock without bids.
Seal ==
  /\ lease = None \/ LateBatches
  /\ ~sealed /\ bids = {}
  /\ sealed' = TRUE
  /\ UNCHANGED <<session, order, bids, receipts, recoveries, flights, lease, workers,
                 answers, faults, late>>

Next ==
  \/ \E r \in Requests : AnswerSettled(r)
  \/ \E w \in Workers, r \in Requests : Submit(w, r)
  \/ \E w \in Workers :
       \/ InspectAgain(w) \/ Check(w) \/ Recover(w) \/ Plan(w)
       \/ Commit(w) \/ CommitUnheard(w) \/ Abort(w) \/ CallFails(w)
       \/ Recheck(w) \/ Verify(w) \/ Release(w) \/ ReleaseFails(w) \/ Crash(w)
  \/ \E b \in flights : LateBatch(b)
  \/ Start \/ Pause \/ DayEnd \/ Resume \/ CloseMock \/ Seal

Spec == Init /\ [][Next]_vars

-----------------------------------------------------------------------------
\* What was told of a command is on record, and is what every retry is told.
Backed(a) ==
  /\ a.code \in {"applied", "recovered"} =>
       /\ receipts[a.req.key].done /\ receipts[a.req.key].req = a.req
       /\ late \/ receipts[a.req.key].answer = a
  /\ a.code = "rehearsal_command_recovery_required" => recoveries[a.req.key] = a

\* What a client was told is what the tables say, and stays so: a command that
\* was reported as applied has its receipt and all its bids, and one reported
\* as not to be reconstructed is never answered otherwise (replayResponse).
AnswersTrue ==
  \A a \in answers : Backed(a) /\ a.picked \subseteq BidsOf(a.req)

\* The bids of a completed command are those it was answered with.
Exact(k) == BidsOf(receipts[k].req) = receipts[k].answer.picked

\* Reservation, bids, audit rows and completion are there together: no command
\* of this program leaves a pending receipt or a bid without its audit row, and
\* its bids are those of its answer.  Only the one an older program left pending
\* may be planned twice; it keeps bids nobody was told of if D1 executes the
\* other batch late.
CommandsWhole ==
  /\ \A k \in Keys : receipts[k].done =>
       receipts[k].answer.picked \subseteq BidsOf(receipts[k].req) /\ (late \/ Exact(k))
  /\ \A j, k \in Keys :
       j # k /\ receipts[j].done /\ receipts[k].done => Exact(j) \/ Exact(k)
  /\ \A b \in bids : \E k \in Keys :
       /\ receipts[k] # NoReceipt /\ Fingerprint(receipts[k].req) = b.id[1]
       /\ receipts[k].done => b.audited

Applied(k) == receipts[k].done /\ receipts[k].answer.code = "applied"

\* Two commands that were applied were reviewed on different revisions
\* (mockRehearsalSessionAdvanceStatement), as long as no batch is executed behind
\* the back of its Worker.
AppliedOnce ==
  ~late => \A j, k \in Keys :
             Applied(j) /\ Applied(k) /\ receipts[j].req.expected = receipts[k].req.expected
             => j = k

\* The same of every command with a completed receipt, and no position is filled
\* twice.
OneCommandPerRevision ==
  ~late =>
    /\ \A j, k \in Keys :
         (/\ j # k /\ receipts[j].done /\ receipts[k].done)
         => receipts[j].req.expected # receipts[k].req.expected
    /\ \A x, y \in bids : x.seat = y.seat => x = y

\* Once canonical state exists the rehearsal tables no longer change
\* (bids_legacy_insert_requires_canonical_command and the guards of the UPDATEs).
SealedForGood == [][sealed => UNCHANGED <<session, order, bids, sealed>>]_vars

\* A receipt that is completed and a recovery that is recorded are never changed
\* (the keys and the WHERE of mockRehearsalReceiptCompletionStatement).
RecordsFinal ==
  [][\A k \in Keys :
       /\ receipts[k].done => receipts'[k] = receipts[k]
       /\ recoveries[k] # None => recoveries'[k] = recoveries[k]]_vars

=============================================================================
