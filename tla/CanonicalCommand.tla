-------------------------- MODULE CanonicalCommand --------------------------
(***************************************************************************)
(* The canonical command service of one Bid session.                       *)
(*                                                                         *)
(* D1 is the authority: one batch writes the session state, the command    *)
(* receipt, the immutable event and the archive work item.  The Durable    *)
(* Object (DO) of the session handles one command at a time and keeps a    *)
(* local projection of the D1 state.  A batch that was sent is not         *)
(* recalled when the DO stops waiting for it: it may still be executed     *)
(* later, when the DO is already working on another command (orphans).     *)
(* Around them run the routes that write D1 directly under the normal      *)
(* mutation lease, and the older DO endpoints that change the projection.  *)
(***************************************************************************)
EXTENDS Naturals, FiniteSets

CONSTANTS
  CommandIds,      \* the values of command_id
  Requests,        \* the submitted commands: [id, kind, expected]
  Writers,         \* Worker invocations that write D1 directly
  IsMock,          \* bid_sessions.is_mock
  Staged,          \* the frozen policy has version 3 settings (stages)
  HasPin,          \* the session runs under a published Bid definition
  LateBatches,     \* the DO may stop waiting for a batch that is still queued
  MaxFaults,       \* bound on crashes, failed calls and lost answers
  MaxLocalSeq,     \* bound on the sequence the older DO endpoints reach
  None             \* SQL NULL

LegacyOps == {"skip", "pick", "freeze"}
Ops       == CommandIds \cup LegacyOps

ASSUME RequestsAssumption ==
  Requests \subseteq [id: CommandIds, kind: {"freeze", "live"}, expected: Nat]
ASSUME SessionAssumption ==
  /\ {IsMock, Staged, HasPin, LateBatches} \subseteq BOOLEAN
  /\ IsMock \/ Staged
  /\ HasPin => Staged
ASSUME BoundsAssumption == MaxFaults \in Nat /\ MaxLocalSeq \in Nat
ASSUME NamesAssumption ==
  /\ CommandIds \cap LegacyOps = {}
  /\ None \notin CommandIds /\ None \notin Writers /\ None \notin Requests

(***************************************************************************)
(* A session state.  log holds the operations the state was built from,    *)
(* each with the sequence number it produced; order says that a Bid order  *)
(* is loaded, without which no member is on the clock.                     *)
(***************************************************************************)
State == [seq: Nat, log: SUBSET (Nat \X Ops), frozen: BOOLEAN, order: BOOLEAN]

Pristine == [seq |-> 0, log |-> {}, frozen |-> FALSE, order |-> FALSE]
Started  == [Pristine EXCEPT !.order = TRUE]

Applied(s, op, isFreeze) ==
  [seq    |-> s.seq + 1,
   log    |-> s.log \cup {<<s.seq + 1, op>>},
   frozen |-> s.frozen \/ isFreeze,
   order  |-> s.order]

HasPicks(s) == \E e \in s.log : e[2] = "pick"

VARIABLES
  (* D1 *)
  row,       \* canonical_bid_session_state: None or [state, last]
  receipts,  \* bid_command_receipts by command_id: None or [req, code, seq]
  events,    \* bid_command_events with their audit_log rows: {[seq, id]}
  outbox,    \* command ids with a bid_audit_outbox row
  legacy,    \* bid_sessions.current_phase and "bids / a_day_picks exist"
  orphans,   \* batches sent to D1 by a handler that no longer waits
  (* the Durable Object *)
  local,     \* the persisted projection (and memoryState, always equal)
  marker,    \* canonical-mock-intent
  pin,       \* bid-definition-pin is stored
  lease,     \* normal mutation lease: a writer or None
  job,       \* the command inside blockConcurrencyWhile
  (* the Worker routes, the clients, the environment *)
  writers,   \* the direct D1 writers
  replies,   \* every answer the DO has given
  faults     \* faults so far

d1Vars == <<row, receipts, events, outbox, legacy>>
vars == <<row, receipts, events, outbox, legacy, orphans, local, marker, pin,
          lease, job, writers, replies, faults>>

Codes == {"ACCEPTED", "REJECTED", "SESSION_FROZEN", "STALE_SEQUENCE",
          "LEGACY_STATE_REQUIRES_IMPORT", "COMMAND_ID_REUSED",
          "NORMAL_MUTATION_LEASE_ACTIVE"}

Reply(r, code, seq) == [req |-> r, code |-> code, seq |-> seq]
Rejection(r, code)  == Reply(r, code, 0)

(***************************************************************************)
(* The D1 batch of an accepted command: its statements in order, each with *)
(* the triggers and constraints that abort the whole batch.                *)
(***************************************************************************)
Batch == [req: Requests, base: State, seed: BOOLEAN]

After(b) == Applied(b.base, b.req.id, b.req.kind = "freeze")

\* INSERT INTO canonical_bid_session_state, when the preflight saw no row
RowAfterSeed(b) == IF b.seed THEN [state |-> b.base, last |-> None] ELSE row

\* UPDATE ... WHERE current_seq = ?: matches no row when the sequence moved
RowAfterUpdate(b) ==
  LET r == RowAfterSeed(b)
  IN  IF r # None /\ r.state.seq = b.base.seq
      THEN [state |-> After(b), last |-> b.req.id]
      ELSE r

SeedAllowed(b) == b.seed => row = None /\ ~legacy.picks

ReceiptAllowed(b) ==
  /\ receipts[b.req.id] = None
  /\ b.base.seq = b.req.expected
  /\ RowAfterUpdate(b) # None
  /\ RowAfterUpdate(b).state.seq = b.base.seq + 1
  /\ RowAfterUpdate(b).last = b.req.id

EventAllowed(b) == \A e \in events : e.id # b.req.id /\ e.seq # b.base.seq + 1

\* Mutant: without the triggers of migration 0022 and the UNIQUE constraints.
BatchAllowedUnbound(b) == SeedAllowed(b) /\ receipts[b.req.id] = None

BatchAllowed(b) == SeedAllowed(b) /\ ReceiptAllowed(b) /\ EventAllowed(b)

\* Mutant: the statements go to D1 one by one and stop after the first.
ExecuteBatchInParts(b) ==
  /\ BatchAllowed(b)
  /\ row' = RowAfterUpdate(b)
  /\ UNCHANGED <<receipts, events, outbox, legacy>>

ExecuteBatch(b) ==
  /\ BatchAllowed(b)
  /\ row' = RowAfterUpdate(b)
  /\ receipts' = [receipts EXCEPT ![b.req.id] = Reply(b.req, "ACCEPTED", b.base.seq + 1)]
  /\ events' = events \cup {[seq |-> b.base.seq + 1, id |-> b.req.id]}
  /\ outbox' = outbox \cup {b.req.id}
  /\ UNCHANGED legacy

(***************************************************************************)
(* The handler that owns the DO.  Every DO operation below runs inside     *)
(* blockConcurrencyWhile, so it starts only when job is idle.              *)
(***************************************************************************)
JobPhases == {"idle", "receipt", "state", "reject", "mark", "sent", "recheck",
              "recheckState", "finish", "answer"}

Idle == [pc |-> "idle", req |-> None, by |-> None, batch |-> None,
         answer |-> None, state |-> None]

Working(r, w) == [Idle EXCEPT !.pc = "receipt", !.req = r, !.by = w]

Goto(pc) == job' = [job EXCEPT !.pc = pc]

\* the outcome of the command service, with the state to project (or None)
Outcome(answer, state) ==
  job' = [job EXCEPT !.pc = "finish", !.answer = answer, !.state = state]

\* getState(): a stored pin or intent marker makes the DO reread D1
Hydrated == IF (pin \/ marker # "none") /\ row # None THEN row.state ELSE local

Fault == faults < MaxFaults /\ faults' = faults + 1

\* the Worker that called the DO for a freeze goes on when the call ends
CallEnds ==
  writers' = [w \in Writers |->
                IF w = job.by /\ writers[w].pc = "calling"
                THEN [writers[w] EXCEPT !.pc = "release"]
                ELSE writers[w]]

Throw == job' = Idle /\ CallEnds

Init ==
  /\ row = None
  /\ receipts = [c \in CommandIds |-> None]
  /\ events = {}
  /\ outbox = {}
  /\ legacy = [phase |-> "config", picks |-> FALSE]
  /\ orphans = {}
  /\ local = Pristine
  /\ marker = "none"
  /\ pin = FALSE
  /\ lease = None
  /\ job = Idle
  /\ writers = [w \in Writers |-> [pc |-> "idle", op |-> None]]
  /\ replies = {}
  /\ faults = 0

\* A snapshot or a reconnect rebuilds the projection.
Hydrate ==
  /\ job.pc = "idle"
  /\ local' = Hydrated
  /\ UNCHANGED <<d1Vars, orphans, marker, pin, lease, job, writers, replies, faults>>

\* A live command that is not yet on record is turned away under a lease.
LiveRefusedByLease(r) ==
  /\ job.pc = "idle" /\ Staged /\ r.kind = "live"
  /\ lease # None /\ receipts[r.id] = None
  /\ local' = Hydrated
  /\ replies' = replies \cup {Rejection(r, "NORMAL_MUTATION_LEASE_ACTIVE")}
  /\ UNCHANGED <<d1Vars, orphans, marker, pin, lease, job, writers, faults>>

LiveBegin(r) ==
  /\ job.pc = "idle" /\ Staged /\ r.kind = "live"
  /\ lease = None \/ receipts[r.id] # None
  /\ local' = Hydrated
  /\ pin' = (pin \/ HasPin)
  /\ job' = Working(r, None)
  /\ UNCHANGED <<d1Vars, orphans, marker, lease, writers, replies, faults>>

\* The freeze route holds the lease while it calls the DO.
FreezeBegin(w, r) ==
  /\ job.pc = "idle" /\ r.kind = "freeze"
  /\ writers[w] = [pc |-> "checked", op |-> "freeze"]
  /\ writers' = [writers EXCEPT ![w].pc = "calling"]
  /\ local' = Hydrated
  /\ pin' = (pin \/ HasPin)
  /\ job' = Working(r, w)
  /\ UNCHANGED <<d1Vars, orphans, marker, lease, replies, faults>>

\* An exact earlier receipt is replayed; another request under its id is not.
PriorOutcome(r) ==
  IF receipts[r.id].req = r
  THEN Outcome(receipts[r.id],
               IF receipts[r.id].code = "ACCEPTED" THEN row.state ELSE None)
  ELSE Outcome(Rejection(r, "COMMAND_ID_REUSED"), None)

ReadReceipt ==
  /\ job.pc = "receipt"
  /\ IF receipts[job.req.id] # None THEN PriorOutcome(job.req) ELSE Goto("state")
  /\ UNCHANGED <<d1Vars, orphans, local, marker, pin, lease, writers, replies, faults>>

Current == IF row # None THEN row.state ELSE local

NeedsImport(r) ==
  r.kind = "freeze" /\ row = None /\ (HasPicks(local) \/ legacy.picks)

Matches(r) == ~NeedsImport(r) /\ r.expected = Current.seq

\* A rejection by the checks before the batch.  REJECTED stands for every
\* policy, target and reducer rejection.
Refusal(r, code) ==
  \/ code = "LEGACY_STATE_REQUIRES_IMPORT" /\ NeedsImport(r)
  \/ code = "STALE_SEQUENCE" /\ ~NeedsImport(r) /\ r.expected # Current.seq
  \/ code = "SESSION_FROZEN" /\ Matches(r) /\ Current.frozen
  \/ code = "REJECTED" /\ Matches(r) /\ r.kind = "live"

Refuse(code) ==
  /\ job.pc = "state"
  /\ Refusal(job.req, code)
  /\ job' = [job EXCEPT !.pc = "reject", !.answer = Rejection(job.req, code)]
  /\ UNCHANGED <<d1Vars, orphans, local, marker, pin, lease, writers, replies, faults>>

\* Mutant: the rejection is answered and not kept.
RecordRejectionUnstored ==
  /\ job.pc = "reject"
  /\ Outcome(job.answer, None)
  /\ UNCHANGED <<d1Vars, orphans, local, marker, pin, lease, writers, replies, faults>>

\* insertRejectedReceipt: outside the try, so a taken command id throws.
RecordRejection ==
  /\ job.pc = "reject"
  /\ IF receipts[job.req.id] = None
     THEN /\ receipts' = [receipts EXCEPT ![job.req.id] = job.answer]
          /\ Outcome(job.answer, None)
          /\ UNCHANGED writers
     ELSE Throw /\ UNCHANGED receipts
  /\ UNCHANGED <<row, events, outbox, legacy, orphans, local, marker, pin, lease,
                 replies, faults>>

\* Mutant: the frozen state is not looked at.
PrepareFrozen ==
  /\ job.pc = "state"
  /\ Matches(job.req)
  /\ job' = [job EXCEPT !.pc = IF job.req.kind = "freeze" THEN "mark" ELSE "sent",
                        !.batch = [req |-> job.req, base |-> Current, seed |-> row = None]]
  /\ UNCHANGED <<d1Vars, orphans, local, marker, pin, lease, writers, replies, faults>>

\* The reducer accepts; the batch is built on the state that was just read.
Prepare ==
  /\ job.pc = "state"
  /\ Matches(job.req) /\ ~Current.frozen
  /\ job' = [job EXCEPT !.pc = IF job.req.kind = "freeze" THEN "mark" ELSE "sent",
                        !.batch = [req |-> job.req, base |-> Current, seed |-> row = None]]
  /\ UNCHANGED <<d1Vars, orphans, local, marker, pin, lease, writers, replies, faults>>

\* Mutant: no intent marker before the batch.
MarkIntentSkipped ==
  /\ job.pc = "mark"
  /\ Goto("sent")
  /\ UNCHANGED <<d1Vars, orphans, local, marker, pin, lease, writers, replies, faults>>

\* beforeD1Commit of a freeze
MarkIntent ==
  /\ job.pc = "mark"
  /\ marker' = "pending"
  /\ Goto("sent")
  /\ UNCHANGED <<d1Vars, orphans, local, pin, lease, writers, replies, faults>>

Commit ==
  /\ job.pc = "sent"
  /\ ExecuteBatch(job.batch)
  /\ Outcome(Reply(job.req, "ACCEPTED", job.batch.base.seq + 1), After(job.batch))
  /\ UNCHANGED <<orphans, local, marker, pin, lease, writers, replies, faults>>

\* The batch is committed and the answer of D1 is lost.
CommitUnheard ==
  /\ job.pc = "sent" /\ Fault
  /\ ExecuteBatch(job.batch)
  /\ Goto("recheck")
  /\ UNCHANGED <<orphans, local, marker, pin, lease, writers, replies>>

\* A trigger or a constraint aborts the batch.
Abort ==
  /\ job.pc = "sent"
  /\ ~BatchAllowed(job.batch)
  /\ Goto("recheck")
  /\ UNCHANGED <<d1Vars, orphans, local, marker, pin, lease, writers, replies, faults>>

\* The call to D1 fails: the batch never ran, or it is still to run.
CallFails ==
  /\ job.pc = "sent" /\ Fault
  /\ Goto("recheck")
  /\ orphans' \in {orphans} \cup (IF LateBatches THEN {orphans \cup {job.batch}} ELSE {})
  /\ UNCHANGED <<d1Vars, local, marker, pin, lease, writers, replies>>

\* D1 executes a batch nobody waits for, or drops it.
LateBatch(b) ==
  /\ orphans' = orphans \ {b}
  /\ \/ ExecuteBatch(b)
     \/ UNCHANGED d1Vars
  /\ UNCHANGED <<local, marker, pin, lease, job, writers, replies, faults>>

\* Mutant: the catch block does not look for the receipt.
RecheckSequenceOnly ==
  /\ job.pc = "recheck"
  /\ Goto("recheckState")
  /\ UNCHANGED <<d1Vars, orphans, local, marker, pin, lease, writers, replies, faults>>

\* The catch block reads the receipt, and in a second query the state.
Recheck ==
  /\ job.pc = "recheck"
  /\ IF receipts[job.req.id] # None THEN PriorOutcome(job.req) ELSE Goto("recheckState")
  /\ UNCHANGED <<d1Vars, orphans, local, marker, pin, lease, writers, replies, faults>>

RecheckState ==
  /\ job.pc = "recheckState"
  /\ IF row # None /\ row.state.seq > job.req.expected
     THEN Outcome(Rejection(job.req, "STALE_SEQUENCE"), None) /\ UNCHANGED writers
     ELSE Throw
  /\ UNCHANGED <<d1Vars, orphans, local, marker, pin, lease, replies, faults>>

\* Mutant: the command is answered and not projected.
FinishLiveUnprojected ==
  /\ job.pc = "finish" /\ job.req.kind = "live"
  /\ Goto("answer")
  /\ UNCHANGED <<d1Vars, orphans, local, marker, pin, lease, writers, replies, faults>>

\* A live command projects the state it got, if any.
FinishLive ==
  /\ job.pc = "finish" /\ job.req.kind = "live"
  /\ local' = IF job.state # None THEN job.state ELSE local
  /\ Goto("answer")
  /\ UNCHANGED <<d1Vars, orphans, marker, pin, lease, writers, replies, faults>>

\* A freeze also projects the D1 state after a rejection; no D1 state at all
\* takes the intent marker away.
FinishFreeze ==
  /\ job.pc = "finish" /\ job.req.kind = "freeze"
  /\ LET state == IF job.state # None THEN job.state
                  ELSE IF row # None THEN row.state ELSE None
     IN  /\ marker' = IF state # None THEN "active" ELSE "none"
         /\ local' = IF state # None THEN state ELSE local
  /\ Goto("answer")
  /\ UNCHANGED <<d1Vars, orphans, pin, lease, writers, replies, faults>>

Answer ==
  /\ job.pc = "answer"
  /\ replies' = replies \cup {job.answer}
  /\ Throw
  /\ UNCHANGED <<d1Vars, orphans, local, marker, pin, lease, faults>>

\* The DO dies.  What D1 has already been sent may still be executed.
Crash ==
  /\ job.pc # "idle" /\ Fault
  /\ Throw
  /\ \/ UNCHANGED <<d1Vars, orphans>>
     \/ job.pc = "sent" /\ ExecuteBatch(job.batch) /\ UNCHANGED orphans
     \/ job.pc = "sent" /\ LateBatches
        /\ orphans' = orphans \cup {job.batch} /\ UNCHANGED d1Vars
  /\ UNCHANGED <<local, marker, pin, lease, replies>>

(***************************************************************************)
(* The older DO endpoints: skip, force pick and freeze of a Real session,  *)
(* the websocket pick of a Mock one.  They persist the projection only.    *)
(***************************************************************************)
LegacyOp(op) ==
  /\ job.pc = "idle"
  /\ op # "pick" => ~IsMock
  /\ op # "freeze" => Hydrated.order
  /\ ~Hydrated.frozen
  /\ Hydrated.seq < MaxLocalSeq
  /\ local' = Applied(Hydrated, op, op = "freeze")
  /\ UNCHANGED <<d1Vars, orphans, marker, pin, lease, job, writers, replies, faults>>

(***************************************************************************)
(* The routes that write D1 directly: start, the rehearsal pick, and the   *)
(* freeze, which only calls the DO.  Each runs under the lease and checks  *)
(* the session again after it has the lease.  close-mock takes no lease.   *)
(***************************************************************************)
Advance(w, pc) == writers' = [writers EXCEPT ![w].pc = pc]

\* Mutant: a second writer takes the lease over.
AcquireTaken(w, op) ==
  /\ writers[w].pc = "idle" /\ job.pc = "idle"
  /\ op \in {"pick", "freeze"} => IsMock
  /\ op = "pick" => ~HasPin
  /\ lease' = w
  /\ writers' = [writers EXCEPT ![w] = [pc |-> "leased", op |-> op]]
  /\ UNCHANGED <<d1Vars, orphans, local, marker, pin, job, replies, faults>>

Acquire(w, op) ==
  /\ writers[w].pc = "idle" /\ lease = None /\ job.pc = "idle"
  /\ op \in {"pick", "freeze"} => IsMock
  /\ op = "pick" => ~HasPin
  /\ lease' = w
  /\ writers' = [writers EXCEPT ![w] = [pc |-> "leased", op |-> op]]
  /\ UNCHANGED <<d1Vars, orphans, local, marker, pin, job, replies, faults>>

Permitted(op) ==
  CASE op = "start"  -> row = None /\ legacy.phase = "config"
    [] op = "pick"   -> row = None
    [] op = "freeze" -> row # None \/ ~legacy.picks

\* Mutant: a refused writer returns without giving the lease back.
CheckReturning(w) ==
  /\ writers[w].pc = "leased"
  /\ Advance(w, IF Permitted(writers[w].op) THEN "checked" ELSE "idle")
  /\ UNCHANGED <<d1Vars, orphans, local, marker, pin, lease, job, replies, faults>>

Check(w) ==
  /\ writers[w].pc = "leased"
  /\ Advance(w, IF Permitted(writers[w].op) THEN "checked" ELSE "release")
  /\ UNCHANGED <<d1Vars, orphans, local, marker, pin, lease, job, replies, faults>>

\* A crashed Worker has lost its lease for good; its batch may still run.
Writing(w, op) ==
  /\ writers[w].pc \in {"checked", "ghost"} /\ writers[w].op = op
  /\ Advance(w, IF writers[w].pc = "checked" THEN "release" ELSE "gone")
  /\ UNCHANGED <<receipts, events, outbox, orphans, local, marker, pin, lease, job,
                 replies, faults>>

\* UPDATE bid_sessions ... WHERE current_phase = 'config' may match no row; the
\* INSERT of the state row in the same batch does not depend on it.
WriteStart(w) ==
  /\ Writing(w, "start")
  /\ IF row = None /\ (Staged => ~legacy.picks)
     THEN /\ legacy' = [legacy EXCEPT !.phase = IF @ = "config" THEN "open" ELSE @]
          /\ row' = IF Staged THEN [state |-> Started, last |-> None] ELSE row
     ELSE UNCHANGED <<row, legacy>>

WritePick(w) ==
  /\ Writing(w, "pick")
  /\ legacy' = IF row = None THEN [legacy EXCEPT !.picks = TRUE] ELSE legacy
  /\ UNCHANGED row

Release(w) ==
  /\ writers[w].pc = "release" /\ job.pc = "idle"
  /\ lease' = None
  /\ writers' = [writers EXCEPT ![w] = [pc |-> "idle", op |-> None]]
  /\ UNCHANGED <<d1Vars, orphans, local, marker, pin, job, replies, faults>>

WriterCrash(w) ==
  /\ writers[w].pc \in {"leased", "checked", "calling", "release"} /\ Fault
  /\ Advance(w, IF writers[w].pc = "checked" /\ writers[w].op # "freeze"
                THEN "ghost" ELSE "gone")
  /\ UNCHANGED <<d1Vars, orphans, local, marker, pin, lease, job, replies>>

\* Mutant: the UPDATE does not look for the state row.
CloseMockUnguarded ==
  /\ IsMock /\ legacy.phase # "complete"
  /\ legacy' = [legacy EXCEPT !.phase = "complete"]
  /\ UNCHANGED <<row, receipts, events, outbox, orphans, local, marker, pin, lease, job,
                 writers, replies, faults>>

\* close-mock: the UPDATE compares every column it read and the state row.
CloseMock ==
  /\ IsMock /\ row = None /\ legacy.phase # "complete"
  /\ legacy' = [legacy EXCEPT !.phase = "complete"]
  /\ UNCHANGED <<row, receipts, events, outbox, orphans, local, marker, pin, lease, job,
                 writers, replies, faults>>

JobStep ==
  \/ ReadReceipt \/ (\E code \in Codes : Refuse(code)) \/ RecordRejection
  \/ Prepare \/ MarkIntent
  \/ Commit \/ CommitUnheard \/ Abort \/ CallFails \/ Recheck \/ RecheckState
  \/ FinishLive \/ FinishFreeze \/ Answer

Next ==
  \/ Hydrate
  \/ \E r \in Requests : LiveRefusedByLease(r) \/ LiveBegin(r)
  \/ \E w \in Writers, r \in Requests : FreezeBegin(w, r)
  \/ JobStep
  \/ \E b \in orphans : LateBatch(b)
  \/ Crash
  \/ \E op \in LegacyOps : LegacyOp(op)
  \/ \E w \in Writers, op \in {"start", "pick", "freeze"} : Acquire(w, op)
  \/ \E w \in Writers :
       Check(w) \/ WriteStart(w) \/ WritePick(w) \/ Release(w) \/ WriterCrash(w)
  \/ CloseMock

Spec == Init /\ [][Next]_vars

(***************************************************************************)
(* Fairness.  The handler runs on until it answers or throws, and a Worker *)
(* that did not crash goes on.  A call to the DO waits for its turn behind *)
(* the handler that runs, in the order of arrival: hence SF for the calls. *)
(***************************************************************************)
Fairness ==
  /\ WF_vars(JobStep)
  /\ \A w \in Writers :
       /\ WF_vars(Check(w))
       /\ WF_vars(writers[w].pc = "checked" /\ (WriteStart(w) \/ WritePick(w)))
       /\ SF_vars(\E r \in Requests : FreezeBegin(w, r))
       /\ SF_vars(Release(w))

FairSpec == Spec /\ Fairness

-----------------------------------------------------------------------------
Answers   == [req: Requests, code: Codes, seq: Nat]
StateRows == [state: State, last: CommandIds \cup {None}]
Legacies  == [phase: {"config", "open", "complete"}, picks: BOOLEAN]
Jobs      == [pc: JobPhases, req: Requests \cup {None}, by: Writers \cup {None},
              batch: Batch \cup {None}, answer: Answers \cup {None},
              state: State \cup {None}]
WriterStates == [pc: {"idle", "leased", "checked", "calling", "release", "ghost", "gone"},
                 op: {"start", "pick", "freeze", None}]

ASSUME NoneAssumption ==
  /\ None \notin StateRows /\ None \notin Answers
  /\ None \notin Batch /\ None \notin State /\ None \notin Nat

\* Every variable holds what its comment says (bid-session.ts, migration 0022).
TypeOK ==
  /\ row \in StateRows \cup {None}
  /\ receipts \in [CommandIds -> Answers \cup {None}]
  /\ events \subseteq [seq: Nat, id: CommandIds]
  /\ outbox \subseteq CommandIds
  /\ legacy \in Legacies
  /\ orphans \subseteq Batch
  /\ local \in State
  /\ marker \in {"none", "pending", "active"}
  /\ pin \in BOOLEAN
  /\ lease \in Writers \cup {None}
  /\ job \in Jobs
  /\ writers \in [Writers -> WriterStates]
  /\ replies \subseteq Answers
  /\ faults \in 0..MaxFaults

Accepted(c) == receipts[c] # None /\ receipts[c].code = "ACCEPTED"

\* The four records of an accepted command stand or fall together: receipt,
\* event and archive work item agree, and the state row names the last of them
\* (one D1 batch; the triggers of migration 0022).
BundleAtomic ==
  /\ outbox = {e.id : e \in events}
  /\ \A c \in CommandIds :
       Accepted(c) => [seq |-> receipts[c].seq, id |-> c] \in events
  /\ \A e \in events : Accepted(e.id) /\ receipts[e.id].seq = e.seq
  /\ row # None /\ row.last # None => [seq |-> row.state.seq, id |-> row.last] \in events

\* The events of a session are numbered without a gap or a repetition up to
\* the sequence of the state row, whatever was retried, lost or late.
GapFree ==
  \A e \in events :
    /\ row # None /\ e.seq <= row.state.seq
    /\ e.seq < row.state.seq => \E f \in events : f.seq = e.seq + 1
    /\ \A f \in events : f.seq = e.seq => f = e

\* No accepted command is overwritten: its effect is part of the state row
\* from then on, also when the next batch was built on an older read.
NoLostUpdate ==
  \A e \in events : row # None /\ <<e.seq, e.id>> \in row.state.log

\* After a canonical freeze no command changes the state, not even one whose
\* batch was prepared before the freeze and reached D1 after it.
FreezeIsFinal == [][row # None /\ row.state.frozen => row' = row]_vars

\* A client that was told of an acceptance, or of a rejection that is kept,
\* finds exactly that answer on record.
AnswersOnRecord ==
  \A p \in replies :
    p.code \in {"ACCEPTED", "REJECTED", "SESSION_FROZEN", "LEGACY_STATE_REQUIRES_IMPORT"}
      => receipts[p.req.id] = p

\* A request that was ever answered ACCEPTED is never answered with a final
\* rejection, before or after (the lease rejection invites a retry).
ReplyFinality ==
  \A p, q \in replies :
    /\ p.req = q.req /\ p.code = "ACCEPTED"
    /\ q.code # "NORMAL_MUTATION_LEASE_ACTIVE"
    => q = p

\* What a client was told is accepted is in the state the DO shows.
AckedVisible ==
  \A p \in replies : p.code = "ACCEPTED" => <<p.seq, p.req.id>> \in local.log

\* Once a session is canonical, no direct writer changes the legacy tables
\* (the triggers of migration 0022, the guarded UPDATE of close-mock).
LegacySealed == [][row # None => UNCHANGED legacy]_vars

\* What a writer checked under the lease still holds when its batch runs: no
\* canonical command slips in between, even when the Worker has crashed.
CheckedStillTrue ==
  \A w \in Writers :
    writers[w].pc \in {"checked", "ghost"} /\ writers[w].op \in {"start", "pick"}
      => row = None

\* Once a command is committed the DO knows that it must reread D1: the
\* projection can be rebuilt after any crash.
Rebuildable == row # None /\ row.last # None => pin \/ marker # "none"

\* A lease is given back unless its Worker crashed.
LeaseReturned ==
  \A w \in Writers :
    lease = w ~> (lease # w \/ writers[w].pc \in {"ghost", "gone"})

(***************************************************************************)
(* The service implements the log of module CommandLog: the sequence of    *)
(* the state row is its head, the events are its entries, the receipts are *)
(* the verdicts.                                                           *)
(***************************************************************************)
Log == INSTANCE CommandLog WITH
         head    <- IF row = None THEN None ELSE row.state.seq,
         log     <- events,
         verdict <- receipts,
         told    <- replies

ImplementsLog == Log!Spec

=============================================================================
