# A verification project for the MBFD Bid worker

MBFD Bid runs the annual shift bid of a fire department: members, in seniority
order, pick a station, shift and rank position (or a specialty seat), and later
their A-Days. The program is a Cloudflare Worker (`apps/worker`), one Durable
Object (DO) per Bid session, a D1 database, R2 buckets for the audit archive and a
Queue to the member portal. This project models the parts of it that carry its own
core logic in TLA+, model-checks them with TLC and proves theorems about them with
TLAPS. Paths below are relative to `src/apps/worker/src` unless they say otherwise.

## 1. Inventory

### Components

| Component | State | Operations | Interacts with | Module |
|---|---|---|---|---|
| Canonical command service (`commands/canonical-command-service.ts`, migrations `0022`, `0044`) | D1: `canonical_bid_session_state`, `bid_command_receipts`, `bid_command_events` + `audit_log`, `bid_audit_outbox` | `commitMockFreezeCommand`, `commitLiveBidCommand` | called by the DO; calls the reducer; fills the archive outbox | `CanonicalCommand`, abstractly `CommandLog` |
| Session DO (`durable/bid-session.ts`, `bid-session-state.ts`) | stored projection, `canonical-mock-intent`, `bid-definition-pin`, mutation lease | freeze and live command endpoints, hydration, lease, older skip / force pick / freeze / websocket pick | the service, the admin routes, the clients | `CanonicalCommand` |
| Direct D1 writers (`routes/admin/bid-session.ts`, `lib/specialty-interruption-guard.ts`) | `bid_sessions`, `bid_order`, `bids`, `a_day_picks` | start, pause, resume, day-end, day-start, close-mock | take the lease in the DO, write D1 | `CanonicalCommand`, `Rehearsal` |
| Rehearsal commands (`routes/admin/rehearsal.ts`, migration `0035`) | `mock_rehearsal_command_receipts`, their recovery outcomes | auto-bid, manual-pick, their recovery | the same tables and lease | `Rehearsal` |
| Live command reducer (`commands/live-bid-reducer.ts` and helpers) | none: a function of the session state | 20-odd live commands | called by the service | `LiveBid` |
| A-Day engine (`packages/a-day`, `lib/frozen-a-day.ts`) | none: every pick is replayed for every command | capacity, scoped maxima, officer look-ahead | called by the service behind the reducer | `ADay` |
| Archive outbox (`audit/archive-outbox.ts`, `scheduled.ts`) | `bid_audit_outbox` (lease, attempts), R2 objects | enqueue, lease, put, ack, retry, dead letter | reads what the service wrote | `AuditOutbox` |
| Final portal publication (`portal-writeback/`, `routes/admin/portal.ts`, migration `0072`) | `final_portal_publications`, `final_portal_outbox`, the Queue | publish, retry, drain, claim, post, record | reads the canonical state, posts to the Hub | `PortalOutbox` |
| Legacy audit chain, legacy session handlers, post-bid and award transition, eligibility, authoring, personnel, authentication, web application | see `PROJECT.json` | | | section 11 |

### Hard behaviours

- **Concurrency.** The DO runs one operation at a time
  (`blockConcurrencyWhile`), but a Worker route, another Worker isolate, a drain, a queue
  consumer and a D1 batch that nobody waits for any more run beside it. Checks are made
  in one query and acted upon in another.
- **Failure.** A D1 call may fail before or after its effect; the DO and the
  Worker may die between any two steps; R2 puts, posts to the Hub and their D1
  acknowledgements are separate.
- **Ordering and retries.** Clients retry with the same `command_id` or
  `Idempotency-Key`; administrators send competing commands with the same expected
  sequence; the Queue delivers at least once and in any order.
- **Timeouts.** Archive and portal rows are leased for a time; the mutation lease has
  no time limit.
- **Long sequences.** Overrides, corrections and deferrals rewrite the order under the
  cursor; all A-Days are judged again after each.

`PROJECT.json` lists every hazard at its line, with the properties that guard it.

### What makes each component correct

- *Service*: one verdict per command id; the records of an accepted command agree;
  sequence numbers have no gap; nothing accepted is lost; a freeze is final.
- *DO*: what a client was told is accepted is what it is shown; the projection can
  be rebuilt from D1 after any crash.
- *Direct writers*: what was checked under the lease still holds when D1 is written;
  the lease is returned.
- *Rehearsal*: an answer is what the tables say and stays so; a command is applied as a
  whole or not at all; one command per reviewed revision.
- *Reducer*: everyone is asked, turns go to members who can answer, the past of the
  queue is not touched, no A-Day is forgotten.
- *A-Day engine*: capacities hold for whoever is not excused; an accepted allocation is accepted again.
- *Archive outbox*: every accepted command gets its verdict; work is neither lost nor done twice at once.
- *Portal publication*: one consumer posts a row; done means delivered; verdicts are
  final; every row is settled.

## 2. How the modules fit together

`CanonicalCommand` shows that an accepted command replaces exactly the state it was built
on, whatever fails. That is what lets `LiveBid` treat a command as one atomic
step on one document, and `ADay` (which EXTENDS `LiveBid` and conjoins each of its
actions with the engine's verdict) treat reduction and evaluation as one step.
`AuditOutbox` starts where `CanonicalCommand` ends: with the row that the batch of an
accepted command leaves. `PortalOutbox` takes of the session what it reads of it:
the canonical sequence and whether the bid is complete. `Rehearsal` is the world before
any canonical state exists; its `Seal` is the freeze of `CanonicalCommand`.
`CommandLog` is the abstract specification the service implements (`ImplementsLog`).
The proof modules extend the module they are about; the MC modules give it small instances.

What would come next, in this order: `AuditChain` (chunk numbering, the hash chain, a
crash between R2 and D1); the older portal rows (one per bid) and clear-year;
`ContactsSettled` and `ReturnsBesideTheQueue` with transitions, for the policies in which
section 9 knows no counterexample.

## 3. CanonicalCommand

### State

| Variable | Code |
|---|---|
| `row` | `canonical_bid_session_state`: `state_json` / `current_seq` (`row.state`) and `last_command_id` (`row.last`) |
| `receipts` | `bid_command_receipts` by `command_id` |
| `events`, `outbox` | `bid_command_events` (+ its `audit_log` row) and `bid_audit_outbox` |
| `legacy` | `bid_sessions.current_phase`, and whether `bids`/`a_day_picks` hold anything |
| `orphans` | batches sent to D1 by a handler that stopped waiting |
| `local` | the DO's persisted projection (`memoryState` is always equal to it) |
| `marker`, `pin`, `lease` | `canonical-mock-intent`, `bid-definition-pin`, the mutation lease |
| `job` | the program counter and locals of the handler inside `blockConcurrencyWhile` |
| `writers` | the Worker invocations that write D1 directly |
| `replies` | history: every answer the DO has given |

A session state is abstracted to its sequence number, the set of operations it
was built from (`log`), and whether it is frozen and has a Bid order. That is what
the properties tell apart: which commands a state contains, and in what place.

### Actions

A freeze goes `FreezeBegin` → `ReadReceipt` → (`Refuse` → `RecordRejection`, or
`Prepare` → `MarkIntent` → `Commit`) → `FinishFreeze` → `Answer`; a live command the
same without the marker. Each is one `await` of the handler, so a crash
(`Crash`) or a direct writer can come between any two. `Commit` is the D1 batch:
`BatchAllowed` is the conjunction of the triggers and constraints that abort it,
`ExecuteBatch` its effect. `CommitUnheard`, `Abort` and `CallFails` are the three
ways it can throw; `Recheck` and `RecheckState` are the catch block, two queries.
With `LateBatches`, `CallFails` and `Crash` may leave the batch behind for
`LateBatch`. `Acquire`, `Check`, `WriteStart`, `WritePick`, `Release` and
`WriterCrash` are a direct writer's life; `CloseMock` takes no lease, as in the
code; `LegacyOp` is the older endpoints of the DO.

The policy checks, the target checks and the reducer are a nondeterministic
choice between acceptance and `REJECTED`: the properties here are about what
happens to a verdict, whatever it is.

### Properties

`BundleAtomic`, `GapFree`, `NoLostUpdate`, `FreezeIsFinal` (D1; all properties but the liveness
of `LeaseReturned` are proved, and `GapFree` and `TypeOK` are checked by no run);
`AnswersOnRecord`, `ReplyFinality` (answers); `AckedVisible`, `Rebuildable`
(projection); `CheckedStillTrue`, `LegacySealed`, `LeaseReturned` (direct writers);
`ImplementsLog`: with `head`, `log`, `verdict` and `told` mapped to the row's
sequence, the events, the receipts and the replies, the service implements
`CommandLog`, in which there is no DO, no batch and no failure.

### Runs

| Run | Instance | Shows |
|---|---|---|
| `command_rehearsal` | unmanaged Mock, two freezes and a reused id, two writers, 2 faults | lease and sealing hold; a committed freeze leaves a marker to rebuild from; refinement |
| `command_live` | managed Real session, live commands, a reused id, older endpoints, 2 faults, fairness | finality of answers; acknowledged commands stay visible; refinement; the lease comes back |
| `command_late` | managed Mock, competing freeze and live command, late batches, 2 faults | the D1 invariants do not depend on who waits for a batch |

*Bounds.* Two or three command ids with three or four requests give: a
competitor for the same sequence, a successor, an id used for two different
requests, and a freeze in the middle. `MaxFaults = 2` allows a lost answer
followed by a crash of the retry, and a crash of both the DO and a writer; one
fault is enough for every failure the code distinguishes. `MaxLocalSeq` bounds how
often the older endpoints run; two steps suffice to be ahead of D1 and behind it.
Two writers are enough for the lease to be contended.

*Fairness.* `WF` of the handler: code that runs inside `blockConcurrencyWhile` is
driven on until it answers, throws or dies. `WF` of a Worker's own steps, likewise.
A Worker's call to the DO waits until no handler runs; requests to a DO are
delivered in order of arrival, so a waiting call is not passed over for ever: `SF`
for `FreezeBegin` and `Release`. Nothing is assumed of clients or administrators,
and crashes are excepted in the property.

CHECK_DEADLOCK is on in every run: a session can always be looked at.

## 4. AuditOutbox

An accepted command leaves a row in `bid_audit_outbox` (`CanonicalCommand` shows that it
does, in the same batch). `drainBidAuditOutbox` copies the payloads to R2 later. The
DO starts a drain after each command, the daily cron one more; they overlap.

| Variable | Code |
|---|---|
| `rows` | `bid_audit_outbox` by event: `status`, `lease_owner`, `next_attempt_at`, `lease_expires_at` |
| `stored` | the objects under `canonical-audit/` in R2 |
| `drain` | per call of `drainBidAuditOutbox`: program counter, time since its start (`age`), the rest of the selected rows, the row in hand |
| `faults` | crashes, failed calls and lost answers so far |

*Time* is relative to the present: `Tick` makes every recorded time one less and every
running drain one older, so that no clock grows. A drain reads the clock once, when
it starts; `now` is therefore `-age`, a lease is set to `LeaseTime - age`. Times in
the past are told apart only as far back as a drain can have started (`Earlier`).

*Actions.* `Start` → `Scan` (the SELECT) → for each row `Lease` (the conditional
UPDATE) → `Put` → `Ack`, or `DeadLetter` for a payload with the wrong SHA-256, or after
`PutFails` `Retry` → `Finish`. `LeaseThrows` ends the whole drain, as in the code, where
this UPDATE is outside every try; `SettleThrows` is caught and the row stays
leased. `Crash` may come at any await. Each UPDATE is one step, its WHERE its guard.

*Properties.* `ArchiveVerified`: archived implies stored, and R2 and the dead letters
divide the sound payloads from the corrupt. `VerdictFinal`: a late drain never takes a
verdict back. `OneArchiver`: two drains put the same payload only where one has been
running for a whole lease time. `EventuallySettled`: every event gets its verdict, if
drains come to end before the leases they gave out (`Prompt`). `LeaseHonoured` (an
unexpired lease is ended by its holder only) and `TypeOK` are proved.

The run `outbox_archive` has two drains, two events (one corrupt), a lease of two units and
drains of up to three, so that a drain may outlive its leases; two faults; LIMIT 2.
*Bounds.* Two drains give a loser and a winner of every race; a lease of two units tells
apart "in force", "just expired" and "long expired"; two events suffice for a
drain to be late at its second row. Two faults: one of each of two drains, or a lost
answer and a crash of the repair.

*Fairness.* `WF(Tick)`: time passes. `WF` of starting a drain: the cron is daily.
`WF(Step(d))`: a drain that has not crashed goes on. Faults are bounded, that is, R2
and D1 work again at some time. Without `Prompt` the liveness property fails: if every
drain outlives its lease, two of them may take a row from each other for ever, for the lease
is counted from the start of the drain and never renewed.

## 5. LiveBid

`CanonicalCommand` knows only that a live command is accepted or rejected. `LiveBid` is what
an accepted one does: `reduceLiveBidCommand`, with the guards and the A-Day evaluation
that `commitLiveBidCommand` puts around it. The state is one JSON document, replaced as a
whole by each command; so there is one variable, the record `bid`, and one action per
command. Atomicity is justified by `CanonicalCommand`: every accepted command was built on
the state it replaces.

### State

| Field of `bid` | `BidSessionState` |
|---|---|
| `phase`, `held` | `currentPhase`, `live.pausedPhase` |
| `cursor`, `bidder`, `order` | `queueCursor` (here from 1), `currentBidderId`, `bidOrder` |
| `fills` | `fills`: whose, with its A-Day or not, `aDayDeferral.positionId` |
| `last` | the position of `live.lastSelectionBidId` |
| `revoked` | `live.corrections` that are not yet replaced, by member |
| `picks`, `owing` | `aDay.picks`, what is left of `aDay.bidOrder` |
| `completed`, `withdrawn` | `live.completedStageIds`, `live.withdrawnPositionIds` |
| `acting` | unreleased `live.exceptionalAssignments` |
| `review`, `responses` | `live.specialty`, `live.specialtyResponses` |
| `disposition` | the latest of `live.dispositions` of each member |
| `unresolved`, `returning`, `attempts`, `sealed` | `annual`: `unresolvedMemberIds`, `returningMemberId`, `contactAttempts`, `completion` |

The frozen policy is the constants: `Stages` in their order (who may select what, and
whether it is a Days stage), `Turns`, `Deferred` (positions whose A-Day timing is
`AFTER_POSITION_SELECTION`), one interrupting `Specialty` with its ranking, the
disposition `Rules`, `MinAttempts`, `Fallback`. Which A-Day is chosen is left to `ADay`; that one is chosen,
and where it is kept (in the award or among the picks), is here.

`Granted` is `actionPermissions`: the actions granted to somebody. A run that grants few
of them is a bid under such a policy, and this is how the runs divide the work.

### Actions

Each action is the whole path of one command: guards of the service, guards of the
reducer, new state, `CloseReview` where an override ends an adjudication, and `Accept`,
which evaluates the A-Days (`ADaysEvaluated`), resolves an answered A-Day turn of an
override (`Resolved`) and prompts for what is owed (`Prompted`). Pause and resume are not
followed by the evaluation, as in the code. Commands with an acknowledged override are
actions of their own (`DirectSelection`, `DirectADay`, `OverrideDefer`) or a parameter
`override`. `NextAvailable` is `nextAvailableFrom`, the loop written as the first entry
that offers a turn.

Eligibility, pools, A-Day capacity, term departures and the hard contact clock can only
reject: they are the freedom not to take an enabled action. The priority verdict of
a correction depends on the command log and is left free in the same way. What a fallback tier answers
is any member with an open turn. Left out: `record_fallback_response`, `checkpoint` and
`set_presentation_mode`, which add evidence and move nothing.

### Properties

- `EveryoneAsked`: when selections are over, every participant had a chance.
- `TurnsGivenAreUsable`: whichever command moves the turn gives it to a member who can answer.
- `NeverRewinds`: the passed part of the order and the cursor are never taken back.
- `ContactSettled`, `ReturnKeepsTurn`: contact and return beside the queue.
- `ADaysPrompted`, `ADayKept`: no owed A-Day is forgotten, no chosen one is lost.
- `PriorityRespected`, `ReviewHoldsTurn`: specialty adjudication.
- `StaysPaused`: only resume ends a pause, and gives back what is held.

### Runs

| Run | Instance | Shows |
|---|---|---|
| `live_ordinary` | three members, two stages; selections (with fallback), dispositions, contact, pause, completion | the ordinary bid |
| `live_specialty` | three ranked members, two specialty seats; selections, dispositions, transitions with withdrawn seats | adjudication; the queue under transitions |
| `live_overrides` | two members, two seats of one stage, one a specialty seat; awards, corrections, deferrals, acting duty, alterations by override, amendments, transitions | overrides in an adjudication; the passed part of the order is kept |

*Bounds.* Three members, three seats, a rank stage and a Days stage, one member in both:
enough for a turn behind and before the cursor, an early award with a deferred A-Day, a
return beside a waiting turn, a completed stage and two candidates ahead of a requester.
The run with overrides, whose state graph is larger, has two members and two seats, and its
state constraint `FewIrregular` explores on while at most two things (`MaxIrregular`) are out of
the ordinary at once: acting duty, a withdrawn seat, an award in correction, a deferral, a turn
given again. Two are what its properties relate; what needs three at a time is not checked.
`MaxTurns` bounds what override deferrals append and how far the cursor runs beyond the
end. Contact attempts are counted up to `MinAttempts`. A run grants the commands its
question is about (`Granted`), because all of them together are out of TLC's reach.

*No fairness, no liveness.* Every step is a person's command; nothing obliges anybody to give
one. CHECK_DEADLOCK is off: a sealed session accepts nothing more.

## 6. ADay

`ADay` EXTENDS `LiveBid` with `alloc`: the day of each award (`fill.aDay`), whether an
administrator approved a departure from the rules for it (`fill.aDayOverride`), and `aDay.picks` in
the order they were made. Each action is the action of `LiveBid` that chooses, moves or
drops a day, conjoined with `evaluateFrozenADays`: the engine starts from an empty
allocation and replays the ordinary picks in the order they were made, then those with an
approved departure, then the pick of this command, each under group capacity, scoped maxima and
the officer invariant with its look-ahead; an objection rejects the command, unless the
pick is the one an override names or is approved.

- `DocumentsAgree`: awards and picks say the same, and what `LiveBid` keeps of them is so.
- `CapacityKept`: the members off on one day without an approved departure are within the limits,
  counted by the shift of the seat they have now, on the D shift within those of the scopes.
- `Replayable`: what was accepted is accepted again.
- `StaysPaused` and `ADayKept` of `LiveBid` are checked here too, where more commands are granted.

`aday_mixed`: two members, one an officer, two seats on one shift, one with a deferred A-Day, one group
available and one not, at most two off, no officer wanted per group, and a scoped maximum
of one. `aday_replay` asks for one officer per group and has two officers: there
`Replayable` is refuted (section 10). `aday_shifts` has seats on two shifts and room for one
member a day: there `CapacityKept` is refuted by an amendment from one shift to the other, which
`aday_mixed`, with one shift, cannot make. *Bounds*: two members suffice to fill a group and a
scope; the scope is full with one, the group that is not available with nobody.

## 7. Rehearsal

`auto-bid` and `manual-pick` of a mock session. A command looks for a settled receipt of its
key (`AnswerSettled`), takes the lease (`Submit`), looks again (`InspectAgain`), checks
revision and phase (`Check`), or recovers a pending receipt an older program left
(`Recover`), computes its bids (`Plan`), and sends one batch: reservation, bids with audit
rows, the conditional UPDATE of the session, the completion (`Execute`, guarded by
`BatchAllowed`: keys, CHECKs and triggers). `CommitUnheard`, `Abort` and `CallFails`
are the ways the call can throw; then `Recheck` reads the receipt; `Verify` answers;
`Release` and `ReleaseFails` return the lease or do not. With `LateBatches` a batch may
outlive the call and run as `LateBatch`. `Init` contains whatever receipts and bids an
interrupted older program may have left (`Historic`). Beside them: `Start`, `Pause`, `DayEnd`,
`Resume` (under the lease, one step each, because the trigger of migration 0022:492-516
checks again in the UPDATE), `CloseMock` (no lease) and `Seal`.

- `AnswersTrue`: what a client was told is what the tables say, and stays so.
- `CommandsWhole`: reservation, bids, audit rows and completion are there together, and the bids are those
  of the answer; with late batches all but those of one command, which was pending from an older program.
- `OneCommandPerRevision`: one command per reviewed revision, no seat twice.
- `SealedForGood`: nothing moves once canonical state exists.

`rehearsal_commands`: two Workers, two members, two seats, four requests (two share a key,
three the reviewed revision, one is for the next), three faults, late batches; symmetric in
the Workers. *Bounds*: two Workers race; three faults allow a lost answer, a crash of the
retry and a failed release; revision 3 leaves room for a control before, between and after.

## 8. PortalOutbox

After the bid an administrator publishes the final assignments: one row per employee in
`final_portal_outbox`. A drain sends a message per due row to the Queue; a consumer claims the
row (`in_flight` for 300 s), posts it and records what became of it.

| Variable | Code |
|---|---|
| `sequence`, `complete` | `current_seq` and `currentPhase` of the canonical state |
| `outbox` | `final_portal_outbox`: status, attempts, whether `next_attempt_at` has come (`due`) |
| `queue` | `PORTAL_QUEUE`, a bag; a message carries the attempts its row had |
| `todo` | rows that drains have selected and not sent yet |
| `retrying` | rows `portal-final-retry` has read and not written yet |
| `consumer` | local state of each consumer, one step per call to D1 or to the Hub |
| `hub` | the sequence of the assignment the Hub holds of each employee |

*Actions.* `Command` (a correction moves the sequence), `Publish`, `AskRetry` and `Retry`
(read, then write), `Drain` (the cron), `Send` / `SendFails`, `Skip` and `Take` (the read of
`claimFinalMessage`), `Supersede`, `Claim` (the conditional UPDATE), `Attempt`, `Post` /
`PostFails` (5xx, 4xx, a timeout before or after the Hub recorded the assignment), `Mark` and
`Write` (the attempts, then the status: two UPDATEs), `Requeue`. `Fail` is a call that
throws or a dead consumer: the message comes back until it goes to the dead letters.
`Duplicate` and `Discard` are the Queue's and a disabled Worker's. `Elapse`: the time of
the next attempt comes, or the claim of a consumer that is gone expires.

- `OnePoster`: no two consumers deliver a row at once, however many messages name it.
- `Delivered`: done means that the Hub has the assignment, or a later one; the Hub has nothing unpublished.
- `VerdictsFinal`: late answers and old messages take no verdict back and refund no attempt.
- `EventuallySettled`: every row is delivered, given up or superseded in the end.

`portal_delivery`: one employee, two sequences, two consumers, one retry, one redelivery,
one message added by drains at a time (besides those requeued, redelivered and duplicated), two faults.
*Bounds*: rows of different employees share nothing but the Queue, which may hold several
messages of one row; two sequences give a stale row and its successor; two faults a
crash and the loss of what would have repaired it. CHECK_DEADLOCK is off: all rows may be settled.

*Fairness.* Time passes, the cron comes, a drain goes through its rows, the Queue delivers, a
consumer that was not stopped goes on. Nobody has to publish, correct or retry. A
consumer is taken to end before its claim expires (`Handled`): 20 messages with posts of at
most 10 s, against 300 s.

## 9. Proofs

`CanonicalCommandProofs` proves, for every set of commands, writers and bounds,
under the assumptions of `CanonicalCommand` (requests and constants are of their
types; a Real session has stages, a pinned one too; `None` is not a value of anything):

- `TypeCorrect`: `TypeOK`, and that an accepted command always has a state row. It
  needs `JobHolds` — what the handler holds at each step — because `TypeOK` alone
  does not say that `job.req` is a request when it is used.
- `LedgerCorrect`: `BundleAtomic`, `GapFree` and `NoLostUpdate`. The strengthening is
  `LedgerInv`. The four records of D1 cannot be shown to agree from the tables
  alone: a batch may run at any time after it was prepared. `BatchesFit` says what is
  known of every batch that may still run: it was built on a state that was not
  frozen, and, unless it seeds the row, on a row no later than the present one, and on
  this very row if the sequence is the same. Hence a batch that the triggers let
  through replaces exactly the row it was built on (`ExecuteMeaning`), and all else
  follows. Every step of the system is of one of five kinds for D1 (`StepKind`):
  `Quiet`, `Executes`, `Rejects`, `Prepares`, `Starts`; the invariants are proved against
  the kinds.
- `FreezeFinal`: from `BatchesFit`, a batch that executes never finds a frozen row.
- `LegacySealedForGood`: from the kinds.
- `AnswersKept`: with `JobAnswers` (the answer the handler is about to give is on record),
  and the lemma that no receipt on record is ever replaced.

`CommandServiceProofs` builds on them and proves what clients and direct writers rely on:

- `LeaseExcludes` (`CheckedStillTrue`), without late batches. `LeaseInv`: the holder of the lease is the
  only writer under way, and a command that may still write runs without a lease or is the
  freeze that holds it. With late batches it is false, as a batch may run after its lease was lost.
- `LogImplemented` (`ImplementsLog`): the initial state is one of `CommandLog`, and each step is a step of it or a
  stutter (`StepRefines`, one case per action), under `RefInv`, which says what each
  step of the handler knows of the receipt it is about to report. Without late batches: with them a
  command may be told STALE_SEQUENCE although it was accepted (section 10).
- `AnswersFinal` (`ReplyFinality`): from the refinement, what was told is what the receipts say (`ToldTrue`).
- `AckedStaysVisible` (`AckedVisible`), with late batches too: a step that replaces the projection
  has read a row that contains every acknowledged command (`ShownInv`).
- `RebuildableAlways` (`Rebuildable`): under a published definition the pin is known before anything is
  canonical (`PinKnown`); else the marker is (`MarkerKnown`), if only freezes are canonical
  and none comes late. Where neither holds the property is false (section 10, the marker).
- `NothingOverwritten` (`NoLostUpdate`), a part of the ledger.

`AuditOutboxProofs` proves, for every number of events and drains, every lease time,
delay and limit:

- `OutboxTypeCorrect`: `TypeOK`, inductive as it stands.
- `LeasesHonoured`: a lease in force is due for nobody (`InForceNotDue`), and the final
  UPDATE compares the owner.
- `VerdictsFinal`: from `RowStep`, which lists all that can happen to a row in one step.
- `ArchiveSound`: the strengthening is `EvidenceOf`: a drain about to acknowledge has
  put the object, and what it puts has passed the comparison.
- `ArchiversExclude`: `OneArchiver`. The strengthening is `Holds`: as long as a drain is
  younger than a lease, the row it has in hand is leased to it and expires exactly
  `LeaseTime` after the drain's start; hence it is due for nobody else.

`LiveBidProofs` proves, for every frozen policy, every number of members, seats and stages,
and without any assumption on the constants:

- `PausedUntilResumed` (`StaysPaused`): every command but resume is put together from a few
  pieces (`Advance`, `SettleSelected`, `CloseReview`, `Concluded`, ...), each of which leaves a
  paused session paused (`Keeps`). The invariant is only that the field is there
  (`HasPhase`).
- `SuspendedTurnHeld` (`ReviewHoldsTurn`): with the field names (`Held`) the property is
  inductive: a command either is barred during an adjudication or closes it (`Closed`), and then may move
  the turn, or it changes other fields only (`Alike`); and the evaluation behind it moves the
  turn of nobody in a position turn, overrides excepted (`ConcludedHeld`).

`LiveTurnsProofs` proves the other properties of the queue. Its inductive invariant is `Live`:
the document has its shape, the cursor is where the bidder stands, an award has its A-Day or may
defer it, an adjudication belongs to the bidder it interrupts, and what has a pick has an
award. Every accepted command is one of a few kinds of step (`Stepped`), shown once per action; each
theorem is then about the kinds. It needs that the policy's lists are sequences, and that no
record is `null` (`NullIsNoRecord`).

- `DocumentTyped` (`TypeOK`) and `PassedStaysPassed` (`NeverRewinds`), whatever is granted.
- `TurnsCanBeAnswered` (`TurnsGivenAreUsable`), if nobody may alter the order: an alteration puts the entry
  at the cursor in turn without asking whether its member has a seat.
- `EveryoneAskedInTurn` (`EveryoneAsked`): every entry behind the cursor was asked (`Asking`). It assumes an
  entry for each participant, as `computeFrozenStageOrder` (`lib/live-bid-policy.ts:133-178`) makes them, and
  neither overrides nor transitions: a transition passes over entries of stages it does not
  complete, and only the completion counts who is missing.
- `ContactsSettled` (`ContactSettled`), without the commands that do leave a contact open: overrides,
  transitions, corrections, amendments and alterations.
- `SpecialtyByRank` (`PriorityRespected`), without a fallback tier, overrides and corrections, which
  hand a seat past the ranking.

`ADayProofs` proves, for the frozen policies of `LiveBid`:

- `ChosenADaysKept` (`ADayKept`), whatever is granted: a command changes the award of one member at most
  (`OthersKept`) and says what that award is (`AwardIs`); so only that member's A-Day is at stake.
- `ADaysArePrompted` (`ADaysPrompted`): whoever holds an award or may be offered a specialty seat has
  an entry in the order or has chosen an A-Day (`Provided`), and an
  evaluation that ends the selections prompts all entries that owe an A-Day (`PromptedAll`). It assumes
  either that no specialty candidate accepts (no specialty, or no transitions granted), or that there are no
  overrides and everybody ranked has an entry (`RankedEntered`). The latter is what
  `computeBidEvaluationStageOrder` (`lib/live-bid-policy.ts:144-178`) and the ranking
  (`lib/canonical-specialty-priority.ts:88`) make of members who are not excluded. A candidate who accepts leaves the
  order with an A-Day; only an override takes that away.
- `ReturnsBesideTheQueue` (`ReturnKeepsTurn`), without overrides and transitions, which end a return and
  move the turn at once.

and, for every capacity, scope, officer rank and assignment of seats to shifts:

- `ADaysImplementLiveBid`: `ADaySpec` implies `LiveBid`'s `Spec`, each command being that of `LiveBid`. So what
  is proved of `LiveBid` holds with the engine behind it, and its invariants may be used here.
- `AlwaysAgree` (`DocumentsAgree`): inductive with `Sound` (shape, one pick for each member). It rests on
  what the engine's lists contain (`RetimedPicks`): the picks that stay and those of awards that carry their day.
- `CapacityAlwaysKept` (`CapacityKept`), as long as no amendment moves a late pick to another
  shift (`LatePicksStay`; finding 2 is what happens otherwise). `Seated` says that each pick counts on
  the shift of its member's seat. Given that, the limits are not an induction over commands at all:
  each evaluation establishes them anew. The replay contains exactly the retimed picks
  (`ReplayHolds`); what is without an approval afterwards was let through on its merits
  (`UnapprovedFine`); of those on one shift and day the last one was let through on top of all
  the others (`LastAfterOthers`); so they are no more than the limit (`FineKeepsLimits`).
- `OnlyOfficersRefuse` and `AcceptedAgain` (`Replayable`), under `LatePicksStay` too. The picks are replayed in
  another order than they were made in, so that none need meet the colleagues it met then.
  No exchange of neighbours is needed: ordinary picks come before the approved ones
  (`OrdinaryBefore`), so each meets ordinary ones only, and all of these together are within
  the limits (`CapacityKept`); hence there is room for each on top of any of the others
  (`RoomForOne`). Approved picks are let through whatever they meet. What remains is that a pick is
  still that of its award (`Current`, `RetimedAgain`) and on a day its shift has (`OnValidDays`);
  with `Seated` and `CapacityKept` they are the invariant `Kept`. Left over is the look-ahead for
  officers, which depends on who comes later: `OnlyOfficersRefuse` says that nothing else ever refuses an accepted
  pick, whatever number of officers is wanted. `AcceptedAgain` says that nothing at all does where none or zero are
  wanted (`NoOfficersNoShortfall`), or as long as awards are to come, when the look-ahead does not run.

`RehearsalProofs` proves, for every bid order, set of rules and requests, number of Workers
and bound, with late batches and crashes:

- `SealedStays` (`SealedForGood`) and `RecordsStay` (`RecordsFinal`): directly from the
  guards of the batch (`BatchAllowed`) and of the other writers.
- `AnswersOnReceipt`: what a client was told as final is on record. `OneApplied`: one
  reviewed revision carries one applied command. Both from one inductive invariant:
  `Shapes` (the variables are functions and records of their fields), `Records` (a completed
  receipt belongs to a revision that is past), `Handlers` (at each step of a Worker, what it
  has seen is still there, and whoever is past `Submit` has the lease), `InFlights` (what is known of
  a batch that may still run), `Told` (each answer is backed by a record), `AppliedOnce`. `Handlers`
  is why the lease is needed: without it the receipt a Worker has inspected could
  change before its batch.
- `AnswersStayTrue` (`AnswersTrue`): every bid a client was told of has the seat (`Picked`). That the planned
  seats are open, each taken once, is induction along `AutoPlan`'s list, done over the set of
  lengths for which it holds.
- `OneCommandAlways` (`OneCommandPerRevision`), when every command has its own key (`KeyPerCommand`), and
  `CommandsStayWhole` (`CommandsWhole`) under the same hypothesis, late batches included: `Whole` says that bids, audit
  rows, reservation and completion of a command appear in one step, and that the revision of
  a completed command is past, as long as no batch was late. `LateInv` is what remains when one was: a batch that
  reserves its receipt finds no bids of its command; one that does not was planned on a pending receipt without bids
  (`RetriesKnown`, `PendingBehind`); and no command but the one pending at the beginning ever comes to be retried
  (`OneOdd`).

`PortalOutboxProofs` proves, for every number of employees, consumers, corrections,
messages and faults, and every budget of retries:

- `TypeCorrect`: `TypeOK`.
- `PostersExclude` (`OnePoster`), `DoneIsDelivered` (`Delivered`), `VerdictsKept`
  (`VerdictsFinal`): `OnePoster` is not inductive: it needs to know that a row in delivery is
  `in_flight` and its claim not expired, or superseded (`Claimed`). Superseded is for good, so
  neither can be claimed again. `Counted` (the attempts of a row in delivery are those of the
  message) is why `Mark` and `Write` never take attempts back; `Received` and `Decided` say
  that a consumer that is about to write `done` has an answer of the Hub behind it.

*Induction over data.* The library's induction theorems take an operator and cannot be used. Where an
induction over the length of a list is needed (`Among`, the plan of an auto-bid, the last pick of a set) it
is stated over sets: a set of numbers that contains 0 and, with each number, the next contains
all of them (`InductOnSets`, proved from the least element of a set). What a filter of the model keeps is
therefore written with `Among`, a recursive function, in the modules with theorems.

*What the hypotheses leave out.* A theorem that assumes a command away was first tried with it: TLC refutes the
property on a small instance that grants it, so that the hypothesis is not a convenience of the proof.

| Theorem | Assumed away, and refuted with it |
|---|---|
| `EveryoneAskedInTurn` | overrides; transitions (over a stage, with three) |
| `ContactsSettled` | overrides; amendments and corrections; alterations; transitions with a fallback tier or a specialty |
| `SpecialtyByRank` | overrides; amendments and corrections; the fallback tier |
| `ADaysArePrompted` | overrides together with specialties and transitions |
| `ReturnsBesideTheQueue` | overrides; transitions with a fallback tier and amendments |
| `TurnsCanBeAnswered` | ordinary alterations of the order |
| `CapacityAlwaysKept`, `AcceptedAgain`, `OnlyOfficersRefuse` | late picks amended to another shift |
| `LeaseExcludes`, `LogImplemented`, `RebuildableAlways` | late batches |

Without a fallback tier and specialties no counterexample with transitions is known to
`ContactsSettled` and `ReturnsBesideTheQueue`; they are not proved there.

Only model-checked: `LeaseReturned` and both `EventuallySettled` (liveness under fairness is out of the prover's
reach). Every other property of a passing run is stated by a theorem, under the hypotheses given
here; `LiveBid`'s runs check theirs with some of the commands that a hypothesis assumes away.
`Replayable` is proved but for an exact number of officers greater than zero after the last award, where it is false
(finding 1).

## 10. Findings

Two have a run of their own:

1. **An accepted A-Day allocation is refused ever after** (`aday_replay`,
   `lib/frozen-a-day.ts:282`). The replay takes picks without an approved departure before those
   with one, and its look-ahead does not count officers whose approved pick comes later. With two officers and
   one wanted per group, an allocation that meets every total is refused by
   the next evaluation, and with it every later command that is evaluated, completion included. That this
   look-ahead is the only thing that can refuse what was accepted is the theorem `OnlyOfficersRefuse`.
2. **A group is filled above its maximum by ordinary picks** (`aday_shifts`,
   `lib/frozen-a-day.ts:275`). A pick made after the position carries the shift of the seat its member
   had. `amend_selection` may move the award to a seat of another shift, and leaves the pick as it
   is. From then on `canPick` asks for room on the shift of the seat, and the capacity meter counts
   the pick on the shift it left: a colleague gets the last place that was taken. Line 89 says that only
   explicit overrides may depart from the capacities. Whoever amends across shifts without a late pick is
   not affected, and that nothing else breaks the limits is the theorem `CapacityAlwaysKept`. `Replayable` is lost
   the same way: a late pick that moved counts in a scope of the new shift as soon as somebody else does, and
   what was accepted exceeds its maximum.

The others are behaviours of the modelled code that a property we tried at first did not
survive. They explain why the properties are stated as they are, and mark what no
run may claim.

*Canonical commands and the Durable Object*

- *A command is told STALE_SEQUENCE although it was accepted.* The catch block
  (`canonical-command-service.ts:1953`) reads the receipt and the state in two queries; a late batch that
  commits between them is taken for a competitor. A retry is answered ACCEPTED. `ReplyFinality` and
  `ImplementsLog` are checked, and proved, without late batches.
- *A second truth on a Real session.* The older skip, override and freeze routes
  refuse Mock sessions only (`routes/admin/bid.ts:55`). On a Real session with canonical
  state the DO keeps the operation in its projection alone, and the next hydration
  drops it. Migration 0022 (line 366) says this cannot happen. `AckedVisible` speaks of
  canonical commands only.
- *A pending marker is cleared by another freeze's rejection* (`bid-session.ts:2022`). With
  late batches the first freeze may commit afterwards, and the DO never rereads D1.
  `Rebuildable` is checked without late batches.
- *A closed Mock gets a canonical state.* `start` updates the session conditionally and
  inserts the state row unconditionally in one batch (`routes/admin/bid-session.ts:694`);
  `close-mock`, which takes no lease, may run between the recheck and the batch.
- *A lease is kept for ever* by a Worker that dies with it or whose release fails: it has no
  expiry (`bid-session.ts:536`). `LeaseReturned` excepts crashes.

*Rehearsal*

- *A completion accepts any session at the expected revision plus one*
  (`routes/admin/rehearsal.ts:558`), whoever moved it there. A late batch may so complete its receipt as applied
  although its own UPDATE of phase and bidder matched no row. The comment at line 539
  says that a missed UPDATE rolls the batch back. `OneCommandPerRevision` excepts runs with a late batch.
- *A retry may leave bids nobody was told of.* A pending receipt of an older program is planned again by each retry
  (`routes/admin/rehearsal.ts:1120`), which reserves nothing. If the first batch is late, another late command
  takes the seat, and the retry finds no seat and completes the receipt without bids, the first
  batch still inserts its own: the completion matches no row (line 573) and nothing else refuses it.
  `CommandsWhole` excepts this one command; commands that reserve their receipt are not affected (`CommandsStayWhole`).
- *A closed mock is opened again*: `close-mock` leaves the revision alone, so that a command in
  flight writes its planned phase over `complete`.
- *Recovery recognises a command by its fingerprint*, not by its key, and `bids.idempotency_key`
  is unique: of two keys with the same request one excludes the other.
- *`Verify` answers with the Worker's own plan*, not with the answer in the receipt.
- *manual-pick checks no phase, auto-bid picks while the session is paused, and a member may
  be given two seats* by the two of them.

*The live bid*

- *An answered A-Day turn is kept.* Only overrides advance past it: a correction or an amendment that
  supplies the A-Day without an override leaves the turn, and the member has nothing to
  answer (`canonical-command-service.ts:1595`, `live-bid-reducer.ts:212`).
- *No prompt after a pause* (`live-bid-reducer.ts:500`): the last award is made by override, without
  A-Day, during a pause; resume gives a complete session with an A-Day owed. Any further
  command prompts. `ADaysPrompted` excepts resume.
- *A specialty acceptance leaves the contact unresolved* (`live-bid-reducer.ts:1021`), and so does
  a correction without override; completion is blocked until the member is returned or
  overridden. `ContactSettled` is checked where neither happens.
- *A position turn for a member with a seat*: by an ordinary alteration of the order
  (`live-bid-reducer.ts:874`), and by a selection that replaces a revoked award and keeps the turn
  (`canonical-command-service.ts:820`). `TurnsGivenAreUsable` is checked without ordinary
  alterations and speaks of turns that are given, not of turns that are kept.
- *A postponed member gets no turn* (`live-bid-reducer.ts:210`): the cursor had run one beyond
  the end of the order, and the deferred entry is appended before it.
- *Priority can be overridden*: a correction with override may hand a seat past the ranking;
  `PriorityRespected` is checked without overrides.

*A-Days*

- *After an approved excess of officers every later ordinary pick on the shift is refused.* The look-ahead ignores
  capacity, counts members who have picked already and members with two turns twice, and runs at
  the first pick only when every A-Day is deferred.
- *A policy nobody can meet is accepted*: a minimum of one, or one officer per group, where
  some group is not available, never lets the bid be completed. `aday_mixed` asks for no officers,
  because with one `Replayable` fails (finding 1).

*Archive and portal*

- *Two drains archive the same payload at the same time* if a drain outlives its lease
  (`audit/archive-outbox.ts:67`): the lease is counted from the start of the drain and never renewed,
  against the doc comment at line 58. Same bytes, same key; the row is settled once.
  If this happens to every drain, an event may wait for ever (`Prompt`).
- *A stale assignment may reach the Hub.* `docs/final-portal-publication.md:59` says "A changed
  canonical sequence supersedes stale deliveries before any POST"; the sequence is compared when the row
  is claimed, not when it is posted. The Hub's own comparison protects newer
  assignments only, so that the older one stays until the next publication.
- *A crash between the two UPDATEs of a verdict costs an attempt* (`queue-consumer.ts:153`): the
  attempts are counted, the row is found again after its claim and sent once more; attempts
  may so exceed the budget. `portal-final-retry` starts a new budget.
- *A row may be failed although the Hub has it*, when the answer to the last attempt was lost.
- *A redelivered message does not repair a crash.* While the dead consumer's claim is valid, the
  message is skipped and acknowledged; only a drain after 300 s, in practice the daily cron,
  sends the row again.

## 11. Coverage, and what is not modelled

The repository has about 149 000 implementation lines, most of them web pages, administration of
plans, personnel and schedules, and schemas. The definitions here map some 5 000 of them: the code
that moves a bid, its A-Days, its commands, its rehearsal, its archive and its publication. What is
left has little state of its own for a model checker to explore:

- *Legacy audit chain* (`audit/chain-emitter.ts`): the audit path of mock sessions, one buffer per DO, beside the
  canonical archive. Its hazards (a chunk in R2 without its chain row; a pick rejected because R2
  was unavailable, which stays rejected under its key) are real and unchecked.
- *Legacy session handlers and the synthetic specialty workflow*: their effect on the projection is in
  `CanonicalCommand` (`LegacyOp`); the queue rules are the older form of what `LiveBid` models.
- *Older portal rows* (`portal_writeback_queue`, one per bid), the preview that computes the
  final assignments, clear-year and the reconciliation of the older queue.
- *The content of policies and targets* in `CanonicalCommand`: a nondeterministic verdict; in `LiveBid`
  eligibility, pools and the contact clock: the freedom not to act.
- *Live commands that only record evidence* (fallback responses, checkpoints, presentation mode).
- *Timer routes, websocket fan-out and wire formats*: no modelled state depends on them.
- *Weekday capacities* of the A-Day engine: the service never gives any.
- *Eligibility and points*: pure predicates over credentials with table-driven tests; a model would restate them.
- *Post-bid and award transition*: run on the sealed result, with optimistic revisions.
- *Authoring of definitions and annual plans, personnel, qualification, telestaff*: administration
  data outside the running session, large forms over single tables.
- *Authentication, PINs, tickets, rate limits*: a security boundary, not part of this development.
- *The web application*: everything it changes goes through the Worker.
