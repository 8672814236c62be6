----------------------- MODULE CanonicalCommandProofs -----------------------
(***************************************************************************)
(* Proofs about CanonicalCommand, for every set of commands, every number  *)
(* of writers and every bound.                                             *)
(***************************************************************************)
EXTENDS CanonicalCommand, TLAPS

(***************************************************************************)
(* Type correctness needs to know what the handler holds at each of its    *)
(* steps, and that an accepted receipt never stands without a state row:   *)
(* a replay reads the row of an accepted command without looking whether   *)
(* it is there.                                                            *)
(***************************************************************************)
JobHolds ==
  /\ job.pc # "idle" => job.req \in Requests
  /\ job.pc \in {"mark", "sent"} => job.batch \in Batch
  /\ job.pc \in {"reject", "finish", "answer"} => job.answer \in Answers
  /\ job.pc = "reject" => job.answer.code # "ACCEPTED"

AcceptedHasRow == \A c \in CommandIds : Accepted(c) => row # None

TypeInv == TypeOK /\ JobHolds /\ AcceptedHasRow

\* A state after one more operation is a state.
LEMMA AppliedType ==
  ASSUME NEW s \in State, NEW op \in Ops, NEW f \in BOOLEAN
  PROVE  Applied(s, op, f) \in State
<1> DEFINE log == s.log \cup {<<s.seq + 1, op>>}
           frozen == s.frozen \/ f
<1>1. s.seq + 1 \in Nat /\ s.log \subseteq Nat \X Ops /\ s.order \in BOOLEAN
  BY DEF State
<1>2. log \subseteq Nat \X Ops
  BY <1>1
<1>3. frozen \in BOOLEAN
  OBVIOUS
<1> HIDE DEF log, frozen
<1>4. [seq |-> s.seq + 1, log |-> log, frozen |-> frozen, order |-> s.order] \in State
  BY <1>1, <1>2, <1>3 DEF State
<1> QED
  BY <1>4 DEF Applied, log, frozen

LEMMA AfterType ==
  ASSUME NEW b \in Batch
  PROVE  After(b) \in State
<1>1. b.base \in State /\ b.req \in Requests
  BY DEF Batch
<1>2. b.req.id \in Ops
  BY <1>1, RequestsAssumption DEF Ops
<1> QED
  BY <1>1, <1>2, AppliedType DEF After

LEMMA RequestType ==
  ASSUME NEW r \in Requests
  PROVE  r.id \in CommandIds /\ r.kind \in {"freeze", "live"} /\ r.expected \in Nat
  BY RequestsAssumption

LEMMA InitType == Init => TypeInv
<1> SUFFICES ASSUME Init PROVE TypeInv
  OBVIOUS
<1>1. Pristine \in State
  BY DEF Pristine, State
<1>2. Idle \in Jobs
  BY DEF Idle, Jobs, JobPhases
<1>3. receipts \in [CommandIds -> Answers \cup {None}]
  BY DEF Init
<1>4. writers \in [Writers -> WriterStates]
  BY DEF Init, WriterStates
<1>5. legacy \in Legacies
  BY DEF Init, Legacies
<1>6. faults \in 0..MaxFaults
  BY BoundsAssumption DEF Init
<1>7. TypeOK
  BY <1>1, <1>2, <1>3, <1>4, <1>5, <1>6 DEF Init, TypeOK
<1>8. JobHolds
  BY DEF Init, JobHolds, Idle
<1>9. AcceptedHasRow
  BY DEF Init, AcceptedHasRow, Accepted
<1> QED
  BY <1>7, <1>8, <1>9 DEF TypeInv

\* The statements of a batch keep the D1 tables well typed.
LEMMA ExecuteType ==
  ASSUME TypeInv, NEW b \in Batch, ExecuteBatch(b)
  PROVE  /\ row' \in StateRows
         /\ receipts' \in [CommandIds -> Answers \cup {None}]
         /\ events' \subseteq [seq: Nat, id: CommandIds]
         /\ outbox' \subseteq CommandIds
         /\ legacy' \in Legacies
         /\ row' # None
         /\ Reply(b.req, "ACCEPTED", b.base.seq + 1) \in Answers
<1>1. b.req \in Requests /\ b.base \in State /\ b.base.seq \in Nat
  BY DEF Batch, State
<1>2. b.req.id \in CommandIds
  BY <1>1, RequestType
<1>3. After(b) \in State
  BY AfterType
<1>4. RowAfterSeed(b) \in StateRows \cup {None}
  BY <1>1 DEF RowAfterSeed, StateRows, TypeInv, TypeOK
<1>5. RowAfterUpdate(b) \in StateRows \cup {None}
  BY <1>2, <1>3, <1>4 DEF RowAfterUpdate, StateRows
<1>6. row' \in StateRows /\ row' # None
  BY <1>5 DEF ExecuteBatch, BatchAllowed, ReceiptAllowed
<1>7. Reply(b.req, "ACCEPTED", b.base.seq + 1) \in Answers
  BY <1>1 DEF Reply, Answers, Codes
<1>8. receipts' \in [CommandIds -> Answers \cup {None}]
  BY <1>2, <1>7 DEF ExecuteBatch, TypeInv, TypeOK
<1>9. /\ events' \subseteq [seq: Nat, id: CommandIds]
      /\ outbox' \subseteq CommandIds
      /\ legacy' \in Legacies
  BY <1>1, <1>2 DEF ExecuteBatch, TypeInv, TypeOK
<1> QED
  BY <1>6, <1>7, <1>8, <1>9

LEMMA HydratedType == TypeInv => Hydrated \in State /\ Current \in State
  BY DEF TypeInv, TypeOK, Hydrated, Current, StateRows

LEMMA GotoType ==
  ASSUME job \in Jobs, NEW pc \in JobPhases, Goto(pc)
  PROVE  /\ job' \in Jobs /\ job'.pc = pc
         /\ job'.req = job.req /\ job'.batch = job.batch /\ job'.answer = job.answer
         /\ job'.by = job.by /\ job'.state = job.state
  BY DEF Goto, Jobs

LEMMA OutcomeType ==
  ASSUME job \in Jobs, NEW answer \in Answers, NEW state \in State \cup {None},
         Outcome(answer, state)
  PROVE  /\ job' \in Jobs /\ job'.pc = "finish" /\ job'.answer = answer
         /\ job'.req = job.req /\ job'.state = state /\ job'.batch = job.batch
         /\ job'.by = job.by
  BY DEF Outcome, Jobs, JobPhases

LEMMA IdleType == Idle \in Jobs /\ Idle.pc = "idle"
  BY DEF Idle, Jobs, JobPhases

LEMMA CallEndsType ==
  ASSUME writers \in [Writers -> WriterStates], CallEnds
  PROVE  writers' \in [Writers -> WriterStates]
  BY DEF CallEnds, WriterStates

LEMMA AdvanceType ==
  ASSUME writers \in [Writers -> WriterStates], NEW w \in Writers,
         NEW pc \in {"idle", "leased", "checked", "calling", "release", "ghost", "gone"},
         Advance(w, pc)
  PROVE  writers' \in [Writers -> WriterStates]
  BY DEF Advance, WriterStates

LEMMA WorkingType ==
  ASSUME NEW r \in Requests, NEW w \in Writers \cup {None}
  PROVE  Working(r, w) \in Jobs /\ Working(r, w).pc = "receipt" /\ Working(r, w).req = r
  BY DEF Working, Idle, Jobs, JobPhases

LEMMA RejectionType ==
  ASSUME NEW r \in Requests, NEW code \in Codes
  PROVE  Rejection(r, code) \in Answers
  BY DEF Rejection, Reply, Answers

LEMMA FaultType ==
  ASSUME faults \in 0..MaxFaults, Fault
  PROVE  faults' \in 0..MaxFaults
  BY BoundsAssumption DEF Fault

LEMMA PriorOutcomeType ==
  ASSUME TypeInv, job.req \in Requests, receipts[job.req.id] # None, PriorOutcome(job.req)
  PROVE  job' \in Jobs /\ job'.pc = "finish" /\ job'.answer \in Answers /\ job'.req = job.req
<1>1. job.req.id \in CommandIds /\ job \in Jobs
  BY RequestType DEF TypeInv, TypeOK
<1>2. receipts[job.req.id] \in Answers
  BY <1>1 DEF TypeInv, TypeOK
<1>3. CASE receipts[job.req.id].req = job.req
  <2> DEFINE state == IF receipts[job.req.id].code = "ACCEPTED" THEN row.state ELSE None
  <2>1. state \in State \cup {None}
    BY <1>1 DEF TypeInv, TypeOK, AcceptedHasRow, Accepted, StateRows
  <2>2. Outcome(receipts[job.req.id], state)
    BY <1>3 DEF PriorOutcome
  <2> HIDE DEF state
  <2> QED
    BY <1>1, <1>2, <2>1, <2>2, OutcomeType
<1>4. CASE receipts[job.req.id].req # job.req
  <2>1. Rejection(job.req, "COMMAND_ID_REUSED") \in Answers
    BY RejectionType DEF Codes
  <2>2. Outcome(Rejection(job.req, "COMMAND_ID_REUSED"), None)
    BY <1>4 DEF PriorOutcome
  <2> QED
    BY <1>1, <2>1, <2>2, OutcomeType
<1> QED
  BY <1>3, <1>4

LEMMA D1Same ==
  ASSUME TypeInv, UNCHANGED <<row, receipts>>
  PROVE  AcceptedHasRow'
  BY DEF TypeInv, AcceptedHasRow, Accepted

\* A batch of the current job or of an orphan leaves the tables well typed and
\* an accepted receipt with a row.
LEMMA ExecuteAccepted ==
  ASSUME TypeInv, NEW b \in Batch, ExecuteBatch(b)
  PROVE  AcceptedHasRow'
  BY ExecuteType DEF AcceptedHasRow

\* The steps that start, or turn away, a call to the DO
LEMMA CallType ==
  ASSUME TypeInv,
         \/ Hydrate
         \/ \E r \in Requests : LiveRefusedByLease(r) \/ LiveBegin(r)
         \/ \E w \in Writers, r \in Requests : FreezeBegin(w, r)
         \/ \E op \in LegacyOps : LegacyOp(op)
  PROVE  TypeInv'
<1> USE HydratedType DEF d1Vars
<1>1. CASE Hydrate
  BY <1>1, D1Same DEF Hydrate, TypeInv, TypeOK, JobHolds
<1>2. ASSUME NEW r \in Requests, LiveRefusedByLease(r) PROVE TypeInv'
  <2>1. Rejection(r, "NORMAL_MUTATION_LEASE_ACTIVE") \in Answers
    BY RejectionType DEF Codes
  <2> QED
    BY <1>2, <2>1, D1Same DEF LiveRefusedByLease, TypeInv, TypeOK, JobHolds
<1>3. ASSUME NEW r \in Requests, LiveBegin(r) PROVE TypeInv'
  <2>1. job' \in Jobs /\ job'.pc = "receipt" /\ job'.req = r
    BY <1>3, WorkingType DEF LiveBegin
  <2>2. pin' \in BOOLEAN
    BY <1>3, SessionAssumption DEF LiveBegin, TypeInv, TypeOK
  <2> QED
    BY <1>3, <2>1, <2>2, D1Same DEF LiveBegin, TypeInv, TypeOK, JobHolds
<1>4. ASSUME NEW w \in Writers, NEW r \in Requests, FreezeBegin(w, r) PROVE TypeInv'
  <2>1. job' \in Jobs /\ job'.pc = "receipt" /\ job'.req = r
    BY <1>4, WorkingType DEF FreezeBegin
  <2>2. pin' \in BOOLEAN
    BY <1>4, SessionAssumption DEF FreezeBegin, TypeInv, TypeOK
  <2>3. writers' \in [Writers -> WriterStates]
    BY <1>4 DEF FreezeBegin, TypeInv, TypeOK, WriterStates
  <2> QED
    BY <1>4, <2>1, <2>2, <2>3, D1Same DEF FreezeBegin, TypeInv, TypeOK, JobHolds
<1>5. ASSUME NEW op \in LegacyOps, LegacyOp(op) PROVE TypeInv'
  <2>1. Applied(Hydrated, op, op = "freeze") \in State
    BY AppliedType DEF Ops
  <2> QED
    BY <1>5, <2>1, D1Same DEF LegacyOp, TypeInv, TypeOK, JobHolds
<1> QED
  BY <1>1, <1>2, <1>3, <1>4, <1>5

\* The steps of the handler
LEMMA JobStepType ==
  ASSUME TypeInv, JobStep
  PROVE  TypeInv'
<1> USE DEF d1Vars, JobPhases
<1>1. job \in Jobs /\ writers \in [Writers -> WriterStates]
  BY DEF TypeInv, TypeOK
<1>2. CASE ReadReceipt
  <2>1. job' \in Jobs /\ JobHolds'
    <3>1. job.req \in Requests
      BY <1>2 DEF ReadReceipt, TypeInv, JobHolds
    <3>2. CASE receipts[job.req.id] # None
      BY <1>2, <3>1, <3>2, PriorOutcomeType DEF ReadReceipt, JobHolds
    <3>3. CASE receipts[job.req.id] = None
      BY <1>1, <1>2, <3>1, <3>3, GotoType DEF ReadReceipt, JobHolds
    <3> QED
      BY <3>2, <3>3
  <2> QED
    BY <1>2, <2>1, D1Same DEF ReadReceipt, TypeInv, TypeOK
<1>3. ASSUME NEW code \in Codes, Refuse(code) PROVE TypeInv'
  <2>1. job.req \in Requests
    BY <1>3 DEF Refuse, TypeInv, JobHolds
  <2>2. Rejection(job.req, code) \in Answers
    BY <2>1, RejectionType
  <2>3. Rejection(job.req, code).code # "ACCEPTED"
    BY <1>3 DEF Refuse, Refusal, Rejection, Reply
  <2>4. job' \in Jobs /\ JobHolds'
    BY <1>1, <1>3, <2>1, <2>2, <2>3 DEF Refuse, Jobs, JobHolds
  <2> QED
    BY <1>3, <2>4, D1Same DEF Refuse, TypeInv, TypeOK
<1>4. CASE RecordRejection
  <2>1. job.req \in Requests /\ job.answer \in Answers /\ job.req.id \in CommandIds
    BY <1>4, RequestType DEF RecordRejection, TypeInv, JobHolds
  <2>2. CASE receipts[job.req.id] = None
    <3>1. /\ receipts' = [receipts EXCEPT ![job.req.id] = job.answer]
          /\ Outcome(job.answer, None)
      BY <1>4, <2>2 DEF RecordRejection
    <3>2. job' \in Jobs /\ JobHolds'
      BY <1>1, <2>1, <3>1, OutcomeType DEF JobHolds
    <3>3. receipts' \in [CommandIds -> Answers \cup {None}]
      BY <2>1, <3>1 DEF TypeInv, TypeOK
    <3>4. AcceptedHasRow'
      <4>1. job.answer.code # "ACCEPTED"
        BY <1>4 DEF RecordRejection, TypeInv, JobHolds
      <4> QED
        BY <1>4, <2>1, <3>1, <4>1
           DEF RecordRejection, TypeInv, TypeOK, AcceptedHasRow, Accepted
    <3> QED
      BY <1>4, <2>2, <3>2, <3>3, <3>4 DEF RecordRejection, TypeInv, TypeOK
  <2>3. CASE receipts[job.req.id] # None
    BY <1>1, <1>4, <2>3, D1Same, IdleType, CallEndsType
       DEF RecordRejection, Throw, TypeInv, TypeOK, JobHolds
  <2> QED
    BY <2>2, <2>3
<1>5. CASE Prepare
  <2>1. [req |-> job.req, base |-> Current, seed |-> row = None] \in Batch
    BY <1>5, HydratedType DEF Prepare, TypeInv, JobHolds, Batch
  <2>2. job' \in Jobs /\ JobHolds'
    BY <1>1, <1>5, <2>1 DEF Prepare, Jobs, JobHolds, TypeInv
  <2> QED
    BY <1>5, <2>2, D1Same DEF Prepare, TypeInv, TypeOK
<1>6. CASE MarkIntent
  <2>1. job' \in Jobs /\ JobHolds'
    BY <1>1, <1>6, GotoType DEF MarkIntent, JobHolds, TypeInv
  <2> QED
    BY <1>6, <2>1, D1Same DEF MarkIntent, TypeInv, TypeOK
<1>7. CASE Commit
  <2>1. job.batch \in Batch /\ ExecuteBatch(job.batch) /\ job.req \in Requests
    BY <1>7 DEF Commit, TypeInv, JobHolds
  <2>2. Reply(job.req, "ACCEPTED", job.batch.base.seq + 1) \in Answers
    BY <2>1 DEF Reply, Answers, Codes, Batch, State
  <2>3. After(job.batch) \in State
    BY <2>1, AfterType
  <2>4. job' \in Jobs /\ JobHolds'
    BY <1>1, <1>7, <2>1, <2>2, <2>3, OutcomeType DEF Commit, JobHolds
  <2> QED
    BY <1>7, <2>1, <2>4, ExecuteType, ExecuteAccepted DEF Commit, TypeInv, TypeOK
<1>8. CASE CommitUnheard
  <2>1. job.batch \in Batch /\ ExecuteBatch(job.batch) /\ job.req \in Requests
    BY <1>8 DEF CommitUnheard, TypeInv, JobHolds
  <2>2. job' \in Jobs /\ JobHolds'
    BY <1>1, <1>8, <2>1, GotoType DEF CommitUnheard, JobHolds
  <2>3. faults' \in 0..MaxFaults
    BY <1>8, FaultType DEF CommitUnheard, TypeInv, TypeOK
  <2> QED
    BY <1>8, <2>1, <2>2, <2>3, ExecuteType, ExecuteAccepted DEF CommitUnheard, TypeInv, TypeOK
<1>9. CASE Abort
  <2>1. job' \in Jobs /\ JobHolds'
    BY <1>1, <1>9, GotoType DEF Abort, JobHolds, TypeInv
  <2> QED
    BY <1>9, <2>1, D1Same DEF Abort, TypeInv, TypeOK
<1>10. CASE CallFails
  <2>1. job' \in Jobs /\ JobHolds'
    BY <1>1, <1>10, GotoType DEF CallFails, JobHolds, TypeInv
  <2>2. faults' \in 0..MaxFaults
    BY <1>10, FaultType DEF CallFails, TypeInv, TypeOK
  <2>3. orphans' \subseteq Batch
    BY <1>10 DEF CallFails, TypeInv, TypeOK, JobHolds
  <2> QED
    BY <1>10, <2>1, <2>2, <2>3, D1Same DEF CallFails, TypeInv, TypeOK
<1>11. CASE Recheck
  <2>1. job.req \in Requests
    BY <1>11 DEF Recheck, TypeInv, JobHolds
  <2>2. job' \in Jobs /\ JobHolds'
    <3>1. CASE receipts[job.req.id] # None
      BY <1>11, <2>1, <3>1, PriorOutcomeType DEF Recheck, JobHolds
    <3>2. CASE receipts[job.req.id] = None
      BY <1>1, <1>11, <2>1, <3>2, GotoType DEF Recheck, JobHolds
    <3> QED
      BY <3>1, <3>2
  <2> QED
    BY <1>11, <2>2, D1Same DEF Recheck, TypeInv, TypeOK
<1>12. CASE RecheckState
  <2>1. job.req \in Requests
    BY <1>12 DEF RecheckState, TypeInv, JobHolds
  <2>2. Rejection(job.req, "STALE_SEQUENCE") \in Answers
    BY <2>1, RejectionType DEF Codes
  <2>3. CASE Outcome(Rejection(job.req, "STALE_SEQUENCE"), None) /\ UNCHANGED writers
    <3>1. job' \in Jobs /\ JobHolds'
      BY <1>1, <2>1, <2>2, <2>3, OutcomeType DEF JobHolds
    <3> QED
      BY <1>12, <2>3, <3>1, D1Same DEF RecheckState, TypeInv, TypeOK
  <2>4. CASE Throw
    BY <1>1, <1>12, <2>4, D1Same, IdleType, CallEndsType
       DEF RecheckState, Throw, TypeInv, TypeOK, JobHolds
  <2> QED
    BY <1>12, <2>3, <2>4 DEF RecheckState
<1>13. CASE FinishLive
  <2>1. job' \in Jobs /\ JobHolds'
    BY <1>1, <1>13, GotoType DEF FinishLive, JobHolds, TypeInv
  <2>2. local' \in State
    BY <1>1, <1>13 DEF FinishLive, TypeInv, TypeOK, Jobs
  <2> QED
    BY <1>13, <2>1, <2>2, D1Same DEF FinishLive, TypeInv, TypeOK
<1>14. CASE FinishFreeze
  <2>1. job' \in Jobs /\ JobHolds'
    BY <1>1, <1>14, GotoType DEF FinishFreeze, JobHolds, TypeInv
  <2>2. local' \in State /\ marker' \in {"none", "pending", "active"}
    BY <1>1, <1>14 DEF FinishFreeze, TypeInv, TypeOK, Jobs, StateRows
  <2> QED
    BY <1>14, <2>1, <2>2, D1Same DEF FinishFreeze, TypeInv, TypeOK
<1>15. CASE Answer
  <2>1. replies' \subseteq Answers
    BY <1>15 DEF Answer, TypeInv, TypeOK, JobHolds
  <2> QED
    BY <1>1, <1>15, <2>1, D1Same, IdleType, CallEndsType
       DEF Answer, Throw, TypeInv, TypeOK, JobHolds
<1> QED
  BY <1>2, <1>3, <1>4, <1>5, <1>6, <1>7, <1>8, <1>9, <1>10, <1>11, <1>12, <1>13,
     <1>14, <1>15 DEF JobStep

\* Late batches, crashes, and the direct writers
LEMMA EnvironmentType ==
  ASSUME TypeInv,
         \/ \E b \in orphans : LateBatch(b)
         \/ Crash
         \/ \E w \in Writers, op \in {"start", "pick", "freeze"} : Acquire(w, op)
         \/ \E w \in Writers :
              Check(w) \/ WriteStart(w) \/ WritePick(w) \/ Release(w) \/ WriterCrash(w)
         \/ CloseMock
  PROVE  TypeInv'
<1> USE DEF d1Vars
<1>1. writers \in [Writers -> WriterStates] /\ legacy \in Legacies
  BY DEF TypeInv, TypeOK
<1>2. ASSUME NEW b \in orphans, LateBatch(b) PROVE TypeInv'
  <2>1. b \in Batch
    BY DEF TypeInv, TypeOK
  <2>2. CASE ExecuteBatch(b)
    BY <1>2, <2>1, <2>2, ExecuteType, ExecuteAccepted DEF LateBatch, TypeInv, TypeOK, JobHolds
  <2>3. CASE UNCHANGED d1Vars
    BY <1>2, <2>3, D1Same DEF LateBatch, TypeInv, TypeOK, JobHolds
  <2> QED
    BY <1>2, <2>2, <2>3 DEF LateBatch
<1>3. CASE Crash
  <2>1. faults' \in 0..MaxFaults
    BY <1>3, FaultType DEF Crash, TypeInv, TypeOK
  <2>2. job' \in Jobs /\ JobHolds' /\ writers' \in [Writers -> WriterStates]
    BY <1>1, <1>3, IdleType, CallEndsType DEF Crash, Throw, JobHolds
  <2>3. CASE UNCHANGED <<row, receipts, events, outbox, legacy, orphans>>
    BY <1>3, <2>1, <2>2, <2>3, D1Same DEF Crash, TypeInv, TypeOK
  <2>4. CASE job.pc = "sent" /\ ExecuteBatch(job.batch) /\ UNCHANGED orphans
    <3>1. job.batch \in Batch
      BY <2>4 DEF TypeInv, JobHolds
    <3> QED
      BY <1>3, <2>1, <2>2, <2>4, <3>1, ExecuteType, ExecuteAccepted DEF Crash, TypeInv, TypeOK
  <2>5. CASE /\ job.pc = "sent"
             /\ orphans' = orphans \cup {job.batch}
             /\ UNCHANGED <<row, receipts, events, outbox, legacy>>
    <3>1. orphans' \subseteq Batch
      BY <2>5 DEF TypeInv, TypeOK, JobHolds
    <3> QED
      BY <1>3, <2>1, <2>2, <2>5, <3>1, D1Same DEF Crash, TypeInv, TypeOK
  <2> QED
    BY <1>3, <2>3, <2>4, <2>5 DEF Crash
<1>4. ASSUME NEW w \in Writers, NEW op \in {"start", "pick", "freeze"}, Acquire(w, op)
      PROVE TypeInv'
  <2>1. writers' \in [Writers -> WriterStates]
    BY <1>1, <1>4 DEF Acquire, WriterStates
  <2> QED
    BY <1>4, <2>1, D1Same DEF Acquire, TypeInv, TypeOK, JobHolds
<1>5. ASSUME NEW w \in Writers, Check(w) PROVE TypeInv'
  <2>1. writers' \in [Writers -> WriterStates]
    BY <1>1, <1>5, AdvanceType DEF Check
  <2> QED
    BY <1>5, <2>1, D1Same DEF Check, TypeInv, TypeOK, JobHolds
<1>6. ASSUME NEW w \in Writers, NEW op, Writing(w, op)
      PROVE  writers' \in [Writers -> WriterStates]
  BY <1>1, <1>6, AdvanceType DEF Writing
<1>7. ASSUME NEW w \in Writers, WriteStart(w) PROVE TypeInv'
  <2>1. writers' \in [Writers -> WriterStates]
    BY <1>6, <1>7 DEF WriteStart
  <2>2. Started \in State /\ None \in CommandIds \cup {None}
    BY DEF Started, Pristine, State
  <2>3. row' \in StateRows \cup {None} /\ legacy' \in Legacies
    BY <1>1, <1>7, <2>2 DEF WriteStart, TypeInv, TypeOK, StateRows, Legacies
  <2>4. AcceptedHasRow'
    <3>1. UNCHANGED receipts
      BY <1>7 DEF WriteStart, Writing
    <3>2. row # None => row' # None
      BY <1>7 DEF WriteStart
    <3> QED
      BY <3>1, <3>2 DEF TypeInv, AcceptedHasRow, Accepted
  <2> QED
    BY <1>7, <2>1, <2>3, <2>4 DEF WriteStart, Writing, TypeInv, TypeOK, JobHolds
<1>8. ASSUME NEW w \in Writers, WritePick(w) PROVE TypeInv'
  <2>1. writers' \in [Writers -> WriterStates]
    BY <1>6, <1>8 DEF WritePick
  <2>2. legacy' \in Legacies
    BY <1>1, <1>8 DEF WritePick, Legacies
  <2> QED
    BY <1>8, <2>1, <2>2, D1Same DEF WritePick, Writing, TypeInv, TypeOK, JobHolds
<1>9. ASSUME NEW w \in Writers, Release(w) PROVE TypeInv'
  <2>1. writers' \in [Writers -> WriterStates]
    BY <1>1, <1>9 DEF Release, WriterStates
  <2> QED
    BY <1>9, <2>1, D1Same DEF Release, TypeInv, TypeOK, JobHolds
<1>10. ASSUME NEW w \in Writers, WriterCrash(w) PROVE TypeInv'
  <2>1. writers' \in [Writers -> WriterStates]
    BY <1>1, <1>10, AdvanceType DEF WriterCrash
  <2>2. faults' \in 0..MaxFaults
    BY <1>10, FaultType DEF WriterCrash, TypeInv, TypeOK
  <2> QED
    BY <1>10, <2>1, <2>2, D1Same DEF WriterCrash, TypeInv, TypeOK, JobHolds
<1>11. CASE CloseMock
  <2>1. legacy' \in Legacies
    BY <1>1, <1>11 DEF CloseMock, Legacies
  <2> QED
    BY <1>11, <2>1, D1Same DEF CloseMock, TypeInv, TypeOK, JobHolds
<1> QED
  BY <1>2, <1>3, <1>4, <1>5, <1>7, <1>8, <1>9, <1>10, <1>11

LEMMA StepType == TypeInv /\ [Next]_vars => TypeInv'
<1> SUFFICES ASSUME TypeInv, [Next]_vars PROVE TypeInv'
  OBVIOUS
<1>1. CASE Next
  BY <1>1, CallType, JobStepType, EnvironmentType DEF Next
<1>2. CASE UNCHANGED vars
  BY <1>2, D1Same DEF vars, TypeInv, TypeOK, JobHolds
<1> QED
  BY <1>1, <1>2

\* The variables stay well typed, the handler always holds what its next step
\* needs, and a replay finds the state row of an accepted command.
THEOREM TypeCorrect == Spec => [](TypeOK /\ AcceptedHasRow)
<1>1. Spec => []TypeInv
  BY InitType, StepType, PTL DEF Spec
<1>2. TypeInv => TypeOK /\ AcceptedHasRow
  BY DEF TypeInv
<1> QED
  BY <1>1, <1>2, PTL

-----------------------------------------------------------------------------
(***************************************************************************)
(* The D1 invariants.  A batch may reach D1 at any time after it was       *)
(* prepared, so what makes them inductive is what is known of every batch  *)
(* that may still run: it was built on a state that was not frozen, and    *)
(* unless it seeds the row, on the row as it was at that sequence.         *)
(***************************************************************************)
Pending == orphans \cup (IF job.pc \in {"mark", "sent"} THEN {job.batch} ELSE {})

Fits(b) ==
  /\ ~b.base.frozen
  /\ ~b.seed => /\ row # None
                /\ b.base.seq <= row.state.seq
                /\ b.base.seq = row.state.seq => b.base = row.state

BatchesFit == \A b \in Pending : Fits(b)

NoRowNoEvents == row = None => events = {}

Ledger == NoRowNoEvents /\ BundleAtomic /\ GapFree /\ NoLostUpdate

LedgerInv == TypeInv /\ Ledger /\ BatchesFit

LEMMA PendingType == TypeInv => Pending \subseteq Batch
  BY DEF TypeInv, TypeOK, JobHolds, Pending

\* A batch that D1 executes was built on the very row it replaces.
LEMMA ExecuteMeaning ==
  ASSUME LedgerInv, NEW b \in Batch, Fits(b), ExecuteBatch(b)
  PROVE  /\ row' = [state |-> After(b), last |-> b.req.id]
         /\ row # None => row.state = b.base /\ ~row.state.frozen
         /\ row = None => b.seed
         /\ receipts[b.req.id] = None
         /\ b.req.id \in CommandIds
<1>1. b.req \in Requests /\ b.base \in State /\ b.base.seq \in Nat
  BY DEF Batch, State
<1>2. b.req.id \in CommandIds
  BY <1>1, RequestType
<1>3. BatchAllowed(b) /\ row' = RowAfterUpdate(b)
  BY DEF ExecuteBatch
<1>4. receipts[b.req.id] = None
  BY <1>3 DEF BatchAllowed, ReceiptAllowed
<1>5. CASE b.seed
  <2>1. row = None
    BY <1>3, <1>5 DEF BatchAllowed, SeedAllowed
  <2>2. RowAfterSeed(b) = [state |-> b.base, last |-> None]
    BY <1>5 DEF RowAfterSeed
  <2>3. RowAfterSeed(b) # None
    BY <1>1, <2>2, NoneAssumption DEF StateRows
  <2>4. RowAfterUpdate(b) = [state |-> After(b), last |-> b.req.id]
    BY <2>2, <2>3 DEF RowAfterUpdate
  <2> QED
    BY <1>2, <1>3, <1>4, <1>5, <2>1, <2>4
<1>6. CASE ~b.seed
  <2>1. row # None /\ RowAfterSeed(b) = row
    BY <1>6 DEF Fits, RowAfterSeed
  <2>2. row \in StateRows
    BY <2>1 DEF LedgerInv, TypeInv, TypeOK
  <2>3. row.state.seq = b.base.seq
    <3> SUFFICES ASSUME row.state.seq # b.base.seq PROVE FALSE
      OBVIOUS
    <3>1. RowAfterUpdate(b) = row
      BY <2>1 DEF RowAfterUpdate
    <3>2. row.last = b.req.id
      BY <1>3, <3>1 DEF BatchAllowed, ReceiptAllowed
    <3>3. row.last # None
      BY <1>2, <3>2, NamesAssumption
    <3>4. [seq |-> row.state.seq, id |-> row.last] \in events
      BY <2>1, <3>3 DEF LedgerInv, Ledger, BundleAtomic
    <3>5. Accepted(row.last)
      BY <3>4 DEF LedgerInv, Ledger, BundleAtomic
    <3> QED
      BY <1>4, <3>2, <3>5 DEF Accepted
  <2>4. row.state = b.base /\ ~row.state.frozen
    BY <1>6, <2>3 DEF Fits
  <2>5. RowAfterUpdate(b) = [state |-> After(b), last |-> b.req.id]
    BY <2>1, <2>3 DEF RowAfterUpdate
  <2> QED
    BY <1>2, <1>3, <1>4, <2>1, <2>4, <2>5
<1> QED
  BY <1>5, <1>6

LEMMA ExecuteLedger ==
  ASSUME LedgerInv, NEW b \in Batch, Fits(b), ExecuteBatch(b)
  PROVE  Ledger'
<1> DEFINE new == [seq |-> b.base.seq + 1, id |-> b.req.id]
<1>1. /\ row' = [state |-> After(b), last |-> b.req.id]
      /\ row # None => row.state = b.base
      /\ receipts[b.req.id] = None
      /\ b.req.id \in CommandIds
  BY ExecuteMeaning
<1>2. /\ events' = events \cup {new}
      /\ outbox' = outbox \cup {b.req.id}
      /\ receipts' = [receipts EXCEPT ![b.req.id] = Reply(b.req, "ACCEPTED", b.base.seq + 1)]
  BY DEF ExecuteBatch
<1>3. /\ row' # None /\ row'.state = After(b) /\ row'.last = b.req.id
      /\ Reply(b.req, "ACCEPTED", b.base.seq + 1) # None
  BY <1>1, ExecuteType, NoneAssumption DEF LedgerInv
<1>4. b.base.seq \in Nat
  BY DEF Batch, State
<1>5. /\ After(b).seq = b.base.seq + 1
      /\ After(b).log = b.base.log \cup {<<b.base.seq + 1, b.req.id>>}
  BY DEF After, Applied
<1>6. \A e \in events : /\ e.id \in CommandIds /\ e.seq \in Nat
                        /\ e.seq <= b.base.seq /\ <<e.seq, e.id>> \in b.base.log
                        /\ e.id # b.req.id
                        /\ e.seq < b.base.seq => \E f \in events : f.seq = e.seq + 1
                        /\ \A f \in events : f.seq = e.seq => f = e
  BY <1>1 DEF LedgerInv, Ledger, GapFree, NoLostUpdate, BundleAtomic, Accepted, TypeInv, TypeOK
<1>11. new.seq = b.base.seq + 1 /\ new.id = b.req.id
  OBVIOUS
<1>12. outbox = {e.id : e \in events}
  BY DEF LedgerInv, Ledger, BundleAtomic
<1> HIDE DEF new
<1>7. NoRowNoEvents'
  BY <1>3 DEF NoRowNoEvents
<1>8. BundleAtomic'
  <2>1. outbox' = {e.id : e \in events'}
    <3>1. events' = events \cup {new} /\ outbox' = outbox \cup {new.id}
      BY <1>2, <1>11
    <3> QED
      BY <1>12, <3>1
  <2>2. receipts \in [CommandIds -> Answers \cup {None}]
    BY DEF LedgerInv, TypeInv, TypeOK
  <2>3. /\ receipts'[b.req.id] = Reply(b.req, "ACCEPTED", b.base.seq + 1)
        /\ \A c \in CommandIds : c # b.req.id => receipts'[c] = receipts[c]
    BY <1>1, <1>2, <2>2
  <2>4. /\ receipts'[b.req.id] # None
        /\ receipts'[b.req.id].code = "ACCEPTED"
        /\ receipts'[b.req.id].seq = b.base.seq + 1
    BY <1>3, <2>3 DEF Reply
  <2>5. \A c \in CommandIds :
          Accepted(c)' => [seq |-> receipts'[c].seq, id |-> c] \in events'
    <3> SUFFICES ASSUME NEW c \in CommandIds, Accepted(c)'
                 PROVE  [seq |-> receipts'[c].seq, id |-> c] \in events'
      OBVIOUS
    <3>1. CASE c = b.req.id
      BY <1>2, <2>4, <3>1 DEF new
    <3>2. CASE c # b.req.id
      BY <1>2, <2>3, <3>2 DEF LedgerInv, Ledger, BundleAtomic, Accepted
    <3> QED
      BY <3>1, <3>2
  <2>6. \A e \in events' : Accepted(e.id)' /\ receipts'[e.id].seq = e.seq
    <3> SUFFICES ASSUME NEW e \in events'
                 PROVE  Accepted(e.id)' /\ receipts'[e.id].seq = e.seq
      OBVIOUS
    <3>1. CASE e = new
      BY <1>11, <2>4, <3>1 DEF Accepted
    <3>2. CASE e \in events
      BY <1>6, <2>3, <3>2 DEF LedgerInv, Ledger, BundleAtomic, Accepted
    <3> QED
      BY <1>2, <3>1, <3>2
  <2>7. [seq |-> row'.state.seq, id |-> row'.last] \in events'
    BY <1>2, <1>3, <1>5 DEF new
  <2> QED
    BY <2>1, <2>5, <2>6, <2>7 DEF BundleAtomic
<1>9. GapFree'
  <2> SUFFICES ASSUME NEW e \in events'
               PROVE  /\ row' # None /\ e.seq <= row'.state.seq
                      /\ e.seq < row'.state.seq => \E f \in events' : f.seq = e.seq + 1
                      /\ \A f \in events' : f.seq = e.seq => f = e
    BY DEF GapFree
  <2> DEFINE top == b.base.seq
  <2>3. top \in Nat /\ row'.state.seq = top + 1 /\ new.seq = top + 1 /\ row' # None
    BY <1>3, <1>4, <1>5, <1>11
  <2> HIDE DEF top
  <2>4. \A f \in events : f.seq \in Nat /\ f.seq <= top
    BY <1>6 DEF top
  <2>1. CASE e = new
    <3>1. e.seq = top + 1
      BY <2>1, <2>3
    <3>2. \A f \in events : f.seq # e.seq
      BY <2>3, <2>4, <3>1
    <3>3. \A f \in events' : f.seq = e.seq => f = e
      BY <1>2, <2>1, <3>2
    <3> QED
      BY <2>3, <3>1, <3>3
  <2>2. CASE e \in events
    <3>0. e.seq \in Nat /\ e.seq <= top
      BY <2>2, <2>4
    <3>1. e.seq <= row'.state.seq
      BY <2>3, <3>0
    <3>2. \E f \in events' : f.seq = e.seq + 1
      <4>1. CASE e.seq < top
        <5>1. \E f \in events : f.seq = e.seq + 1
          BY <1>6, <2>2, <4>1 DEF top
        <5> QED
          BY <1>2, <5>1
      <4>2. CASE e.seq = top
        BY <1>2, <2>3, <4>2
      <4> QED
        BY <2>3, <3>0, <4>1, <4>2
    <3>3. \A f \in events' : f.seq = e.seq => f = e
      <4>1. new.seq # e.seq
        BY <2>3, <3>0
      <4>2. \A f \in events : f.seq = e.seq => f = e
        BY <1>6, <2>2
      <4> QED
        BY <1>2, <4>1, <4>2
    <3> QED
      BY <2>3, <3>1, <3>2, <3>3
  <2> QED
    BY <1>2, <2>1, <2>2
<1>10. NoLostUpdate'
  <2> SUFFICES ASSUME NEW e \in events'
               PROVE  row' # None /\ <<e.seq, e.id>> \in row'.state.log
    BY DEF NoLostUpdate
  <2>1. CASE e = new
    BY <1>3, <1>5, <1>11, <2>1
  <2>2. CASE e \in events
    <3>1. <<e.seq, e.id>> \in b.base.log
      BY <1>6, <2>2
    <3> QED
      BY <1>3, <1>5, <3>1
  <2> QED
    BY <1>2, <2>1, <2>2
<1> QED
  BY <1>7, <1>8, <1>9, <1>10 DEF Ledger

\* The execution of a batch leaves every batch that may still run fitting.
LEMMA ExecuteFits ==
  ASSUME LedgerInv, NEW b \in Batch, Fits(b), ExecuteBatch(b), NEW o \in Batch, Fits(o)
  PROVE  Fits(o)'
<1>1. /\ row' # None /\ row'.state = After(b)
      /\ row # None => row.state = b.base
  BY ExecuteMeaning, ExecuteType DEF LedgerInv
<1>2. b.base.seq \in Nat /\ o.base.seq \in Nat /\ After(b).seq = b.base.seq + 1
  BY DEF Batch, State, After, Applied
<1>3. row = None => o.seed
  BY DEF Fits
<1>4. row # None /\ ~o.seed => o.base.seq <= b.base.seq
  BY <1>1 DEF Fits
<1> QED
  BY <1>1, <1>2, <1>3, <1>4 DEF Fits

(***************************************************************************)
(* Every step is of one of five kinds for D1.  The kinds are what each of  *)
(* the invariants below is proved against.                                 *)
(***************************************************************************)
LegacyKept == row # None => UNCHANGED legacy

\* no canonical record changes, and no batch is added
Quiet ==
  /\ UNCHANGED <<row, receipts, events, outbox>>
  /\ Pending' \subseteq Pending
  /\ LegacyKept

\* a batch that was waiting is executed
Executes ==
  /\ \E b \in Pending : ExecuteBatch(b)
  /\ Pending' \subseteq Pending

\* a rejection is recorded
Rejects ==
  /\ \E c \in CommandIds, a \in Answers :
       /\ receipts[c] = None /\ a.code # "ACCEPTED"
       /\ receipts' = [receipts EXCEPT ![c] = a]
  /\ UNCHANGED <<row, events, outbox, legacy>>
  /\ Pending' \subseteq Pending

\* a batch is built on the current state, which is not frozen
Prepares ==
  /\ UNCHANGED <<row, receipts, events, outbox, legacy>>
  /\ ~Current.frozen
  /\ \E b \in Batch : /\ b.base = Current /\ b.seed = (row = None)
                      /\ Pending' \subseteq Pending \cup {b}

\* start inserts the first row
Starts ==
  /\ row = None
  /\ row' = [state |-> Started, last |-> None]
  /\ UNCHANGED <<receipts, events, outbox>>
  /\ Pending' \subseteq Pending

LEMMA SamePending ==
  ASSUME UNCHANGED orphans, job'.pc \notin {"mark", "sent"}
  PROVE  Pending' \subseteq Pending
  BY DEF Pending

LEMMA CallKind ==
  ASSUME TypeInv,
         \/ Hydrate
         \/ \E r \in Requests : LiveRefusedByLease(r) \/ LiveBegin(r)
         \/ \E w \in Writers, r \in Requests : FreezeBegin(w, r)
         \/ \E op \in LegacyOps : LegacyOp(op)
  PROVE  Quiet
<1> USE DEF d1Vars, Quiet, LegacyKept
<1>1. CASE Hydrate
  BY <1>1 DEF Hydrate, Pending
<1>2. ASSUME NEW r \in Requests, LiveRefusedByLease(r) PROVE Quiet
  BY <1>2 DEF LiveRefusedByLease, Pending
<1>3. ASSUME NEW r \in Requests, LiveBegin(r) PROVE Quiet
  BY <1>3, WorkingType, SamePending DEF LiveBegin
<1>4. ASSUME NEW w \in Writers, NEW r \in Requests, FreezeBegin(w, r) PROVE Quiet
  BY <1>4, WorkingType, SamePending DEF FreezeBegin
<1>5. ASSUME NEW op \in LegacyOps, LegacyOp(op) PROVE Quiet
  BY <1>5 DEF LegacyOp, Pending
<1> QED
  BY <1>1, <1>2, <1>3, <1>4, <1>5

LEMMA JobStepKind ==
  ASSUME TypeInv, JobStep
  PROVE  Quiet \/ Executes \/ Rejects \/ Prepares
<1> USE DEF d1Vars, JobPhases
<1>1. job \in Jobs
  BY DEF TypeInv, TypeOK
<1>2. CASE ReadReceipt
  <2>1. job.req \in Requests
    BY <1>2 DEF ReadReceipt, TypeInv, JobHolds
  <2>2. job'.pc \in {"finish", "state"}
    <3>1. CASE receipts[job.req.id] # None
      BY <1>2, <2>1, <3>1, PriorOutcomeType DEF ReadReceipt
    <3>2. CASE receipts[job.req.id] = None
      BY <1>1, <1>2, <3>2, GotoType DEF ReadReceipt
    <3> QED
      BY <3>1, <3>2
  <2> QED
    BY <1>2, <2>2, SamePending DEF ReadReceipt, Quiet, LegacyKept
<1>3. ASSUME NEW code \in Codes, Refuse(code) PROVE Quiet
  <2>1. job'.pc = "reject"
    BY <1>1, <1>3 DEF Refuse, Jobs
  <2> QED
    BY <1>3, <2>1, SamePending DEF Refuse, Quiet, LegacyKept
<1>4. CASE RecordRejection
  <2>1. job.req \in Requests /\ job.answer \in Answers /\ job.answer.code # "ACCEPTED"
    BY <1>4 DEF RecordRejection, TypeInv, JobHolds
  <2>2. CASE receipts[job.req.id] = None
    <3>1. job'.pc = "finish"
      BY <1>1, <1>4, <2>1, <2>2, OutcomeType DEF RecordRejection
    <3> QED
      BY <1>4, <2>1, <2>2, <3>1, RequestType, SamePending DEF RecordRejection, Rejects
  <2>3. CASE receipts[job.req.id] # None
    BY <1>4, <2>3, IdleType, SamePending DEF RecordRejection, Throw, Quiet, LegacyKept
  <2> QED
    BY <2>2, <2>3
<1>5. CASE Prepare
  <2> DEFINE b == [req |-> job.req, base |-> Current, seed |-> row = None]
  <2>1. b \in Batch /\ b.base = Current /\ b.seed = (row = None)
    BY <1>5, HydratedType DEF Prepare, TypeInv, JobHolds, Batch
  <2>2. job'.batch = b
    BY <1>1, <1>5 DEF Prepare, Jobs
  <2> HIDE DEF b
  <2>3. Pending' \subseteq Pending \cup {b}
    BY <1>5, <2>2 DEF Prepare, Pending
  <2> QED
    BY <1>5, <2>1, <2>3 DEF Prepare, Prepares
<1>6. CASE MarkIntent
  <2>1. job'.batch = job.batch
    BY <1>1, <1>6, GotoType DEF MarkIntent
  <2> QED
    BY <1>6, <2>1 DEF MarkIntent, Quiet, LegacyKept, Pending
<1>7. CASE Commit
  <2>1. job.batch \in Pending /\ ExecuteBatch(job.batch)
    BY <1>7 DEF Commit, Pending
  <2>2. job'.pc = "finish"
    BY <1>1, <1>7 DEF Commit, Outcome, Jobs
  <2> QED
    BY <1>7, <2>1, <2>2, SamePending DEF Commit, Executes
<1>8. CASE CommitUnheard
  <2>1. job.batch \in Pending /\ ExecuteBatch(job.batch)
    BY <1>8 DEF CommitUnheard, Pending
  <2>2. job'.pc = "recheck"
    BY <1>1, <1>8, GotoType DEF CommitUnheard
  <2> QED
    BY <1>8, <2>1, <2>2, SamePending DEF CommitUnheard, Executes
<1>9. CASE Abort
  BY <1>1, <1>9, GotoType, SamePending DEF Abort, Quiet, LegacyKept
<1>10. CASE CallFails
  <2>1. job'.pc = "recheck"
    BY <1>1, <1>10, GotoType DEF CallFails
  <2>2. orphans' \subseteq orphans \cup {job.batch} /\ job.pc = "sent"
    BY <1>10 DEF CallFails
  <2> QED
    BY <1>10, <2>1, <2>2 DEF CallFails, Quiet, LegacyKept, Pending
<1>11. CASE Recheck
  <2>1. job.req \in Requests
    BY <1>11 DEF Recheck, TypeInv, JobHolds
  <2>2. job'.pc \in {"finish", "recheckState"}
    <3>1. CASE receipts[job.req.id] # None
      BY <1>11, <2>1, <3>1, PriorOutcomeType DEF Recheck
    <3>2. CASE receipts[job.req.id] = None
      BY <1>1, <1>11, <3>2, GotoType DEF Recheck
    <3> QED
      BY <3>1, <3>2
  <2> QED
    BY <1>11, <2>2, SamePending DEF Recheck, Quiet, LegacyKept
<1>12. CASE RecheckState
  <2>1. job'.pc \in {"finish", "idle"}
    BY <1>1, <1>12, IdleType DEF RecheckState, Outcome, Throw, Jobs
  <2> QED
    BY <1>12, <2>1, SamePending DEF RecheckState, Quiet, LegacyKept
<1>13. CASE FinishLive
  BY <1>1, <1>13, GotoType, SamePending DEF FinishLive, Quiet, LegacyKept
<1>14. CASE FinishFreeze
  BY <1>1, <1>14, GotoType, SamePending DEF FinishFreeze, Quiet, LegacyKept
<1>15. CASE Answer
  BY <1>15, IdleType, SamePending DEF Answer, Throw, Quiet, LegacyKept
<1> QED
  BY <1>2, <1>3, <1>4, <1>5, <1>6, <1>7, <1>8, <1>9, <1>10, <1>11, <1>12, <1>13,
     <1>14, <1>15 DEF JobStep

LEMMA EnvironmentKind ==
  ASSUME TypeInv,
         \/ \E b \in orphans : LateBatch(b)
         \/ Crash
         \/ \E w \in Writers, op \in {"start", "pick", "freeze"} : Acquire(w, op)
         \/ \E w \in Writers :
              Check(w) \/ WriteStart(w) \/ WritePick(w) \/ Release(w) \/ WriterCrash(w)
         \/ CloseMock
  PROVE  Quiet \/ Executes \/ Starts
<1> USE DEF d1Vars
<1>1. ASSUME NEW b \in orphans, LateBatch(b) PROVE Quiet \/ Executes
  <2>1. b \in Pending /\ Pending' \subseteq Pending
    BY <1>1 DEF LateBatch, Pending
  <2> QED
    BY <1>1, <2>1 DEF LateBatch, Quiet, LegacyKept, Executes
<1>2. CASE Crash
  <2>1. job'.pc = "idle"
    BY <1>2, IdleType DEF Crash, Throw
  <2>2. Pending' = orphans'
    BY <2>1 DEF Pending
  <2>3. CASE UNCHANGED <<row, receipts, events, outbox, legacy, orphans>>
    BY <2>2, <2>3 DEF Quiet, LegacyKept, Pending
  <2>4. CASE job.pc = "sent" /\ ExecuteBatch(job.batch) /\ UNCHANGED orphans
    BY <2>2, <2>4 DEF Executes, Pending
  <2>5. CASE /\ job.pc = "sent"
             /\ orphans' = orphans \cup {job.batch}
             /\ UNCHANGED <<row, receipts, events, outbox, legacy>>
    BY <2>2, <2>5 DEF Quiet, LegacyKept, Pending
  <2> QED
    BY <1>2, <2>3, <2>4, <2>5 DEF Crash
<1>3. ASSUME NEW w \in Writers, NEW op \in {"start", "pick", "freeze"}, Acquire(w, op)
      PROVE Quiet
  BY <1>3 DEF Acquire, Quiet, LegacyKept, Pending
<1>4. ASSUME NEW w \in Writers, Check(w) PROVE Quiet
  BY <1>4 DEF Check, Quiet, LegacyKept, Pending
<1>5. ASSUME NEW w \in Writers, WriteStart(w) PROVE Quiet \/ Starts
  <2>1. UNCHANGED <<receipts, events, outbox>> /\ Pending' = Pending
    BY <1>5 DEF WriteStart, Writing, Pending
  <2>2. \/ row = None /\ row' = [state |-> Started, last |-> None]
        \/ UNCHANGED row /\ LegacyKept
    BY <1>5 DEF WriteStart, LegacyKept
  <2> QED
    BY <2>1, <2>2 DEF Quiet, Starts
<1>6. ASSUME NEW w \in Writers, WritePick(w) PROVE Quiet
  BY <1>6 DEF WritePick, Writing, Quiet, LegacyKept, Pending
<1>7. ASSUME NEW w \in Writers, Release(w) PROVE Quiet
  BY <1>7 DEF Release, Quiet, LegacyKept, Pending
<1>8. ASSUME NEW w \in Writers, WriterCrash(w) PROVE Quiet
  BY <1>8 DEF WriterCrash, Quiet, LegacyKept, Pending
<1>9. CASE CloseMock
  BY <1>9 DEF CloseMock, Quiet, LegacyKept, Pending
<1> QED
  BY <1>1, <1>2, <1>3, <1>4, <1>5, <1>6, <1>7, <1>8, <1>9

LEMMA StepKind ==
  ASSUME TypeInv, [Next]_vars
  PROVE  Quiet \/ Executes \/ Rejects \/ Prepares \/ Starts
<1>1. CASE Next
  BY <1>1, CallKind, JobStepKind, EnvironmentKind DEF Next
<1>2. CASE UNCHANGED vars
  BY <1>2 DEF vars, Quiet, LegacyKept, Pending
<1> QED
  BY <1>1, <1>2

LEMMA InitLedger == Init => Ledger /\ BatchesFit
<1> SUFFICES ASSUME Init PROVE Ledger /\ BatchesFit
  OBVIOUS
<1>1. row = None /\ events = {} /\ outbox = {} /\ \A c \in CommandIds : receipts[c] = None
  BY DEF Init
<1>2. Pending = {}
  BY DEF Init, Pending, Idle
<1>3. outbox = {e.id : e \in events}
  BY <1>1
<1> QED
  BY <1>1, <1>2, <1>3 DEF Ledger, NoRowNoEvents, BundleAtomic, GapFree, NoLostUpdate,
                          Accepted, BatchesFit

\* The kinds that change no row, event or work item keep the ledger: a new
\* rejection takes an id that has no event.
LEMMA LedgerKept ==
  ASSUME LedgerInv, UNCHANGED <<row, events, outbox>>,
         \A c \in CommandIds :
           \/ receipts'[c] = receipts[c]
           \/ ~Accepted(c) /\ ~Accepted(c)'
  PROVE  Ledger'
<1>1. \A e \in events : e.id \in CommandIds /\ Accepted(e.id)
  BY DEF LedgerInv, Ledger, BundleAtomic, TypeInv, TypeOK
<1>2. \A c \in CommandIds : Accepted(c) => receipts'[c] = receipts[c] /\ Accepted(c)'
  BY DEF Accepted
<1>3. \A c \in CommandIds : Accepted(c)' => receipts'[c] = receipts[c] /\ Accepted(c)
  BY DEF Accepted
<1>4. outbox' = {e.id : e \in events'}
  <2>1. outbox = {e.id : e \in events}
    BY DEF LedgerInv, Ledger, BundleAtomic
  <2> QED
    BY <2>1
<1>5. BundleAtomic'
  BY <1>1, <1>2, <1>3, <1>4 DEF LedgerInv, Ledger, BundleAtomic
<1>6. NoRowNoEvents' /\ GapFree' /\ NoLostUpdate'
  BY DEF LedgerInv, Ledger, NoRowNoEvents, GapFree, NoLostUpdate
<1> QED
  BY <1>5, <1>6 DEF Ledger

LEMMA FitsKept ==
  ASSUME LedgerInv, UNCHANGED row, Pending' \subseteq Pending
  PROVE  BatchesFit'
  BY DEF LedgerInv, BatchesFit, Fits

LEMMA LedgerStep == LedgerInv /\ [Next]_vars => LedgerInv'
<1> SUFFICES ASSUME LedgerInv, [Next]_vars PROVE Ledger' /\ BatchesFit'
  BY StepType DEF LedgerInv
<1>1. CASE Quiet
  <2>1. Ledger'
    BY <1>1, LedgerKept DEF Quiet
  <2> QED
    BY <1>1, <2>1, FitsKept DEF Quiet
<1>2. CASE Executes
  <2>1. PICK b \in Pending : ExecuteBatch(b)
    BY <1>2 DEF Executes
  <2>2. b \in Batch /\ Fits(b)
    BY PendingType DEF LedgerInv, BatchesFit
  <2>3. Ledger'
    BY <2>1, <2>2, ExecuteLedger
  <2>4. ASSUME NEW o \in Pending PROVE Fits(o)'
    <3>1. o \in Batch /\ Fits(o)
      BY PendingType DEF LedgerInv, BatchesFit
    <3> QED
      BY <2>1, <2>2, <3>1, ExecuteFits
  <2> QED
    BY <1>2, <2>3, <2>4 DEF Executes, BatchesFit
<1>3. CASE Rejects
  <2>1. PICK c \in CommandIds, a \in Answers :
          /\ receipts[c] = None /\ a.code # "ACCEPTED"
          /\ receipts' = [receipts EXCEPT ![c] = a]
    BY <1>3 DEF Rejects
  <2>2. receipts \in [CommandIds -> Answers \cup {None}]
    BY DEF LedgerInv, TypeInv, TypeOK
  <2>3. \A d \in CommandIds :
          \/ receipts'[d] = receipts[d]
          \/ ~Accepted(d) /\ ~Accepted(d)'
    BY <2>1, <2>2 DEF Accepted
  <2>4. Ledger'
    BY <1>3, <2>3, LedgerKept DEF Rejects
  <2> QED
    BY <1>3, <2>4, FitsKept DEF Rejects
<1>4. CASE Prepares
  <2>1. Ledger'
    BY <1>4, LedgerKept DEF Prepares
  <2>2. PICK b \in Batch : /\ b.base = Current /\ b.seed = (row = None)
                           /\ Pending' \subseteq Pending \cup {b}
    BY <1>4 DEF Prepares
  <2>3. Fits(b)'
    <3>1. b.base.seq \in Nat
      BY DEF Batch, State
    <3>2. ~b.seed => row # None /\ b.base = row.state
      BY <2>2 DEF Current
    <3>3. ~b.base.frozen /\ row' = row
      BY <1>4, <2>2 DEF Prepares
    <3> QED
      BY <3>1, <3>2, <3>3 DEF Fits
  <2>4. \A o \in Pending : Fits(o)'
    BY <1>4 DEF Prepares, LedgerInv, BatchesFit, Fits
  <2> QED
    BY <2>1, <2>2, <2>3, <2>4 DEF BatchesFit
<1>5. CASE Starts
  <2>1. events = {} /\ outbox = {}
    BY <1>5 DEF Starts, LedgerInv, Ledger, NoRowNoEvents, BundleAtomic
  <2>2. row' # None /\ row'.last = None
    <3>1. [state |-> Started, last |-> None] \in StateRows
      BY DEF Started, Pristine, State, StateRows
    <3> QED
      BY <1>5, <3>1, NoneAssumption DEF Starts
  <2>3. \A c \in CommandIds : ~Accepted(c)
    BY <2>1 DEF LedgerInv, Ledger, BundleAtomic
  <2>4. events' = {} /\ outbox' = {} /\ \A c \in CommandIds : ~Accepted(c)'
    BY <1>5, <2>1, <2>3 DEF Starts, Accepted
  <2>5. Ledger'
    BY <2>2, <2>4 DEF Ledger, NoRowNoEvents, BundleAtomic, GapFree, NoLostUpdate
  <2>6. \A o \in Pending : ~o.base.frozen /\ o.seed
    BY <1>5 DEF Starts, LedgerInv, BatchesFit, Fits
  <2> QED
    BY <1>5, <2>5, <2>6 DEF Starts, BatchesFit, Fits
<1> QED
  BY <1>1, <1>2, <1>3, <1>4, <1>5, StepKind DEF LedgerInv

LEMMA LedgerAlways == Spec => []LedgerInv
<1>1. Init => LedgerInv
  BY InitType, InitLedger DEF LedgerInv
<1> QED
  BY <1>1, LedgerStep, PTL DEF Spec

\* Receipts, events, archive work and state row of a session agree, its events
\* are numbered without a gap, and no accepted command is ever overwritten: for
\* any number of commands, crashes, lost answers and late batches.
THEOREM LedgerCorrect == Spec => [](BundleAtomic /\ GapFree /\ NoLostUpdate)
<1>1. LedgerInv => BundleAtomic /\ GapFree /\ NoLostUpdate
  BY DEF LedgerInv, Ledger
<1> QED
  BY <1>1, LedgerAlways, PTL

\* A canonical freeze is final for every batch, however late it is executed: no
\* batch that may still run was built on the frozen row.
THEOREM FreezeFinal == Spec => FreezeIsFinal
<1>1. LedgerInv /\ [Next]_vars => [row # None /\ row.state.frozen => row' = row]_vars
  <2> SUFFICES ASSUME LedgerInv, [Next]_vars, row # None, row.state.frozen
               PROVE  row' = row
    OBVIOUS
  <2>1. ~Executes
    <3> SUFFICES ASSUME NEW b \in Pending, ExecuteBatch(b) PROVE FALSE
      BY DEF Executes
    <3>1. b \in Batch /\ Fits(b)
      BY PendingType DEF LedgerInv, BatchesFit
    <3> QED
      BY <3>1, ExecuteMeaning
  <2> QED
    BY <2>1, StepKind DEF LedgerInv, Quiet, Rejects, Prepares, Starts
<1> QED
  BY <1>1, LedgerAlways, PTL DEF Spec, FreezeIsFinal

\* From the first canonical row on, no direct writer changes the legacy tables.
THEOREM LegacySealedForGood == Spec => LegacySealed
<1>1. LedgerInv /\ [Next]_vars => [row # None => UNCHANGED legacy]_vars
  <2> SUFFICES ASSUME LedgerInv, [Next]_vars, row # None
               PROVE  UNCHANGED legacy
    OBVIOUS
  <2>1. Executes => UNCHANGED legacy
    BY DEF Executes, ExecuteBatch
  <2> QED
    BY <2>1, StepKind DEF LedgerInv, Quiet, LegacyKept, Rejects, Prepares, Starts
<1> QED
  BY <1>1, LedgerAlways, PTL DEF Spec, LegacySealed

-----------------------------------------------------------------------------
(***************************************************************************)
(* The answers.  A kept answer that the handler is about to give is on     *)
(* record already, and a receipt on record is never replaced.              *)
(***************************************************************************)
Kept == {"ACCEPTED", "REJECTED", "SESSION_FROZEN", "LEGACY_STATE_REQUIRES_IMPORT"}

JobAnswers ==
  /\ job.pc = "reject" => job.answer.req = job.req
  /\ job.pc \in {"mark", "sent"} => job.batch.req = job.req
  /\ job.pc \in {"finish", "answer"} /\ job.answer.code \in Kept
       => receipts[job.answer.req.id] = job.answer

AnswerInv == TypeInv /\ JobAnswers /\ AnswersOnRecord

LEMMA ReceiptsKept ==
  ASSUME TypeInv, [Next]_vars, NEW c \in CommandIds, receipts[c] # None
  PROVE  receipts'[c] = receipts[c]
<1>1. receipts \in [CommandIds -> Answers \cup {None}]
  BY DEF TypeInv, TypeOK
<1>2. CASE Executes
  <2>1. PICK b \in Pending : ExecuteBatch(b)
    BY <1>2 DEF Executes
  <2>2. receipts[b.req.id] = None
    BY <2>1 DEF ExecuteBatch, BatchAllowed, ReceiptAllowed
  <2> QED
    BY <1>1, <2>1, <2>2 DEF ExecuteBatch
<1>3. CASE Rejects
  BY <1>1, <1>3 DEF Rejects
<1> QED
  BY <1>2, <1>3, StepKind DEF Quiet, Prepares, Starts

\* The handler's own steps
LEMMA JobAnswersStep ==
  ASSUME AnswerInv, JobStep
  PROVE  JobAnswers'
<1> USE DEF JobPhases
<1>1. /\ job \in Jobs /\ JobAnswers /\ TypeInv
      /\ receipts \in [CommandIds -> Answers \cup {None}]
  BY DEF AnswerInv, TypeInv, TypeOK
<1>2. ASSUME job.req \in Requests, receipts[job.req.id] # None, PriorOutcome(job.req),
             UNCHANGED receipts
      PROVE  JobAnswers'
  <2>1. CASE receipts[job.req.id].req = job.req
    <3>1. job'.answer = receipts[job.req.id] /\ job'.pc = "finish"
      BY <1>1, <1>2, <2>1 DEF PriorOutcome, Outcome, Jobs
    <3> QED
      BY <1>2, <2>1, <3>1 DEF JobAnswers
  <2>2. CASE receipts[job.req.id].req # job.req
    <3>1. Rejection(job.req, "COMMAND_ID_REUSED") \in Answers
      BY <1>2, RejectionType DEF Codes
    <3>2. job'.answer = Rejection(job.req, "COMMAND_ID_REUSED")
      BY <1>1, <1>2, <2>2, <3>1, OutcomeType DEF PriorOutcome
    <3>3. job'.answer.code = "COMMAND_ID_REUSED"
      BY <3>2 DEF Rejection, Reply
    <3>4. job'.pc = "finish"
      BY <1>1, <1>2, <2>2, <3>1, OutcomeType DEF PriorOutcome
    <3> QED
      BY <3>3, <3>4 DEF JobAnswers, Kept
  <2> QED
    BY <2>1, <2>2
<1>3. CASE ReadReceipt
  <2>1. job.req \in Requests /\ UNCHANGED receipts
    BY <1>1, <1>3 DEF ReadReceipt, TypeInv, JobHolds, d1Vars
  <2>2. CASE receipts[job.req.id] # None
    BY <1>2, <1>3, <2>1, <2>2 DEF ReadReceipt
  <2>3. CASE receipts[job.req.id] = None
    BY <1>1, <1>3, <2>3, GotoType DEF ReadReceipt, JobAnswers
  <2> QED
    BY <2>2, <2>3
<1>4. ASSUME NEW code \in Codes, Refuse(code) PROVE JobAnswers'
  BY <1>1, <1>4 DEF Refuse, Jobs, JobAnswers, Rejection, Reply
<1>5. CASE RecordRejection
  <2>1. job.req.id \in CommandIds /\ job.answer \in Answers /\ job.answer.req = job.req
    BY <1>1, <1>5, RequestType DEF RecordRejection, TypeInv, JobHolds, JobAnswers
  <2>2. CASE receipts[job.req.id] = None
    <3>1. /\ job'.answer = job.answer /\ job'.pc = "finish"
          /\ receipts'[job.req.id] = job.answer
      BY <1>1, <1>5, <2>1, <2>2, OutcomeType DEF RecordRejection
    <3> QED
      BY <2>1, <3>1 DEF JobAnswers
  <2>3. CASE receipts[job.req.id] # None
    BY <1>5, <2>3, IdleType DEF RecordRejection, Throw, JobAnswers
  <2> QED
    BY <2>2, <2>3
<1>6. CASE Prepare
  BY <1>1, <1>6 DEF Prepare, Jobs, JobAnswers
<1>7. CASE MarkIntent
  BY <1>1, <1>7, GotoType DEF MarkIntent, JobAnswers
<1>8. CASE Commit
  <2>1. /\ ExecuteBatch(job.batch) /\ job.batch.req = job.req
        /\ job.req.id \in CommandIds
    BY <1>1, <1>8, RequestType DEF Commit, JobAnswers, TypeInv, JobHolds
  <2>2. /\ job'.answer = Reply(job.req, "ACCEPTED", job.batch.base.seq + 1)
        /\ job'.pc = "finish"
    BY <1>1, <1>8 DEF Commit, Outcome, Jobs
  <2>3. receipts'[job.req.id] = job'.answer /\ job'.answer.req = job.req
    BY <1>1, <2>1, <2>2 DEF ExecuteBatch, Reply
  <2> QED
    BY <2>2, <2>3 DEF JobAnswers
<1>9. CASE CommitUnheard \/ Abort \/ CallFails
  <2>1. job'.pc = "recheck"
    BY <1>1, <1>9, GotoType DEF CommitUnheard, Abort, CallFails
  <2> QED
    BY <2>1 DEF JobAnswers
<1>10. CASE Recheck
  <2>1. job.req \in Requests /\ UNCHANGED receipts
    BY <1>1, <1>10 DEF Recheck, TypeInv, JobHolds, d1Vars
  <2>2. CASE receipts[job.req.id] # None
    BY <1>2, <1>10, <2>1, <2>2 DEF Recheck
  <2>3. CASE receipts[job.req.id] = None
    BY <1>1, <1>10, <2>3, GotoType DEF Recheck, JobAnswers
  <2> QED
    BY <2>2, <2>3
<1>11. CASE RecheckState
  <2>1. Rejection(job.req, "STALE_SEQUENCE") \in Answers
    BY <1>1, <1>11, RejectionType DEF RecheckState, TypeInv, JobHolds, Codes
  <2>2. \/ job'.answer = Rejection(job.req, "STALE_SEQUENCE") /\ job'.pc = "finish"
        \/ job'.pc = "idle"
    BY <1>1, <1>11, <2>1, OutcomeType, IdleType DEF RecheckState, Throw
  <2>3. Rejection(job.req, "STALE_SEQUENCE").code = "STALE_SEQUENCE"
    BY DEF Rejection, Reply
  <2> QED
    BY <2>2, <2>3 DEF JobAnswers, Kept
<1>12. CASE FinishLive \/ FinishFreeze
  <2>1. /\ job'.pc = "answer" /\ job'.answer = job.answer /\ job.pc = "finish"
        /\ UNCHANGED receipts
    BY <1>1, <1>12, GotoType DEF FinishLive, FinishFreeze, d1Vars
  <2> QED
    BY <1>1, <2>1 DEF JobAnswers
<1>13. CASE Answer
  BY <1>13, IdleType DEF Answer, Throw, JobAnswers
<1> QED
  BY <1>3, <1>4, <1>5, <1>6, <1>7, <1>8, <1>9, <1>10, <1>11, <1>12, <1>13 DEF JobStep

LEMMA AnswerStep == AnswerInv /\ [Next]_vars => AnswerInv'
<1> SUFFICES ASSUME AnswerInv, [Next]_vars PROVE JobAnswers' /\ AnswersOnRecord'
  BY StepType DEF AnswerInv
<1>1. /\ TypeInv /\ JobAnswers /\ AnswersOnRecord /\ replies \subseteq Answers
  BY DEF AnswerInv, TypeInv, TypeOK
<1>2. \A c \in CommandIds : receipts[c] # None => receipts'[c] = receipts[c]
  BY <1>1, ReceiptsKept
<1>3. \A a \in Answers : a # None /\ a.req.id \in CommandIds
  BY RequestType, NoneAssumption DEF Answers
<1>4. JobAnswers'
  <2>1. CASE JobStep
    BY <2>1, JobAnswersStep
  <2>2. CASE UNCHANGED job
    BY <1>1, <1>2, <1>3, <2>2 DEF JobAnswers, TypeInv, JobHolds
  <2>3. CASE job'.pc \in {"idle", "receipt"}
    BY <2>3 DEF JobAnswers
  <2>4. JobStep \/ UNCHANGED job \/ job'.pc \in {"idle", "receipt"}
    BY IdleType, WorkingType
       DEF Next, vars, Hydrate, LiveRefusedByLease, LiveBegin, FreezeBegin, LateBatch,
           Crash, Throw, LegacyOp, Acquire, Check, WriteStart, WritePick, Writing, Release,
           WriterCrash, CloseMock
  <2> QED
    BY <2>1, <2>2, <2>3, <2>4
<1>5. AnswersOnRecord'
  <2>1. \A p \in replies' \ replies :
          \/ p = job.answer /\ job.pc = "answer"
          \/ p.code = "NORMAL_MUTATION_LEASE_ACTIVE"
    <3>1. CASE Answer
      BY <3>1 DEF Answer
    <3>2. ASSUME NEW r \in Requests, LiveRefusedByLease(r)
          PROVE  \A p \in replies' \ replies : p.code = "NORMAL_MUTATION_LEASE_ACTIVE"
      BY <3>2 DEF LiveRefusedByLease, Rejection, Reply
    <3>3. CASE UNCHANGED replies
      BY <3>3
    <3>4. \/ Answer \/ UNCHANGED replies
          \/ \E r \in Requests : LiveRefusedByLease(r)
      BY DEF Next, vars, Hydrate, LiveBegin, FreezeBegin, LateBatch, Crash, LegacyOp,
             Acquire, Check, WriteStart, WritePick, Writing, Release, WriterCrash,
             CloseMock, JobStep, ReadReceipt, Refuse, RecordRejection, Prepare, MarkIntent,
             Commit, CommitUnheard, Abort, CallFails, Recheck, RecheckState, FinishLive,
             FinishFreeze
    <3> QED
      BY <3>1, <3>2, <3>3, <3>4
  <2> SUFFICES ASSUME NEW p \in replies', p.code \in Kept
               PROVE  receipts'[p.req.id] = p
    BY DEF AnswersOnRecord, Kept
  <2>2. CASE p \in replies
    BY <1>1, <1>2, <1>3, <2>2 DEF AnswersOnRecord, Kept
  <2>3. CASE p = job.answer /\ job.pc = "answer"
    BY <1>1, <1>2, <1>3, <2>3 DEF JobAnswers, TypeInv, JobHolds
  <2> QED
    BY <2>1, <2>2, <2>3 DEF Kept
<1> QED
  BY <1>4, <1>5

\* Whatever the DO told a client of a kept verdict is on record for good.
THEOREM AnswersKept == Spec => []AnswersOnRecord
<1>1. Init => AnswerInv
  BY InitType DEF Init, AnswerInv, JobAnswers, AnswersOnRecord, Idle
<1>2. AnswerInv => AnswersOnRecord
  BY DEF AnswerInv
<1> QED
  BY <1>1, <1>2, AnswerStep, PTL DEF Spec

=============================================================================
