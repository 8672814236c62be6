------------------------ MODULE CommandServiceProofs ------------------------
(***************************************************************************)
(* What the clients and the direct writers of a session can rely on: the   *)
(* lease excludes canonical commands, the projection can be rebuilt and    *)
(* shows what was acknowledged, and the service implements CommandLog.     *)
(***************************************************************************)
EXTENDS CanonicalCommandProofs

\* The steps at which a command may still read or write the canonical tables
InCall == {"state", "reject", "mark", "sent", "recheck", "recheckState"}

(***************************************************************************)
(* The lease.  Its holder is the only writer under way, and a command that *)
(* may still write runs without a lease, or for the freeze that holds it.  *)
(* A lease is not given back before the command has ended, so whatever the *)
(* command found of the lease stays true while it runs.                    *)
(***************************************************************************)
Holders == \A w \in Writers : writers[w].pc \notin {"idle", "gone"} => lease = w

FreezeCalls ==
  /\ job.by \in Writers /\ lease = job.by
  /\ writers[job.by].op = "freeze"

CallsExclude ==
  /\ job.pc \in InCall => lease = None \/ FreezeCalls
  /\ job.pc = "receipt" => lease = None \/ FreezeCalls \/ receipts[job.req.id] # None

LeaseInv ==
  TypeInv /\ orphans = {} /\ Holders /\ CallsExclude /\ CheckedStillTrue

\* While a command may write, no direct writer has checked that it may.
LEMMA NobodyChecked ==
  ASSUME LeaseInv, job.pc \in InCall, NEW w \in Writers,
         writers[w].op \in {"start", "pick"}
  PROVE  writers[w].pc \notin {"checked", "ghost"}
<1>1. None \notin Writers
  BY NamesAssumption
<1> QED
  BY <1>1 DEF LeaseInv, Holders, CallsExclude, FreezeCalls

\* The handler gives the turn back to the Worker that called it, and nothing else.
LEMMA CallEndsOnly ==
  ASSUME TypeInv, CallEnds, NEW w \in Writers
  PROVE  /\ writers'[w].op = writers[w].op
         /\ \/ writers'[w].pc = writers[w].pc
            \/ writers[w].pc = "calling" /\ writers'[w].pc = "release"
<1>1. writers[w] \in WriterStates
  BY DEF TypeInv, TypeOK
<1> QED
  BY <1>1 DEF CallEnds, WriterStates

\* A step of the handler that goes on with the same command
LEMMA SameCall ==
  ASSUME LeaseInv, job.pc \in InCall \/ (job.pc = "receipt" /\ receipts[job.req.id] = None),
         job'.by = job.by, UNCHANGED <<lease, writers>>, job'.pc # "receipt"
  PROVE  CallsExclude'
  BY DEF LeaseInv, CallsExclude, FreezeCalls, InCall

LEMMA NoCall ==
  ASSUME job'.pc \notin InCall \cup {"receipt"}
  PROVE  CallsExclude'
  BY DEF CallsExclude

\* Writers that stay where they are, or end their call, keep holding the lease;
\* if a row appears none of them had checked that there is none.
LEMMA WritersRest ==
  ASSUME LeaseInv, UNCHANGED lease, UNCHANGED writers \/ CallEnds,
         UNCHANGED row \/ job.pc \in InCall
  PROVE  Holders' /\ CheckedStillTrue'
<1>1. \A w \in Writers :
        /\ writers'[w].op = writers[w].op
        /\ \/ writers'[w].pc = writers[w].pc
           \/ writers[w].pc = "calling" /\ writers'[w].pc = "release"
  BY CallEndsOnly DEF LeaseInv
<1>2. Holders'
  BY <1>1 DEF LeaseInv, Holders
<1>3. ASSUME NEW w \in Writers, writers'[w].pc \in {"checked", "ghost"},
             writers'[w].op \in {"start", "pick"}
      PROVE  row' = None
  <2>1. writers[w].pc \in {"checked", "ghost"} /\ writers[w].op \in {"start", "pick"}
    BY <1>1, <1>3
  <2>2. row = None /\ job.pc \notin InCall
    BY <2>1, NobodyChecked DEF LeaseInv, CheckedStillTrue
  <2> QED
    BY <2>2
<1> QED
  BY <1>2, <1>3 DEF CheckedStillTrue

\* The steps of the handler
LEMMA LeaseJobStep ==
  ASSUME ~LateBatches, LeaseInv, JobStep
  PROVE  orphans' = {} /\ Holders' /\ CallsExclude' /\ CheckedStillTrue'
<1> USE DEF d1Vars, JobPhases
<1>1. job \in Jobs /\ orphans = {} /\ TypeInv /\ Idle.pc = "idle"
  BY IdleType DEF LeaseInv, TypeInv, TypeOK
<1>2. CASE ReadReceipt
  <2>1. UNCHANGED <<orphans, lease, writers, row>> /\ job.pc = "receipt" /\ job.req \in Requests
    BY <1>1, <1>2 DEF ReadReceipt, TypeInv, JobHolds
  <2>2. CASE receipts[job.req.id] # None
    <3>1. job'.pc = "finish"
      BY <1>1, <1>2, <2>1, <2>2, PriorOutcomeType DEF ReadReceipt
    <3> QED
      BY <1>1, <2>1, <3>1, NoCall, WritersRest DEF InCall
  <2>3. CASE receipts[job.req.id] = None
    <3>1. job'.pc = "state" /\ job'.by = job.by
      BY <1>1, <1>2, <2>3, GotoType DEF ReadReceipt
    <3> QED
      BY <1>1, <2>1, <2>3, <3>1, SameCall, WritersRest
  <2> QED
    BY <2>2, <2>3
<1>3. ASSUME NEW code \in Codes, Refuse(code)
      PROVE  orphans' = {} /\ Holders' /\ CallsExclude' /\ CheckedStillTrue'
  <2>1. /\ UNCHANGED <<orphans, lease, writers, row>> /\ job.pc \in InCall
        /\ job'.by = job.by /\ job'.pc = "reject"
    BY <1>1, <1>3 DEF Refuse, Jobs, InCall
  <2> QED
    BY <1>1, <2>1, SameCall, WritersRest
<1>4. CASE RecordRejection
  <2>1. /\ UNCHANGED <<orphans, lease, row>> /\ (UNCHANGED writers \/ CallEnds)
        /\ job.pc = "reject" /\ job.answer \in Answers
    BY <1>1, <1>4 DEF RecordRejection, Throw, TypeInv, JobHolds
  <2>2. job'.pc \in {"finish", "idle"}
    BY <1>1, <1>4, <2>1, OutcomeType DEF RecordRejection, Throw
  <2> QED
    BY <1>1, <2>1, <2>2, NoCall, WritersRest DEF InCall
<1>5. CASE Prepare
  <2>1. /\ UNCHANGED <<orphans, lease, writers, row>> /\ job.pc \in InCall
        /\ job'.by = job.by /\ job'.pc \in {"mark", "sent"}
    BY <1>1, <1>5 DEF Prepare, Jobs, InCall
  <2> QED
    BY <1>1, <2>1, SameCall, WritersRest
<1>6. CASE MarkIntent
  <2>1. /\ UNCHANGED <<orphans, lease, writers, row>> /\ job.pc \in InCall
        /\ job'.by = job.by /\ job'.pc = "sent"
    BY <1>1, <1>6, GotoType DEF MarkIntent, InCall
  <2> QED
    BY <1>1, <2>1, SameCall, WritersRest
<1>7. CASE Commit
  <2>1. /\ UNCHANGED <<orphans, lease, writers>> /\ job.pc \in InCall
        /\ job'.pc = "finish"
    BY <1>1, <1>7 DEF Commit, Outcome, Jobs, InCall
  <2> QED
    BY <1>1, <2>1, NoCall, WritersRest DEF InCall
<1>8. CASE CommitUnheard \/ Abort
  <2>1. /\ UNCHANGED <<orphans, lease, writers>> /\ job.pc \in InCall
        /\ job'.by = job.by /\ job'.pc = "recheck"
    BY <1>1, <1>8, GotoType DEF CommitUnheard, Abort, InCall
  <2> QED
    BY <1>1, <2>1, SameCall, WritersRest
<1>9. CASE CallFails
  <2>1. /\ UNCHANGED <<orphans, lease, writers, row>> /\ job.pc \in InCall
        /\ job'.by = job.by /\ job'.pc = "recheck"
    BY <1>1, <1>9, GotoType DEF CallFails, InCall
  <2> QED
    BY <1>1, <2>1, SameCall, WritersRest
<1>10. CASE Recheck
  <2>1. /\ UNCHANGED <<orphans, lease, writers, row>> /\ job.pc \in InCall
        /\ job.req \in Requests
    BY <1>1, <1>10 DEF Recheck, TypeInv, JobHolds, InCall
  <2>2. CASE receipts[job.req.id] # None
    <3>1. job'.pc = "finish"
      BY <1>1, <1>10, <2>1, <2>2, PriorOutcomeType DEF Recheck
    <3> QED
      BY <1>1, <2>1, <3>1, NoCall, WritersRest DEF InCall
  <2>3. CASE receipts[job.req.id] = None
    <3>1. job'.pc = "recheckState" /\ job'.by = job.by
      BY <1>1, <1>10, <2>3, GotoType DEF Recheck
    <3> QED
      BY <1>1, <2>1, <3>1, SameCall, WritersRest
  <2> QED
    BY <2>2, <2>3
<1>11. CASE RecheckState
  <2>1. UNCHANGED <<orphans, lease, row>> /\ (UNCHANGED writers \/ CallEnds)
    BY <1>11 DEF RecheckState, Throw
  <2>2. job'.pc \in {"finish", "idle"}
    BY <1>1, <1>11 DEF RecheckState, Outcome, Throw, Jobs
  <2> QED
    BY <1>1, <2>1, <2>2, NoCall, WritersRest DEF InCall
<1>12. CASE FinishLive \/ FinishFreeze \/ Answer
  <2>1. UNCHANGED <<orphans, lease, row>> /\ (UNCHANGED writers \/ CallEnds)
    BY <1>12 DEF FinishLive, FinishFreeze, Answer, Throw
  <2>2. job'.pc \in {"answer", "idle"}
    BY <1>1, <1>12, GotoType DEF FinishLive, FinishFreeze, Answer, Throw
  <2> QED
    BY <1>1, <2>1, <2>2, NoCall, WritersRest DEF InCall
<1> QED
  BY <1>2, <1>3, <1>4, <1>5, <1>6, <1>7, <1>8, <1>9, <1>10, <1>11, <1>12 DEF JobStep

\* The steps that start, or turn away, a call to the DO
LEMMA LeaseCall ==
  ASSUME LeaseInv,
         \/ Hydrate
         \/ \E r \in Requests : LiveRefusedByLease(r) \/ LiveBegin(r)
         \/ \E w \in Writers, r \in Requests : FreezeBegin(w, r)
         \/ \E op \in LegacyOps : LegacyOp(op)
  PROVE  orphans' = {} /\ Holders' /\ CallsExclude' /\ CheckedStillTrue'
<1> USE DEF d1Vars
<1>1. CASE Hydrate \/ \E r \in Requests : LiveRefusedByLease(r)
  <2>1. UNCHANGED <<orphans, lease, writers, row, receipts, job>>
    BY <1>1 DEF Hydrate, LiveRefusedByLease
  <2> QED
    BY <2>1, WritersRest DEF LeaseInv, CallsExclude, FreezeCalls
<1>2. ASSUME NEW r \in Requests, LiveBegin(r)
      PROVE  orphans' = {} /\ Holders' /\ CallsExclude' /\ CheckedStillTrue'
  <2>1. /\ UNCHANGED <<orphans, lease, writers, row, receipts>>
        /\ lease = None \/ receipts[r.id] # None
        /\ job'.pc = "receipt" /\ job'.req = r
    BY <1>2, WorkingType DEF LiveBegin
  <2> QED
    BY <2>1, WritersRest DEF LeaseInv, CallsExclude, InCall
<1>3. ASSUME NEW w \in Writers, NEW r \in Requests, FreezeBegin(w, r)
      PROVE  orphans' = {} /\ Holders' /\ CallsExclude' /\ CheckedStillTrue'
  <2>1. /\ UNCHANGED <<orphans, lease, row, receipts>>
        /\ writers[w] = [pc |-> "checked", op |-> "freeze"]
        /\ writers' = [writers EXCEPT ![w].pc = "calling"]
        /\ job' = Working(r, w)
    BY <1>3 DEF FreezeBegin
  <2>2. writers \in [Writers -> WriterStates]
    BY DEF LeaseInv, TypeInv, TypeOK
  <2>3. job'.pc = "receipt" /\ job'.by = w
    BY <2>1 DEF Working, Idle
  <2>4. lease = w
    BY <2>1 DEF LeaseInv, Holders
  <2>5. /\ writers'[w].op = "freeze" /\ writers'[w].pc = "calling"
        /\ \A u \in Writers \ {w} : writers'[u] = writers[u]
    BY <2>1, <2>2 DEF WriterStates
  <2>6. CallsExclude'
    BY <2>1, <2>3, <2>4, <2>5 DEF CallsExclude, FreezeCalls, InCall
  <2>7. Holders' /\ CheckedStillTrue'
    BY <2>1, <2>4, <2>5 DEF LeaseInv, Holders, CheckedStillTrue
  <2> QED
    BY <2>1, <2>6, <2>7 DEF LeaseInv
<1>4. ASSUME NEW op \in LegacyOps, LegacyOp(op)
      PROVE  orphans' = {} /\ Holders' /\ CallsExclude' /\ CheckedStillTrue'
  <2>1. UNCHANGED <<orphans, lease, writers, row, receipts, job>>
    BY <1>4 DEF LegacyOp
  <2> QED
    BY <2>1, WritersRest DEF LeaseInv, CallsExclude, FreezeCalls
<1> QED
  BY <1>1, <1>2, <1>3, <1>4

\* The writers and the failures
LEMMA LeaseEnvironment ==
  ASSUME ~LateBatches, LeaseInv,
         \/ \E b \in orphans : LateBatch(b)
         \/ Crash
         \/ \E w \in Writers, op \in {"start", "pick", "freeze"} : Acquire(w, op)
         \/ \E w \in Writers :
              Check(w) \/ WriteStart(w) \/ WritePick(w) \/ Release(w) \/ WriterCrash(w)
         \/ CloseMock
  PROVE  orphans' = {} /\ Holders' /\ CallsExclude' /\ CheckedStillTrue'
<1> USE DEF d1Vars
<1>1. /\ orphans = {} /\ None \notin Writers /\ job \in Jobs
      /\ writers \in [Writers -> WriterStates]
      /\ \A w \in Writers : writers[w] \in WriterStates
  BY NamesAssumption DEF LeaseInv, TypeInv, TypeOK
<1>2. CASE Crash
  <2>1. /\ UNCHANGED <<orphans, lease>> /\ CallEnds /\ job'.pc = "idle"
        /\ UNCHANGED row \/ job.pc = "sent"
    BY <1>2, IdleType DEF Crash, Throw
  <2> QED
    BY <1>1, <2>1, NoCall, WritersRest DEF InCall
<1>3. ASSUME NEW w \in Writers, NEW op \in {"start", "pick", "freeze"}, Acquire(w, op)
      PROVE  orphans' = {} /\ Holders' /\ CallsExclude' /\ CheckedStillTrue'
  <2>1. /\ UNCHANGED <<orphans, row, job>> /\ lease = None /\ lease' = w
        /\ job.pc = "idle"
        /\ writers' = [writers EXCEPT ![w] = [pc |-> "leased", op |-> op]]
    BY <1>3 DEF Acquire
  <2>2. /\ writers'[w].pc = "leased"
        /\ \A u \in Writers \ {w} : writers'[u] = writers[u]
    BY <1>1, <2>1
  <2>3. Holders' /\ CheckedStillTrue'
    BY <1>1, <2>1, <2>2 DEF LeaseInv, Holders, CheckedStillTrue
  <2> QED
    BY <1>1, <2>1, <2>3, NoCall DEF InCall
<1>4. ASSUME NEW w \in Writers, NEW pc \in {"checked", "release"}, writers[w].pc = "leased",
             pc = "checked" => Permitted(writers[w].op), Advance(w, pc),
             UNCHANGED <<orphans, lease, row, job, receipts>>
      PROVE  orphans' = {} /\ Holders' /\ CallsExclude' /\ CheckedStillTrue'
  <2>1. /\ writers'[w].pc = pc /\ writers'[w].op = writers[w].op
        /\ \A u \in Writers \ {w} : writers'[u] = writers[u]
    BY <1>1, <1>4 DEF Advance, WriterStates
  <2>2. pc = "checked" /\ writers[w].op \in {"start", "pick"} => row = None
    BY <1>4 DEF Permitted
  <2>3. Holders' /\ CheckedStillTrue'
    BY <1>4, <2>1, <2>2 DEF LeaseInv, Holders, CheckedStillTrue
  <2>4. CallsExclude'
    BY <1>1, <1>4, <2>1 DEF LeaseInv, CallsExclude, FreezeCalls
  <2> QED
    BY <1>1, <1>4, <2>3, <2>4
<1>5. ASSUME NEW w \in Writers, Check(w)
      PROVE  orphans' = {} /\ Holders' /\ CallsExclude' /\ CheckedStillTrue'
  <2>1. CASE Permitted(writers[w].op)
    BY <1>4, <1>5, <2>1 DEF Check
  <2>2. CASE ~Permitted(writers[w].op)
    BY <1>4, <1>5, <2>2 DEF Check
  <2> QED
    BY <2>1, <2>2
<1>6. ASSUME NEW w \in Writers, NEW op \in {"start", "pick"}, Writing(w, op)
      PROVE  orphans' = {} /\ Holders' /\ CallsExclude' /\ CheckedStillTrue'
  <2>1. /\ UNCHANGED <<orphans, lease, job, receipts>>
        /\ writers[w].pc \in {"checked", "ghost"} /\ writers[w].op = op /\ lease = w
    BY <1>6 DEF Writing, LeaseInv, Holders
  <2>2. /\ writers'[w].pc \in {"release", "gone"} /\ writers'[w].op = writers[w].op
        /\ \A u \in Writers \ {w} : writers'[u] = writers[u]
    BY <1>1, <1>6 DEF Writing, Advance, WriterStates
  <2>3. Holders' /\ CheckedStillTrue'
    BY <2>1, <2>2 DEF LeaseInv, Holders, CheckedStillTrue
  <2>4. CallsExclude'
    BY <1>1, <2>1, <2>2 DEF LeaseInv, CallsExclude, FreezeCalls
  <2> QED
    BY <1>1, <2>1, <2>3, <2>4
<1>7. ASSUME NEW w \in Writers, Release(w)
      PROVE  orphans' = {} /\ Holders' /\ CallsExclude' /\ CheckedStillTrue'
  <2>1. /\ UNCHANGED <<orphans, row, job>> /\ lease = w /\ lease' = None
        /\ job.pc = "idle"
        /\ writers' = [writers EXCEPT ![w] = [pc |-> "idle", op |-> None]]
    BY <1>7 DEF Release, LeaseInv, Holders
  <2>2. /\ writers'[w].pc = "idle"
        /\ \A u \in Writers \ {w} : writers'[u] = writers[u]
    BY <1>1, <2>1
  <2>3. Holders' /\ CheckedStillTrue'
    BY <2>1, <2>2 DEF LeaseInv, Holders, CheckedStillTrue
  <2> QED
    BY <1>1, <2>1, <2>3, NoCall DEF InCall
<1>8. ASSUME NEW w \in Writers, WriterCrash(w)
      PROVE  orphans' = {} /\ Holders' /\ CallsExclude' /\ CheckedStillTrue'
  <2>1. /\ UNCHANGED <<orphans, lease, row, job, receipts>>
        /\ writers[w].pc \in {"leased", "checked", "calling", "release"}
        /\ Advance(w, IF writers[w].pc = "checked" /\ writers[w].op # "freeze"
                      THEN "ghost" ELSE "gone")
    BY <1>8 DEF WriterCrash
  <2>2. /\ writers'[w].op = writers[w].op
        /\ \/ writers'[w].pc = "gone"
           \/ writers'[w].pc = "ghost" /\ writers[w].pc = "checked"
        /\ \A u \in Writers \ {w} : writers'[u] = writers[u]
    BY <1>1, <2>1 DEF Advance, WriterStates
  <2>3. Holders' /\ CheckedStillTrue'
    BY <2>1, <2>2 DEF LeaseInv, Holders, CheckedStillTrue
  <2>4. CallsExclude'
    BY <1>1, <2>1, <2>2 DEF LeaseInv, CallsExclude, FreezeCalls
  <2> QED
    BY <1>1, <2>1, <2>3, <2>4
<1>9. CASE CloseMock
  <2>1. UNCHANGED <<orphans, lease, writers, row, receipts, job>>
    BY <1>9 DEF CloseMock
  <2> QED
    BY <1>1, <2>1, WritersRest DEF LeaseInv, CallsExclude, FreezeCalls
<1> QED
  BY <1>1, <1>2, <1>3, <1>5, <1>6, <1>7, <1>8, <1>9 DEF WriteStart, WritePick

LEMMA LeaseStep ==
  ASSUME ~LateBatches
  PROVE  LeaseInv /\ [Next]_vars => LeaseInv'
<1> SUFFICES ASSUME LeaseInv, [Next]_vars
             PROVE  orphans' = {} /\ Holders' /\ CallsExclude' /\ CheckedStillTrue'
  BY StepType DEF LeaseInv
<1>1. CASE Next
  BY <1>1, LeaseJobStep, LeaseCall, LeaseEnvironment DEF Next
<1>2. CASE UNCHANGED vars
  BY <1>2, WritersRest DEF vars, LeaseInv, CallsExclude, FreezeCalls
<1> QED
  BY <1>1, <1>2

LEMMA LeaseAlways ==
  ASSUME ~LateBatches
  PROVE  Spec => []LeaseInv
<1>1. Init => LeaseInv
  <2> SUFFICES ASSUME Init PROVE orphans = {} /\ Holders /\ CallsExclude /\ CheckedStillTrue
    BY InitType DEF LeaseInv
  <2>1. job.pc = "idle" /\ \A w \in Writers : writers[w].pc = "idle"
    BY DEF Init, Idle
  <2> QED
    BY <2>1 DEF Init, Holders, CallsExclude, InCall, CheckedStillTrue
<1>2. LeaseInv /\ [Next]_vars => LeaseInv'
  BY LeaseStep
<1> QED
  BY <1>1, <1>2, PTL DEF Spec

\* Unless a batch is still executed when nobody waits for it, what a direct
\* writer checked under the lease holds when it writes, also after a crash of
\* the writer or of the DO: for any number of writers and commands.
THEOREM LeaseExcludes ==
  ASSUME ~LateBatches
  PROVE  Spec => []CheckedStillTrue
<1>1. LeaseInv => CheckedStillTrue
  BY DEF LeaseInv
<1> QED
  BY <1>1, LeaseAlways, PTL

-----------------------------------------------------------------------------
(***************************************************************************)
(* The service implements CommandLog.  The command is accepted by the step *)
(* that executes its batch, refused by the step that records the refusal,  *)
(* and every answer is true when it is given: what the handler is about to *)
(* answer is its receipt, the receipt of another request under the same    *)
(* id, or that the session has passed the expected sequence.               *)
(***************************************************************************)
RefusalTrue(a) ==
  \E code \in Log!Permanent :
    /\ a = Rejection(job.req, code)
    /\ code = "STALE_SEQUENCE" => row = None \/ row.state.seq # job.req.expected

OnRecord == receipts[job.req.id] = job.answer /\ job.answer.req = job.req

IdReused ==
  /\ receipts[job.req.id] # None /\ receipts[job.req.id].req # job.req
  /\ job.answer = Rejection(job.req, "COMMAND_ID_REUSED")

Overtaken ==
  /\ receipts[job.req.id] = None
  /\ row # None /\ row.state.seq > job.req.expected
  /\ job.answer = Rejection(job.req, "STALE_SEQUENCE")

JobReports ==
  /\ job.pc = "reject" => RefusalTrue(job.answer)
  /\ job.pc \in {"mark", "sent"} => job.batch.req = job.req
  /\ job.pc = "recheckState" => receipts[job.req.id] = None
  /\ job.pc \in {"finish", "answer"} => OnRecord \/ IdReused \/ Overtaken

RefInv == LeaseInv /\ LedgerInv /\ JobReports

\* The answer that PriorOutcome takes from a receipt
LEMMA PriorReports ==
  ASSUME TypeInv, job.req \in Requests, receipts[job.req.id] # None,
         PriorOutcome(job.req), UNCHANGED receipts
  PROVE  JobReports'
<1>1. job.req.id \in CommandIds /\ job \in Jobs /\ receipts[job.req.id] \in Answers
  BY RequestType DEF TypeInv, TypeOK
<1>2. job'.pc = "finish" /\ job'.req = job.req
  BY PriorOutcomeType
<1>3. CASE receipts[job.req.id].req = job.req
  <2>1. job'.answer = receipts[job.req.id]
    BY <1>1, <1>3 DEF PriorOutcome, Outcome, Jobs
  <2> QED
    BY <1>2, <1>3, <2>1 DEF JobReports, OnRecord
<1>4. CASE receipts[job.req.id].req # job.req
  <2>1. job'.answer = Rejection(job.req, "COMMAND_ID_REUSED")
    BY <1>1, <1>4 DEF PriorOutcome, Outcome, Jobs
  <2> QED
    BY <1>2, <1>4, <2>1 DEF JobReports, IdReused
<1> QED
  BY <1>3, <1>4

LEMMA ReportsJobStep ==
  ASSUME RefInv, JobStep
  PROVE  JobReports'
<1> USE DEF d1Vars, JobPhases
<1>1. /\ job \in Jobs /\ TypeInv /\ LedgerInv /\ JobReports /\ Idle.pc = "idle"
      /\ receipts \in [CommandIds -> Answers \cup {None}]
  BY IdleType DEF RefInv, LedgerInv, TypeInv, TypeOK
<1>2. CASE ReadReceipt
  <2>1. job.req \in Requests /\ UNCHANGED receipts
    BY <1>1, <1>2 DEF ReadReceipt, TypeInv, JobHolds
  <2>2. CASE receipts[job.req.id] # None
    BY <1>1, <1>2, <2>1, <2>2, PriorReports DEF ReadReceipt
  <2>3. CASE receipts[job.req.id] = None
    BY <1>1, <1>2, <2>3, GotoType DEF ReadReceipt, JobReports
  <2> QED
    BY <2>2, <2>3
<1>3. ASSUME NEW code \in Codes, Refuse(code) PROVE JobReports'
  <2>1. /\ UNCHANGED row /\ Refusal(job.req, code) /\ job'.pc = "reject"
        /\ job'.answer = Rejection(job.req, code) /\ job'.req = job.req
    BY <1>1, <1>3 DEF Refuse, Jobs
  <2>2. code \in Log!Permanent
    BY <2>1 DEF Refusal, Log!Permanent
  <2>3. code = "STALE_SEQUENCE" => row = None \/ row.state.seq # job.req.expected
    BY <2>1 DEF Refusal, Current
  <2> QED
    BY <2>1, <2>2, <2>3 DEF JobReports, RefusalTrue
<1>4. CASE RecordRejection
  <2>1. job.req.id \in CommandIds /\ job.answer \in Answers /\ RefusalTrue(job.answer)
    BY <1>1, <1>4, RequestType DEF RecordRejection, TypeInv, JobHolds, JobReports
  <2>2. job.answer.req = job.req
    BY <2>1 DEF RefusalTrue, Rejection, Reply
  <2>3. CASE receipts[job.req.id] = None
    <3>1. /\ job'.answer = job.answer /\ job'.pc = "finish" /\ job'.req = job.req
          /\ receipts'[job.req.id] = job.answer
      BY <1>1, <1>4, <2>1, <2>3, OutcomeType DEF RecordRejection
    <3> QED
      BY <2>2, <3>1 DEF JobReports, OnRecord
  <2>4. CASE receipts[job.req.id] # None
    BY <1>1, <1>4, <2>4 DEF RecordRejection, Throw, JobReports
  <2> QED
    BY <2>3, <2>4
<1>5. CASE Prepare
  BY <1>1, <1>5 DEF Prepare, Jobs, JobReports
<1>6. CASE MarkIntent
  BY <1>1, <1>6, GotoType DEF MarkIntent, JobReports
<1>7. CASE Commit
  <2>1. /\ ExecuteBatch(job.batch) /\ job.batch.req = job.req
        /\ job.req.id \in CommandIds
    BY <1>1, <1>7, RequestType DEF Commit, JobReports, TypeInv, JobHolds
  <2>2. /\ job'.answer = Reply(job.req, "ACCEPTED", job.batch.base.seq + 1)
        /\ job'.pc = "finish" /\ job'.req = job.req
    BY <1>1, <1>7 DEF Commit, Outcome, Jobs
  <2>3. receipts'[job.req.id] = job'.answer /\ job'.answer.req = job.req
    BY <1>1, <2>1, <2>2 DEF ExecuteBatch, Reply
  <2> QED
    BY <2>2, <2>3 DEF JobReports, OnRecord
<1>8. CASE CommitUnheard \/ Abort \/ CallFails
  <2>1. job'.pc = "recheck"
    BY <1>1, <1>8, GotoType DEF CommitUnheard, Abort, CallFails
  <2> QED
    BY <2>1 DEF JobReports
<1>9. CASE Recheck
  <2>1. job.req \in Requests /\ UNCHANGED receipts
    BY <1>1, <1>9 DEF Recheck, TypeInv, JobHolds
  <2>2. CASE receipts[job.req.id] # None
    BY <1>1, <1>9, <2>1, <2>2, PriorReports DEF Recheck
  <2>3. CASE receipts[job.req.id] = None
    BY <1>1, <1>9, <2>3, GotoType DEF Recheck, JobReports
  <2> QED
    BY <2>2, <2>3
<1>10. CASE RecheckState
  <2>1. UNCHANGED <<row, receipts>> /\ receipts[job.req.id] = None
    BY <1>1, <1>10 DEF RecheckState, JobReports
  <2>2. CASE row # None /\ row.state.seq > job.req.expected
    <3>1. /\ job'.answer = Rejection(job.req, "STALE_SEQUENCE") /\ job'.pc = "finish"
          /\ job'.req = job.req
      BY <1>1, <1>10, <2>2 DEF RecheckState, Outcome, Jobs
    <3> QED
      BY <2>1, <2>2, <3>1 DEF JobReports, Overtaken
  <2>3. CASE ~(row # None /\ row.state.seq > job.req.expected)
    BY <1>1, <1>10, <2>3 DEF RecheckState, Throw, JobReports
  <2> QED
    BY <2>2, <2>3
<1>11. CASE FinishLive \/ FinishFreeze
  <2>1. /\ job'.pc = "answer" /\ job'.answer = job.answer /\ job.pc = "finish"
        /\ job'.req = job.req /\ UNCHANGED <<receipts, row>>
    BY <1>1, <1>11, GotoType DEF FinishLive, FinishFreeze
  <2> QED
    BY <1>1, <2>1 DEF JobReports, OnRecord, IdReused, Overtaken
<1>12. CASE Answer
  BY <1>1, <1>12 DEF Answer, Throw, JobReports
<1> QED
  BY <1>2, <1>3, <1>4, <1>5, <1>6, <1>7, <1>8, <1>9, <1>10, <1>11, <1>12
     DEF JobStep

\* A step that is not the handler's leaves its findings true: no batch is behind
\* its back, and a start can write only when nothing rests on the missing row.
LEMMA ReportsKept ==
  ASSUME RefInv, UNCHANGED <<job, receipts>>,
         \/ UNCHANGED row
         \/ /\ row = None
            /\ \E w \in Writers : writers[w].pc \in {"checked", "ghost"}
                                /\ writers[w].op = "start"
  PROVE  JobReports'
<1>1. CASE UNCHANGED row
  BY <1>1 DEF RefInv, JobReports, RefusalTrue, OnRecord, IdReused, Overtaken
<1>2. CASE /\ row = None
           /\ \E w \in Writers : writers[w].pc \in {"checked", "ghost"}
                               /\ writers[w].op = "start"
  <2>1. job.pc \notin InCall
    BY <1>2, NobodyChecked DEF RefInv
  <2>2. job.pc # "reject"
    BY <2>1 DEF InCall
  <2> QED
    BY <1>2, <2>2 DEF RefInv, JobReports, OnRecord, IdReused, Overtaken
<1> QED
  BY <1>1, <1>2

LEMMA ReportsIdle ==
  ASSUME job'.pc \in {"idle", "receipt"}
  PROVE  JobReports'
  BY DEF JobReports

LEMMA ReportsStep ==
  ASSUME RefInv, [Next]_vars
  PROVE  JobReports'
<1> USE DEF d1Vars
<1>1. orphans = {} /\ Idle.pc = "idle"
  BY IdleType DEF RefInv, LeaseInv
<1>2. CASE JobStep
  BY <1>2, ReportsJobStep
<1>3. CASE \/ Hydrate \/ CloseMock
           \/ \E r \in Requests : LiveRefusedByLease(r)
           \/ \E op \in LegacyOps : LegacyOp(op)
           \/ \E w \in Writers, op \in {"start", "pick", "freeze"} : Acquire(w, op)
           \/ \E w \in Writers : Check(w) \/ WritePick(w) \/ Release(w) \/ WriterCrash(w)
  <2>1. UNCHANGED <<job, receipts, row>>
    BY <1>3 DEF Hydrate, CloseMock, LiveRefusedByLease, LegacyOp, Acquire, Check, WritePick,
                Writing, Release, WriterCrash
  <2> QED
    BY <2>1, ReportsKept
<1>4. ASSUME NEW r \in Requests,
             LiveBegin(r) \/ \E w \in Writers : FreezeBegin(w, r)
      PROVE  JobReports'
  <2>1. job'.pc = "receipt"
    BY <1>4, WorkingType DEF LiveBegin, FreezeBegin
  <2> QED
    BY <2>1, ReportsIdle
<1>5. CASE Crash
  BY <1>1, <1>5, ReportsIdle DEF Crash, Throw
<1>6. ASSUME NEW w \in Writers, WriteStart(w) PROVE JobReports'
  <2>1. /\ UNCHANGED <<job, receipts>>
        /\ writers[w].pc \in {"checked", "ghost"} /\ writers[w].op = "start"
        /\ row = None \/ UNCHANGED row
    BY <1>6 DEF WriteStart, Writing
  <2> QED
    BY <2>1, ReportsKept
<1>7. CASE UNCHANGED vars
  BY <1>7, ReportsKept DEF vars
<1> QED
  BY <1>1, <1>2, <1>3, <1>4, <1>5, <1>6, <1>7 DEF Next

\* D1 executes the batch of the running command: CommandLog accepts the command.
LEMMA AcceptRefines ==
  ASSUME RefInv, job.pc = "sent", ExecuteBatch(job.batch), UNCHANGED replies
  PROVE  Log!Accept(job.req)
<1>1. /\ job.batch \in Batch /\ job.batch.req = job.req /\ Fits(job.batch)
      /\ TypeInv /\ LedgerInv
  BY DEF RefInv, LeaseInv, TypeInv, JobHolds, JobReports, LedgerInv, BatchesFit, Pending
<1>2. /\ row' = [state |-> After(job.batch), last |-> job.req.id]
      /\ row # None => row.state = job.batch.base
      /\ receipts[job.req.id] = None
  BY <1>1, ExecuteMeaning
<1>3. row' # None /\ row'.state.seq = job.batch.base.seq + 1
  BY <1>1, <1>2, ExecuteType DEF After, Applied
<1>4. job.batch.base.seq = job.req.expected
  BY <1>1 DEF ExecuteBatch, BatchAllowed, ReceiptAllowed
<1>5. /\ receipts' = [receipts EXCEPT ![job.req.id] =
                        Reply(job.req, "ACCEPTED", job.req.expected + 1)]
      /\ events' = events \cup {[seq |-> job.req.expected + 1, id |-> job.req.id]}
  BY <1>1, <1>4 DEF ExecuteBatch
<1> QED
  BY <1>2, <1>3, <1>4, <1>5 DEF Log!Accept, Reply

\* The answer that is given is a true one.
LEMMA AnswerRefines ==
  ASSUME RefInv, Answer
  PROVE  \E r \in Requests : Log!TellVerdict(r) \/ Log!TellReused(r) \/ Log!TellOvertaken(r)
<1>1. /\ job.req \in Requests /\ (OnRecord \/ IdReused \/ Overtaken)
      /\ job.answer \in Answers /\ TypeOK
  BY DEF Answer, RefInv, LeaseInv, TypeInv, JobHolds, JobReports
<1>2. /\ replies' = replies \cup {job.answer}
      /\ UNCHANGED <<row, events, receipts>>
  BY DEF Answer, d1Vars
<1>3. Log!Tell(job.answer)
  BY <1>2 DEF Log!Tell
<1>4. CASE OnRecord
  BY <1>1, <1>3, <1>4, NoneAssumption DEF OnRecord, Log!TellVerdict
<1>5. CASE IdReused
  BY <1>1, <1>3, <1>5 DEF IdReused, Log!TellReused, Rejection, Reply
<1>6. CASE Overtaken
  <2>1. row.state.seq \in Nat
    BY <1>1, <1>6 DEF Overtaken, TypeOK, StateRows, State
  <2> QED
    BY <1>1, <1>3, <1>6, <2>1, NoneAssumption DEF Overtaken, Log!TellOvertaken, Rejection, Reply
<1> QED
  BY <1>1, <1>4, <1>5, <1>6

LEMMA StepRefines ==
  ASSUME RefInv, [Next]_vars
  PROVE  [Log!Next]_(Log!vars)
<1> USE DEF d1Vars
<1>1. orphans = {} /\ job \in Jobs
  BY DEF RefInv, LeaseInv, TypeInv, TypeOK
<1>2. ASSUME UNCHANGED <<row, events, receipts, replies>>
      PROVE  [Log!Next]_(Log!vars)
  BY <1>2 DEF Log!vars
<1>3. CASE \/ Hydrate \/ CloseMock
           \/ \E r \in Requests : LiveBegin(r)
           \/ \E w \in Writers, r \in Requests : FreezeBegin(w, r)
           \/ \E op \in LegacyOps : LegacyOp(op)
           \/ \E w \in Writers, op \in {"start", "pick", "freeze"} : Acquire(w, op)
           \/ \E w \in Writers : Check(w) \/ WritePick(w) \/ Release(w) \/ WriterCrash(w)
  <2>1. UNCHANGED <<row, events, receipts, replies>>
    BY <1>3 DEF Hydrate, CloseMock, LiveBegin, FreezeBegin, LegacyOp, Acquire, Check,
                WritePick, Writing, Release, WriterCrash
  <2> QED
    BY <1>2, <2>1
<1>4. CASE \/ ReadReceipt \/ (\E code \in Codes : Refuse(code)) \/ Prepare \/ MarkIntent
           \/ Abort \/ CallFails \/ Recheck \/ RecheckState \/ FinishLive \/ FinishFreeze
  <2>1. UNCHANGED <<row, events, receipts, replies>>
    BY <1>4 DEF ReadReceipt, Refuse, Prepare, MarkIntent, Abort, CallFails, Recheck,
                RecheckState, FinishLive, FinishFreeze
  <2> QED
    BY <1>2, <2>1
<1>5. ASSUME NEW r \in Requests, LiveRefusedByLease(r) PROVE Log!Next
  <2>1. Log!TellBusy(r)
    BY <1>5 DEF LiveRefusedByLease, Log!TellBusy, Log!Tell, Rejection, Reply
  <2> QED
    BY <2>1 DEF Log!Next
<1>6. CASE RecordRejection
  <2>1. job.req \in Requests /\ RefusalTrue(job.answer)
    BY <1>6 DEF RecordRejection, RefInv, LeaseInv, TypeInv, JobHolds, JobReports
  <2>2. CASE receipts[job.req.id] = None
    <3>1. PICK code \in Log!Permanent :
            /\ job.answer = Rejection(job.req, code)
            /\ code = "STALE_SEQUENCE" => row = None \/ row.state.seq # job.req.expected
      BY <2>1 DEF RefusalTrue
    <3>2. /\ receipts' = [receipts EXCEPT ![job.req.id] = Rejection(job.req, code)]
          /\ UNCHANGED <<row, events, replies>>
      BY <1>6, <2>2, <3>1 DEF RecordRejection
    <3>3. job.req.expected # None
      BY <2>1, RequestType, NoneAssumption
    <3>4. Log!Refuse(job.req, code)
      BY <2>2, <3>1, <3>2, <3>3 DEF Log!Refuse, Rejection, Reply
    <3> QED
      BY <2>1, <3>4 DEF Log!Next
  <2>3. CASE receipts[job.req.id] # None
    <3>1. UNCHANGED <<row, events, receipts, replies>>
      BY <1>6, <2>3 DEF RecordRejection
    <3> QED
      BY <1>2, <3>1
  <2> QED
    BY <2>2, <2>3
<1>7. CASE Commit \/ CommitUnheard \/ (Crash /\ job.pc = "sent" /\ ExecuteBatch(job.batch))
  <2>1. /\ job.pc = "sent" /\ ExecuteBatch(job.batch) /\ UNCHANGED replies
        /\ job.req \in Requests
    BY <1>7 DEF Commit, CommitUnheard, Crash, RefInv, LeaseInv, TypeInv, JobHolds
  <2>2. Log!Accept(job.req)
    BY <2>1, AcceptRefines
  <2> QED
    BY <2>1, <2>2 DEF Log!Next
<1>8. CASE Crash /\ ~(job.pc = "sent" /\ ExecuteBatch(job.batch))
  <2>1. UNCHANGED <<row, events, receipts, replies>>
    BY <1>8 DEF Crash
  <2> QED
    BY <1>2, <2>1
<1>9. CASE Answer
  BY <1>9, AnswerRefines DEF Log!Next
<1>10. ASSUME NEW w \in Writers, WriteStart(w) PROVE [Log!Next]_(Log!vars)
  <2>1. UNCHANGED <<events, receipts, replies>>
    BY <1>10 DEF WriteStart, Writing
  <2>2. CASE UNCHANGED row
    BY <1>2, <2>1, <2>2
  <2>3. CASE row = None /\ row' = [state |-> Started, last |-> None]
    <3>1. [state |-> Started, last |-> None] \in StateRows
      BY DEF Started, Pristine, State, StateRows
    <3>2. row' # None /\ row'.state.seq = 0
      BY <2>3, <3>1, NoneAssumption DEF Started, Pristine
    <3>3. Log!Open
      BY <2>1, <2>3, <3>2 DEF Log!Open
    <3> QED
      BY <3>3 DEF Log!Next
  <2> QED
    BY <1>10, <2>2, <2>3 DEF WriteStart
<1>11. CASE UNCHANGED vars
  BY <1>2, <1>11 DEF vars
<1> QED
  BY <1>1, <1>3, <1>4, <1>5, <1>6, <1>7, <1>8, <1>9, <1>10, <1>11 DEF Next, JobStep

LEMMA RefAlways ==
  ASSUME ~LateBatches
  PROVE  Spec => []RefInv
<1>1. Init => JobReports
  BY DEF Init, Idle, JobReports
<1>2. LeaseInv /\ LedgerInv /\ JobReports /\ [Next]_vars => JobReports'
  BY ReportsStep DEF RefInv
<1>3. LeaseInv /\ LedgerInv /\ JobReports => RefInv
  BY DEF RefInv
<1> QED
  BY <1>1, <1>2, <1>3, LeaseAlways, LedgerAlways, PTL DEF Spec

\* The service implements the log of CommandLog, through crashes of the DO and of
\* the writers, failed calls and lost answers: one verdict per command id and one
\* command per sequence number, and answers that are true when they are given.
\* That no batch is late is needed: one that commits between the two reads of the
\* catch block makes the answer STALE_SEQUENCE untrue.
THEOREM LogImplemented ==
  ASSUME ~LateBatches
  PROVE  Spec => ImplementsLog
<1>1. Init => Log!Init
  BY DEF Init, Log!Init
<1>2. RefInv /\ [Next]_vars => [Log!Next]_(Log!vars)
  BY StepRefines
<1> QED
  BY <1>1, <1>2, RefAlways, PTL DEF Spec, ImplementsLog, Log!Spec

-----------------------------------------------------------------------------
(***************************************************************************)
(* One request never gets two final answers.  That holds of CommandLog     *)
(* already: every answer stays true, and what makes a STALE_SEQUENCE that  *)
(* no receipt records stay true is that the log never goes back.           *)
(***************************************************************************)
Head == IF row = None THEN None ELSE row.state.seq

StaleForGood(q) ==
  /\ q.code = "STALE_SEQUENCE"
  /\ receipts[q.req.id] = None => Head # None /\ Head > q.req.expected
  /\ receipts[q.req.id] # None =>
       ~(receipts[q.req.id].req = q.req /\ receipts[q.req.id].code = "ACCEPTED")

ReusedForGood(q) ==
  /\ q.code = "COMMAND_ID_REUSED"
  /\ receipts[q.req.id] # None /\ receipts[q.req.id].req # q.req

StaysTrue(q) ==
  \/ q.code = "NORMAL_MUTATION_LEASE_ACTIVE"
  \/ receipts[q.req.id] = q
  \/ ReusedForGood(q)
  \/ StaleForGood(q)

ToldTrue == \A q \in replies : StaysTrue(q)

LEMMA TypesAtHand ==
  ASSUME TypeInv
  PROVE  /\ receipts \in [CommandIds -> Answers \cup {None}]
         /\ replies \subseteq Answers
         /\ Head = None \/ Head \in Nat
         /\ \A q \in Answers : /\ q.req \in Requests /\ q.req.id \in CommandIds
                               /\ q.req.expected \in Nat /\ q # None
  BY RequestType, NoneAssumption DEF TypeInv, TypeOK, StateRows, State, Answers, Head

\* A verdict on an id that had none, by which the log does not go back
LEMMA VerdictKeepsTold ==
  ASSUME TypeInv, ToldTrue, NEW r \in Requests, NEW a \in Answers, receipts[r.id] = None,
         receipts' = [receipts EXCEPT ![r.id] = a], UNCHANGED replies, a.req = r,
         Head' = Head \/ Head' = r.expected + 1,
         a.code = "ACCEPTED" => Head \in {None, r.expected} /\ Head' = r.expected + 1,
         a.code # "ACCEPTED" => Head' = Head
  PROVE  ToldTrue'
<1> SUFFICES ASSUME NEW q \in replies PROVE StaysTrue(q)'
  BY DEF ToldTrue
<1>1. /\ receipts \in [CommandIds -> Answers \cup {None}] /\ q \in Answers
      /\ q.req.id \in CommandIds /\ q.req.expected \in Nat /\ q # None /\ a # None
      /\ r.id \in CommandIds /\ r.expected \in Nat /\ None \notin Nat
      /\ Head = None \/ Head \in Nat
  BY TypesAtHand, RequestType, NoneAssumption
<1>2. StaysTrue(q)
  BY DEF ToldTrue
<1>3. CASE q.req.id # r.id
  <2>1. receipts'[q.req.id] = receipts[q.req.id]
    BY <1>1, <1>3
  <2>2. Head # None /\ Head > q.req.expected => Head' # None /\ Head' > q.req.expected
    BY <1>1
  <2> QED
    BY <1>2, <2>1, <2>2 DEF StaysTrue, ReusedForGood, StaleForGood
<1>4. CASE q.req.id = r.id
  <2>1. receipts[q.req.id] = None /\ receipts'[q.req.id] = a
    BY <1>1, <1>4
  <2>2. CASE StaleForGood(q)
    <3>1. Head # None /\ Head > q.req.expected
      BY <2>1, <2>2 DEF StaleForGood
    <3>2. a.req = q.req => a.code # "ACCEPTED"
      BY <1>1, <3>1
    <3> QED
      BY <1>1, <2>1, <2>2, <3>2 DEF StaysTrue, StaleForGood
  <2> QED
    BY <1>1, <1>2, <2>1, <2>2 DEF StaysTrue, ReusedForGood
<1> QED
  BY <1>3, <1>4

LEMMA ToldStep ==
  ASSUME TypeInv, TypeInv', ToldTrue, [Log!Next]_(Log!vars)
  PROVE  ToldTrue'
<1>1. /\ receipts \in [CommandIds -> Answers \cup {None}] /\ replies \subseteq Answers
      /\ None \notin Nat
  BY TypesAtHand, NoneAssumption
<1>2. ASSUME NEW r \in Requests, Log!Accept(r) PROVE ToldTrue'
  <2> DEFINE a == [req |-> r, code |-> "ACCEPTED", seq |-> r.expected + 1]
  <2>1. a \in Answers /\ a.req = r /\ a.code = "ACCEPTED"
    BY RequestType DEF Answers, Codes
  <2>2. /\ receipts[r.id] = None /\ Head \in {None, r.expected} /\ Head' = r.expected + 1
        /\ receipts' = [receipts EXCEPT ![r.id] = a] /\ UNCHANGED replies
    BY <1>2 DEF Log!Accept, Head
  <2> HIDE DEF a
  <2> QED
    BY <2>1, <2>2, VerdictKeepsTold
<1>3. ASSUME NEW r \in Requests, NEW code \in Log!Permanent, Log!Refuse(r, code)
      PROVE  ToldTrue'
  <2> DEFINE a == [req |-> r, code |-> code, seq |-> 0]
  <2>1. a \in Answers /\ a.req = r /\ a.code # "ACCEPTED"
    BY DEF Answers, Codes, Log!Permanent
  <2>2. /\ receipts[r.id] = None /\ Head' = Head
        /\ receipts' = [receipts EXCEPT ![r.id] = a] /\ UNCHANGED replies
    BY <1>3 DEF Log!Refuse, Head
  <2> HIDE DEF a
  <2> QED
    BY <2>1, <2>2, VerdictKeepsTold
<1>4. ASSUME NEW a, a \in Answers, Log!Tell(a), StaysTrue(a) PROVE ToldTrue'
  <2>1. replies' = replies \cup {a} /\ Head' = Head /\ UNCHANGED receipts
    BY <1>4 DEF Log!Tell, Head
  <2> QED
    BY <1>4, <2>1 DEF ToldTrue, StaysTrue, ReusedForGood, StaleForGood
<1>5. ASSUME NEW r \in Requests,
             Log!TellVerdict(r) \/ Log!TellReused(r) \/ Log!TellOvertaken(r) \/ Log!TellBusy(r)
      PROVE  ToldTrue'
  <2>1. r.id \in CommandIds
    BY RequestType
  <2>2. CASE Log!TellVerdict(r)
    BY <1>1, <1>4, <2>1, <2>2 DEF Log!TellVerdict, StaysTrue
  <2>3. CASE Log!TellReused(r)
    <3> DEFINE a == [req |-> r, code |-> "COMMAND_ID_REUSED", seq |-> 0]
    <3>1. a \in Answers /\ Log!Tell(a) /\ StaysTrue(a)
      BY <2>3 DEF Log!TellReused, StaysTrue, ReusedForGood, Answers, Codes
    <3> QED
      BY <1>4, <3>1
  <2>4. CASE Log!TellOvertaken(r)
    <3> DEFINE a == [req |-> r, code |-> "STALE_SEQUENCE", seq |-> 0]
    <3>1. a \in Answers /\ Log!Tell(a) /\ StaysTrue(a)
      BY <2>4 DEF Log!TellOvertaken, StaysTrue, StaleForGood, Answers, Codes, Head
    <3> QED
      BY <1>4, <3>1
  <2>5. CASE Log!TellBusy(r)
    <3> DEFINE a == [req |-> r, code |-> "NORMAL_MUTATION_LEASE_ACTIVE", seq |-> 0]
    <3>1. a \in Answers /\ Log!Tell(a) /\ StaysTrue(a)
      BY <2>5 DEF Log!TellBusy, StaysTrue, Answers, Codes
    <3> QED
      BY <1>4, <3>1
  <2> QED
    BY <1>5, <2>2, <2>3, <2>4, <2>5
<1>6. CASE Log!Open
  <2>1. Head = None /\ UNCHANGED <<receipts, replies>>
    BY <1>6 DEF Log!Open, Head
  <2> QED
    BY <2>1 DEF ToldTrue, StaysTrue, ReusedForGood, StaleForGood
<1>7. CASE UNCHANGED Log!vars
  <2>1. Head' = Head /\ UNCHANGED <<receipts, replies>>
    BY <1>7 DEF Log!vars, Head
  <2> QED
    BY <2>1 DEF ToldTrue, StaysTrue, ReusedForGood, StaleForGood
<1> QED
  BY <1>2, <1>3, <1>5, <1>6, <1>7 DEF Log!Next

\* Whoever was told that a request is accepted is never told otherwise, and the
\* other way round: for any number of retries, crashes and lost answers, as long
\* as no batch is executed when nobody waits for it.
THEOREM AnswersFinal ==
  ASSUME ~LateBatches
  PROVE  Spec => []ReplyFinality
<1>1. Init => ToldTrue
  BY DEF Init, ToldTrue
<1>2. RefInv /\ RefInv' /\ ToldTrue /\ [Next]_vars => ToldTrue'
  BY StepRefines, ToldStep DEF RefInv, LedgerInv
<1>3. RefInv /\ ToldTrue => ReplyFinality
  <2> SUFFICES ASSUME RefInv, ToldTrue, NEW p \in replies, NEW q \in replies,
                      p.req = q.req, p.code = "ACCEPTED",
                      q.code # "NORMAL_MUTATION_LEASE_ACTIVE"
               PROVE  q = p
    BY DEF ReplyFinality
  <2>1. p \in Answers /\ p # None
    BY TypesAtHand DEF RefInv, LedgerInv
  <2>2. receipts[p.req.id] = p
    BY DEF ToldTrue, StaysTrue, ReusedForGood, StaleForGood
  <2> QED
    BY <2>1, <2>2 DEF ToldTrue, StaysTrue, ReusedForGood, StaleForGood
<1> QED
  BY <1>1, <1>2, <1>3, RefAlways, PTL DEF Spec

-----------------------------------------------------------------------------
(***************************************************************************)
(* What the DO shows.  The state a command is about to project was read    *)
(* from D1, or written there, while no other answer could be given, so it  *)
(* holds every acknowledged command; a projection that is not replaced     *)
(* held them before.  Late batches do no harm here.                        *)
(***************************************************************************)
Shows(s, a) == <<a.seq, a.req.id>> \in s.log

ShowsAcked(s) == \A p \in replies : p.code = "ACCEPTED" => Shows(s, p)

JobShows ==
  /\ job.pc = "finish" /\ job.state # None => ShowsAcked(job.state)
  /\ job.pc = "finish" /\ job.answer.code = "ACCEPTED" =>
       job.state # None /\ Shows(job.state, job.answer)
  /\ job.pc = "answer" /\ job.answer.code = "ACCEPTED" => Shows(local, job.answer)

RecordInv == LedgerInv /\ AnswerInv

ShownInv == ShowsAcked(local) /\ JobShows

LEMMA RecordAlways == Spec => []RecordInv
<1>1. Init => AnswerInv
  BY InitType DEF Init, AnswerInv, JobAnswers, AnswersOnRecord, Idle
<1>2. LedgerInv /\ AnswerInv => RecordInv
  BY DEF RecordInv
<1> QED
  BY <1>1, <1>2, AnswerStep, LedgerAlways, PTL DEF Spec

\* An acceptance on record is in the state row.
LEMMA RowShows ==
  ASSUME RecordInv, NEW a \in Answers, a.code = "ACCEPTED", receipts[a.req.id] = a
  PROVE  row # None /\ Shows(row.state, a)
<1>1. a # None /\ a.req.id \in CommandIds
  BY RequestType, NoneAssumption DEF Answers
<1>2. [seq |-> a.seq, id |-> a.req.id] \in events
  BY <1>1 DEF RecordInv, LedgerInv, Ledger, BundleAtomic, Accepted
<1> QED
  BY <1>2 DEF RecordInv, LedgerInv, Ledger, NoLostUpdate, Shows

LEMMA RowShowsAcked ==
  ASSUME RecordInv
  PROVE  row # None => ShowsAcked(row.state)
<1> SUFFICES ASSUME row # None, NEW p \in replies, p.code = "ACCEPTED"
             PROVE  Shows(row.state, p)
  BY DEF ShowsAcked
<1>1. p \in Answers /\ receipts[p.req.id] = p
  BY DEF RecordInv, AnswerInv, AnswersOnRecord, TypeInv, TypeOK
<1> QED
  BY <1>1, RowShows

LEMMA HydratedShows ==
  ASSUME RecordInv, ShownInv
  PROVE  ShowsAcked(Hydrated)
  BY RowShowsAcked DEF ShownInv, Hydrated

\* An earlier receipt that is replayed comes with the state it is part of.
LEMMA PriorShows ==
  ASSUME RecordInv, job.req \in Requests, receipts[job.req.id] # None,
         PriorOutcome(job.req), UNCHANGED replies
  PROVE  JobShows'
<1>1. /\ job.req.id \in CommandIds /\ job \in Jobs /\ TypeInv
      /\ receipts[job.req.id] \in Answers
  BY RequestType DEF RecordInv, LedgerInv, TypeInv, TypeOK
<1>2. job'.pc = "finish"
  BY <1>1, PriorOutcomeType
<1>3. CASE receipts[job.req.id].req = job.req /\ receipts[job.req.id].code = "ACCEPTED"
  <2>1. job'.answer = receipts[job.req.id] /\ job'.state = row.state
    BY <1>1, <1>3 DEF PriorOutcome, Outcome, Jobs
  <2>2. row # None /\ Shows(row.state, receipts[job.req.id])
    BY <1>1, <1>3, RowShows
  <2>3. row.state \in State /\ ShowsAcked(row.state)
    BY <1>1, <2>2, RowShowsAcked DEF TypeInv, TypeOK, StateRows
  <2> QED
    BY <1>2, <2>1, <2>2, <2>3, NoneAssumption DEF JobShows, ShowsAcked, Shows
<1>4. CASE ~(receipts[job.req.id].req = job.req /\ receipts[job.req.id].code = "ACCEPTED")
  <2>1. CASE receipts[job.req.id].req = job.req
    <3>1. job'.state = None /\ job'.answer = receipts[job.req.id]
      BY <1>1, <1>4, <2>1 DEF PriorOutcome, Outcome, Jobs
    <3> QED
      BY <1>2, <1>4, <2>1, <3>1 DEF JobShows
  <2>2. CASE receipts[job.req.id].req # job.req
    <3>1. job'.state = None /\ job'.answer = Rejection(job.req, "COMMAND_ID_REUSED")
      BY <1>1, <2>2 DEF PriorOutcome, Outcome, Jobs
    <3> QED
      BY <1>2, <3>1 DEF JobShows, Rejection, Reply
  <2> QED
    BY <2>1, <2>2
<1> QED
  BY <1>3, <1>4

\* Steps that leave the projection and the answers alone
LEMMA ShownElsewhere ==
  ASSUME ShownInv, UNCHANGED <<local, replies>>, job'.pc \notin {"finish", "answer"}
  PROVE  ShownInv'
  BY DEF ShownInv, ShowsAcked, Shows, JobShows

LEMMA ShownJobStep ==
  ASSUME RecordInv, ShownInv, JobStep
  PROVE  ShownInv'
<1> USE DEF d1Vars, JobPhases
<1>1. job \in Jobs /\ TypeInv /\ Idle.pc = "idle"
  BY IdleType DEF RecordInv, LedgerInv, TypeInv, TypeOK
<1>2. CASE ReadReceipt \/ Recheck
  <2>1. UNCHANGED <<local, replies>> /\ job.req \in Requests
    BY <1>1, <1>2 DEF ReadReceipt, Recheck, TypeInv, JobHolds
  <2>2. CASE receipts[job.req.id] # None
    <3>1. JobShows'
      BY <1>2, <2>1, <2>2, PriorShows DEF ReadReceipt, Recheck
    <3> QED
      BY <2>1, <3>1 DEF ShownInv, ShowsAcked, Shows
  <2>3. CASE receipts[job.req.id] = None
    <3>1. job'.pc \in {"state", "recheckState"}
      BY <1>1, <1>2, <2>3, GotoType DEF ReadReceipt, Recheck
    <3> QED
      BY <2>1, <3>1, ShownElsewhere
  <2> QED
    BY <2>2, <2>3
<1>3. CASE (\E code \in Codes : Refuse(code)) \/ Prepare \/ MarkIntent \/ CommitUnheard
           \/ Abort \/ CallFails
  <2>1. UNCHANGED <<local, replies>> /\ job'.pc \in {"reject", "mark", "sent", "recheck"}
    BY <1>1, <1>3 DEF Refuse, Prepare, MarkIntent, CommitUnheard, Abort, CallFails, Goto, Jobs
  <2> QED
    BY <2>1, ShownElsewhere
<1>4. CASE RecordRejection \/ RecheckState
  <2>1. UNCHANGED <<local, replies>>
    BY <1>4 DEF RecordRejection, RecheckState
  <2>2. job.pc = "reject" => job.answer \in Answers /\ job.answer.code # "ACCEPTED"
    BY <1>1 DEF TypeInv, JobHolds
  <2>3. Rejection(job.req, "STALE_SEQUENCE").code # "ACCEPTED"
    BY DEF Rejection, Reply
  <2>4. \/ job' = Idle
        \/ Outcome(Rejection(job.req, "STALE_SEQUENCE"), None)
        \/ job.pc = "reject" /\ Outcome(job.answer, None)
    BY <1>4 DEF RecordRejection, RecheckState, Throw
  <2>5. \/ job'.pc = "idle"
        \/ job'.pc = "finish" /\ job'.state = None /\ job'.answer.code # "ACCEPTED"
    BY <1>1, <2>2, <2>3, <2>4 DEF Outcome, Jobs
  <2> QED
    BY <2>1, <2>5 DEF ShownInv, ShowsAcked, Shows, JobShows
<1>5. CASE Commit
  <2>1. /\ job.batch \in Batch /\ job.batch.req = job.req /\ Fits(job.batch) /\ LedgerInv
    BY <1>5 DEF Commit, RecordInv, LedgerInv, AnswerInv, JobAnswers, TypeInv, JobHolds,
                BatchesFit, Pending
  <2>2. UNCHANGED <<local, replies>> /\ (row # None => row.state = job.batch.base)
    BY <1>5, <2>1, ExecuteMeaning DEF Commit
  <2>3. ASSUME NEW p \in replies, p.code = "ACCEPTED" PROVE Shows(After(job.batch), p)
    <3>1. p \in Answers /\ receipts[p.req.id] = p
      BY <2>3 DEF RecordInv, AnswerInv, AnswersOnRecord, TypeInv, TypeOK
    <3>2. Shows(job.batch.base, p)
      BY <2>2, <2>3, <3>1, RowShows
    <3> QED
      BY <3>2 DEF Shows, After, Applied
  <2>5. /\ job'.pc = "finish" /\ job'.state = After(job.batch)
        /\ job'.answer = Reply(job.req, "ACCEPTED", job.batch.base.seq + 1)
    BY <1>1, <1>5 DEF Commit, Outcome, Jobs
  <2>6. Shows(After(job.batch), Reply(job.req, "ACCEPTED", job.batch.base.seq + 1))
    BY <2>1 DEF Shows, After, Applied, Reply
  <2>7. After(job.batch) # None
    BY <2>1, AfterType, NoneAssumption
  <2> QED
    BY <2>2, <2>3, <2>5, <2>6, <2>7
       DEF ShownInv, ShowsAcked, Shows, JobShows
<1>6. CASE FinishLive
  <2>1. /\ job.pc = "finish" /\ job'.pc = "answer" /\ job'.answer = job.answer
        /\ local' = (IF job.state # None THEN job.state ELSE local) /\ UNCHANGED replies
    BY <1>1, <1>6, GotoType DEF FinishLive
  <2> QED
    BY <2>1 DEF ShownInv, ShowsAcked, Shows, JobShows
<1>7. CASE FinishFreeze
  <2>1. /\ job.pc = "finish" /\ job'.pc = "answer" /\ job'.answer = job.answer
        /\ UNCHANGED replies
    BY <1>1, <1>7, GotoType DEF FinishFreeze
  <2>2. \/ job.state # None /\ local' = job.state
        \/ job.state = None /\ row # None /\ local' = row.state
        \/ job.state = None /\ local' = local
    BY <1>7 DEF FinishFreeze
  <2>3. ShowsAcked(local')
    BY <2>1, <2>2, RowShowsAcked DEF ShownInv, JobShows
  <2>4. job.answer.code = "ACCEPTED" => Shows(local', job.answer)
    BY <2>1, <2>2 DEF ShownInv, JobShows
  <2> QED
    BY <2>1, <2>3, <2>4 DEF ShownInv, ShowsAcked, Shows, JobShows
<1>8. CASE Answer
  <2>1. /\ job.pc = "answer" /\ job' = Idle /\ UNCHANGED local
        /\ replies' = replies \cup {job.answer}
    BY <1>8 DEF Answer, Throw
  <2> QED
    BY <1>1, <2>1 DEF ShownInv, ShowsAcked, Shows, JobShows
<1> QED
  BY <1>2, <1>3, <1>4, <1>5, <1>6, <1>7, <1>8 DEF JobStep

LEMMA ShownStep ==
  ASSUME RecordInv, ShownInv, [Next]_vars
  PROVE  ShownInv'
<1>1. Idle.pc = "idle"
  BY IdleType
<1>2. CASE JobStep
  BY <1>2, ShownJobStep
<1>3. CASE \/ Hydrate
           \/ \E r \in Requests : LiveRefusedByLease(r) \/ LiveBegin(r)
           \/ \E w \in Writers, r \in Requests : FreezeBegin(w, r)
           \/ \E op \in LegacyOps : LegacyOp(op)
  <2>1. job'.pc \in {"idle", "receipt"}
    BY <1>3, WorkingType DEF Hydrate, LiveRefusedByLease, LiveBegin, FreezeBegin, LegacyOp
  <2>2. \A p \in replies' \ replies : p.code # "ACCEPTED"
    BY <1>3 DEF Hydrate, LiveRefusedByLease, LiveBegin, FreezeBegin, LegacyOp, Rejection, Reply
  <2>3. Hydrated.log \subseteq local'.log
    BY <1>3 DEF Hydrate, LiveRefusedByLease, LiveBegin, FreezeBegin, LegacyOp, Applied
  <2> QED
    BY <2>1, <2>2, <2>3, HydratedShows DEF ShownInv, ShowsAcked, Shows, JobShows
<1>4. CASE Crash
  BY <1>1, <1>4, ShownElsewhere DEF Crash, Throw
<1>5. CASE UNCHANGED <<local, replies, job>>
  BY <1>5 DEF ShownInv, ShowsAcked, Shows, JobShows
<1>6. \/ JobStep \/ Crash \/ UNCHANGED <<local, replies, job>>
      \/ Hydrate
      \/ \E r \in Requests : LiveRefusedByLease(r) \/ LiveBegin(r)
      \/ \E w \in Writers, r \in Requests : FreezeBegin(w, r)
      \/ \E op \in LegacyOps : LegacyOp(op)
  BY DEF Next, vars, LateBatch, Acquire, Check, WriteStart, WritePick, Writing, Release,
         WriterCrash, CloseMock
<1> QED
  BY <1>2, <1>3, <1>4, <1>5, <1>6

\* What a client was told is accepted is in the state the DO shows from then on,
\* whatever crashes, fails or comes late, with a stored pin or without.
THEOREM AckedStaysVisible == Spec => []AckedVisible
<1>1. Init => ShownInv
  BY DEF Init, Idle, ShownInv, ShowsAcked, JobShows
<1>2. RecordInv /\ ShownInv /\ [Next]_vars => ShownInv'
  BY ShownStep
<1>3. ShownInv => AckedVisible
  BY DEF ShownInv, ShowsAcked, Shows, AckedVisible
<1> QED
  BY <1>1, <1>2, <1>3, RecordAlways, PTL DEF Spec

\* No accepted command is overwritten, not even by a batch that was built on an
\* older read or that comes late.
THEOREM NothingOverwritten == Spec => []NoLostUpdate
<1>1. LedgerInv => NoLostUpdate
  BY DEF LedgerInv, Ledger
<1> QED
  BY <1>1, LedgerAlways, PTL

-----------------------------------------------------------------------------
(***************************************************************************)
(* How the DO knows that it must reread D1.  Under a published definition  *)
(* the first call stores the pin.  Without one only freezes are canonical, *)
(* and each leaves its intent marker before its batch is sent; the marker  *)
(* is taken away when D1 shows no row, so a batch that was given up must   *)
(* not come late.                                                          *)
(***************************************************************************)
HasCommand == row # None /\ row.last # None

PinKnown == job.pc # "idle" \/ orphans # {} \/ HasCommand => pin

MarkerKnown ==
  /\ orphans = {}
  /\ job.pc # "idle" => job.req.kind = "freeze"
  /\ job.pc = "sent" \/ HasCommand => marker # "none"

LEMMA OnlyBatchesCommand ==
  ASSUME TypeInv, [Next]_vars, ~HasCommand, HasCommand'
  PROVE  Pending # {}
<1>1. CASE Executes
  BY <1>1 DEF Executes
<1>2. CASE Starts
  <2>1. row'.last = None
    BY <1>2 DEF Starts
  <2> QED
    BY <2>1 DEF HasCommand
<1>3. CASE Quiet \/ Rejects \/ Prepares
  BY <1>3 DEF Quiet, Rejects, Prepares, HasCommand
<1> QED
  BY <1>1, <1>2, <1>3, StepKind

LEMMA PinStep ==
  ASSUME HasPin, TypeInv, PinKnown, [Next]_vars
  PROVE  PinKnown'
<1> USE DEF d1Vars
<1>1. Idle.pc = "idle"
  BY IdleType
<1>2. pin => pin'
  BY DEF Next, vars, Hydrate, LiveRefusedByLease, LiveBegin, FreezeBegin, LateBatch, Crash,
         LegacyOp, Acquire, Check, WriteStart, WritePick, Writing, Release, WriterCrash,
         CloseMock, JobStep, ReadReceipt, Refuse, RecordRejection, Prepare, MarkIntent,
         Commit, CommitUnheard, Abort, CallFails, Recheck, RecheckState, FinishLive,
         FinishFreeze, Answer
<1>3. CASE pin
  BY <1>2, <1>3 DEF PinKnown
<1>4. CASE ~pin
  <2>1. job.pc = "idle" /\ orphans = {} /\ ~HasCommand
    BY <1>4 DEF PinKnown
  <2>2. Pending = {}
    BY <2>1 DEF Pending
  <2>3. ~HasCommand'
    BY <2>1, <2>2, OnlyBatchesCommand
  <2>4. (job' = job /\ orphans' = {}) \/ pin'
    BY <2>1 DEF Next, vars, Hydrate, LiveRefusedByLease, LiveBegin, FreezeBegin, LateBatch,
         Crash, LegacyOp, Acquire, Check, WriteStart, WritePick, Writing, Release, WriterCrash,
         CloseMock, JobStep, ReadReceipt, Refuse, RecordRejection, Prepare, MarkIntent,
         Commit, CommitUnheard, Abort, CallFails, Recheck, RecheckState, FinishLive,
         FinishFreeze, Answer
  <2> QED
    BY <2>1, <2>3, <2>4 DEF PinKnown
<1> QED
  BY <1>3, <1>4

LEMMA MarkerStep ==
  ASSUME ~Staged, ~LateBatches, TypeInv, MarkerKnown, [Next]_vars
  PROVE  MarkerKnown'
<1> USE DEF d1Vars, JobPhases
<1>1. job \in Jobs /\ orphans = {} /\ Idle.pc = "idle"
  BY IdleType DEF MarkerKnown, TypeInv, TypeOK
<1>2. CASE ReadReceipt \/ Recheck
  <2>1. UNCHANGED <<marker, orphans, row>> /\ job.req \in Requests
    BY <1>1, <1>2 DEF ReadReceipt, Recheck, TypeInv, JobHolds
  <2>2. job'.pc # "sent" /\ job'.req = job.req /\ job.pc # "idle"
    <3>1. CASE receipts[job.req.id] # None
      BY <1>2, <2>1, <3>1, PriorOutcomeType DEF ReadReceipt, Recheck
    <3>2. CASE receipts[job.req.id] = None
      BY <1>1, <1>2, <3>2, GotoType DEF ReadReceipt, Recheck
    <3> QED
      BY <3>1, <3>2
  <2> QED
    BY <2>1, <2>2 DEF MarkerKnown, HasCommand
<1>3. CASE \/ (\E code \in Codes : Refuse(code)) \/ RecordRejection \/ Prepare \/ Abort
           \/ CallFails \/ RecheckState \/ Answer
  <2>1. UNCHANGED <<marker, orphans, row>>
    BY <1>1, <1>3 DEF Refuse, RecordRejection, Prepare, Abort, CallFails, RecheckState, Answer
  <2>2. \/ job' = Idle
        \/ job'.pc # "sent" /\ job'.req = job.req /\ job.pc # "idle"
        \/ Prepare
    BY <1>1, <1>3 DEF Refuse, RecordRejection, Abort, CallFails, RecheckState, Answer, Throw,
                      Goto, Outcome, Jobs
  <2>3. Prepare => job'.pc # "sent" /\ job'.req = job.req /\ job.pc # "idle"
    BY <1>1 DEF Prepare, MarkerKnown, Jobs
  <2> QED
    BY <1>1, <2>1, <2>2, <2>3 DEF MarkerKnown, HasCommand
<1>4. CASE MarkIntent
  <2>1. marker' = "pending" /\ UNCHANGED orphans /\ job.pc = "mark" /\ job'.req = job.req
    BY <1>1, <1>4, GotoType DEF MarkIntent
  <2> QED
    BY <2>1 DEF MarkerKnown
<1>5. CASE Commit \/ CommitUnheard
  <2>1. UNCHANGED <<marker, orphans>> /\ job.pc = "sent" /\ job'.req = job.req
    BY <1>1, <1>5 DEF Commit, CommitUnheard, Goto, Outcome, Jobs
  <2> QED
    BY <2>1 DEF MarkerKnown
<1>6. CASE FinishLive \/ FinishFreeze
  <2>1. FinishFreeze
    BY <1>6 DEF FinishLive, MarkerKnown
  <2>2. /\ UNCHANGED <<orphans, row>> /\ job.pc = "finish"
        /\ job'.pc = "answer" /\ job'.req = job.req
    BY <1>1, <2>1, GotoType DEF FinishFreeze
  <2>3. row # None => marker' # "none"
    <3>1. job.state = None /\ row # None => row.state # None
      BY NoneAssumption DEF TypeInv, TypeOK, StateRows
    <3> QED
      BY <2>1, <3>1 DEF FinishFreeze
  <2> QED
    BY <2>2, <2>3 DEF MarkerKnown, HasCommand
<1>7. CASE Crash
  <2>1. UNCHANGED <<marker, orphans>> /\ job' = Idle
    BY <1>7 DEF Crash, Throw
  <2>2. HasCommand' => HasCommand \/ job.pc = "sent"
    BY <1>7 DEF Crash, HasCommand
  <2> QED
    BY <1>1, <2>1, <2>2 DEF MarkerKnown
<1>8. ASSUME NEW r \in Requests,
             \/ LiveRefusedByLease(r) \/ LiveBegin(r)
             \/ \E w \in Writers : FreezeBegin(w, r)
      PROVE  MarkerKnown'
  <2>1. PICK w \in Writers : FreezeBegin(w, r)
    BY <1>8 DEF LiveRefusedByLease, LiveBegin
  <2>2. job'.pc = "receipt" /\ job'.req.kind = "freeze"
    BY <2>1, WorkingType DEF FreezeBegin
  <2> QED
    BY <2>1, <2>2 DEF FreezeBegin, MarkerKnown, HasCommand
<1>9. CASE UNCHANGED <<marker, job, orphans>> /\ (HasCommand' => HasCommand)
  BY <1>9 DEF MarkerKnown
<1>10. ASSUME NEW w \in Writers, WriteStart(w)
       PROVE  UNCHANGED <<marker, job, orphans>> /\ (HasCommand' => HasCommand)
  <2>1. UNCHANGED row \/ row' = [state |-> Started, last |-> None]
    BY <1>10 DEF WriteStart
  <2> QED
    BY <1>10, <2>1 DEF WriteStart, Writing, HasCommand
<1>11. \/ JobStep \/ Crash
       \/ UNCHANGED <<marker, job, orphans>> /\ (HasCommand' => HasCommand)
       \/ \E r \in Requests : LiveRefusedByLease(r) \/ LiveBegin(r)
       \/ \E w \in Writers, r \in Requests : FreezeBegin(w, r)
  BY <1>1, <1>10 DEF Next, vars, Hydrate, LegacyOp, Acquire, Check, WritePick, Writing,
              Release, WriterCrash, CloseMock, HasCommand
<1> QED
  BY <1>2, <1>3, <1>4, <1>5, <1>6, <1>7, <1>8, <1>9, <1>11 DEF JobStep

\* Once a command is committed the DO knows that it must reread D1, whenever it
\* dies: under a published definition always, and without one as long as only
\* freezes are canonical (no stages) and no batch comes late.
THEOREM RebuildableAlways ==
  ASSUME HasPin \/ ~(Staged \/ LateBatches)
  PROVE  Spec => []Rebuildable
<1>1. Init => TypeInv /\ PinKnown /\ MarkerKnown
  BY InitType DEF Init, Idle, PinKnown, MarkerKnown, HasCommand
<1>2. CASE HasPin
  <2>1. TypeInv /\ PinKnown /\ [Next]_vars => TypeInv' /\ PinKnown'
    BY <1>2, StepType, PinStep
  <2>2. PinKnown => Rebuildable
    BY DEF PinKnown, HasCommand, Rebuildable
  <2> QED
    BY <1>1, <2>1, <2>2, PTL DEF Spec
<1>3. CASE ~(Staged \/ LateBatches)
  <2>1. TypeInv /\ MarkerKnown /\ [Next]_vars => TypeInv' /\ MarkerKnown'
    BY <1>3, StepType, MarkerStep
  <2>2. MarkerKnown => Rebuildable
    BY DEF MarkerKnown, HasCommand, Rebuildable
  <2> QED
    BY <1>1, <2>1, <2>2, PTL DEF Spec
<1> QED
  BY <1>2, <1>3

=============================================================================
