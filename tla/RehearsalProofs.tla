-------------------------- MODULE RehearsalProofs --------------------------
(***************************************************************************)
(* Theorems about Rehearsal, for every bid order, set of rules, set of     *)
(* requests, number of Workers and bound: with canonical state the tables  *)
(* are sealed, what is finished stays as it is, what clients were told is  *)
(* and stays true, one reviewed revision carries one command, and its      *)
(* records are there together.                                             *)
(***************************************************************************)
EXTENDS Rehearsal, WellFoundedInduction, TLAPS

RequestPcs == {"inspect", "check", "recover", "plan", "sent", "verify", "recheck"}
LookedPcs  == {"check", "recover", "plan", "sent", "verify", "recheck"}

-----------------------------------------------------------------------------
(* The inductive invariant.                                                 *)

WorkerShapes ==
  /\ workers = [w \in Workers |-> workers[w]]
  /\ \A w \in Workers :
       workers[w] = [pc |-> workers[w].pc, req |-> workers[w].req, kind |-> workers[w].kind,
                     seen |-> workers[w].seen, batch |-> workers[w].batch,
                     answer |-> workers[w].answer]

TableShapes ==
  /\ order \in BOOLEAN
  /\ session = [phase |-> session.phase, bidder |-> session.bidder,
                revision |-> session.revision]
  /\ session.revision \in Nat
  /\ receipts = [k \in Keys |-> receipts[k]]
  /\ recoveries = [k \in Keys |-> recoveries[k]]

Shapes == TableShapes /\ WorkerShapes

\* A receipt that is done belongs to a command of an earlier revision.
ReceiptOK(k) ==
  /\ receipts[k].req \in Requests \cup {None}
  /\ receipts[k].req = None => receipts[k] = NoReceipt
  /\ receipts[k].req # None => receipts[k].req.key = k
  /\ receipts[k].done \in BOOLEAN
  /\ receipts[k].done =>
       /\ receipts[k].req # None
       /\ receipts[k].answer.req = receipts[k].req
       /\ receipts[k].answer.code \in {"applied", "recovered"}
       /\ receipts[k].req.expected < session.revision

RecoveryOK(k) ==
  recoveries[k] # None =>
    /\ recoveries[k].req \in Requests /\ recoveries[k].req.key = k
    /\ recoveries[k].code = "rehearsal_command_recovery_required"
    /\ receipts[k] # NoReceipt

BatchOK(b) ==
  /\ b.req \in Requests
  /\ b.answer = Answer(b.req, "applied", b.bids)

\* An answer meant to be final, on record for a request of this session.
Sound(a) ==
  /\ a.req \in Requests /\ Backed(a)
  /\ a.code = "rehearsal_command_recovery_required" => a # None

\* What the holder of the lease has looked at still stands, unless D1 has
\* executed a batch in between.
WorkerOK(w) ==
  LET k == workers[w]
  IN /\ k.pc # "idle" => lease = w
     /\ k.pc \in RequestPcs => k.req \in Requests
     /\ k.pc \in LookedPcs => recoveries[k.req.key] = None
     /\ k.pc \in {"check", "plan", "sent"} =>
          /\ k.kind \in {"new", "pending"}
          /\ ~late => Inspected(k.req) = k.kind
     /\ k.pc \in {"plan", "sent"} /\ ~late => session.revision = k.req.expected
     /\ k.pc = "sent" => k.batch.reserve = (k.kind = "new")
     /\ k.pc \in {"sent", "verify"} => BatchOK(k.batch) /\ k.batch.req = k.req
     /\ k.pc = "verify" /\ ~late => receipts[k.req.key] = Completed(k.req, k.batch.answer)
     /\ k.pc = "release" /\ k.answer.code \in Final => Sound(k.answer)

Records == \A k \in Keys : ReceiptOK(k) /\ RecoveryOK(k)
Handlers == \A w \in Workers : WorkerOK(w)
InFlights == \A b \in flights : BatchOK(b)
Told == \A a \in answers : Sound(a)

IInv == Shapes /\ Records /\ Handlers /\ InFlights /\ Told /\ AppliedOnce

-----------------------------------------------------------------------------
(* Requests, and what stays true of a record.                               *)

LEMMA RequestTypes ==
  ASSUME NEW r \in Requests
  PROVE  r.key \in Keys /\ r.expected \in Nat /\ r # None
  BY RehearsalAssumption DEF RehearsalAssumption, RequestShape

\* A completed receipt and a recorded recovery stay as they are.
Monotone ==
  /\ \A k \in Keys : receipts[k].done => receipts'[k] = receipts[k]
  /\ \A k \in Keys : recoveries[k] # None => recoveries'[k] = recoveries[k]
  /\ late => late'

LEMMA SoundStays ==
  ASSUME Monotone, NEW a, Sound(a)
  PROVE  /\ a.req \in Requests
         /\ a.code \in {"applied", "recovered"} =>
              /\ receipts'[a.req.key].done /\ receipts'[a.req.key].req = a.req
              /\ late' \/ receipts'[a.req.key].answer = a
         /\ a.code = "rehearsal_command_recovery_required" =>
              recoveries'[a.req.key] = a /\ a # None
  BY RequestTypes DEF Monotone, Sound, Backed

LEMMA ToldStays ==
  ASSUME Monotone, Told, UNCHANGED answers
  PROVE  Told'
  BY SoundStays DEF Told, Sound, Backed

\* What the execution of a batch does to the receipts.
LEMMA ExecutedReceipts ==
  ASSUME Shapes, Records, NEW b, BatchOK(b), Execute(b)
  PROVE  /\ b.req.key \in Keys
         /\ \A k \in Keys \ {b.req.key} : receipts'[k] = receipts[k]
         /\ receipts'[b.req.key] = IF Completes(b) THEN Completed(b.req, b.answer)
                                   ELSE receipts[b.req.key]
         /\ Completes(b) => ~receipts[b.req.key].done
         /\ Completes(b) => session'.revision = b.req.expected + 1
         /\ session'.revision = RevisionAfter(b)
         /\ session'.revision \in Nat /\ session'.revision >= session.revision
         /\ UNCHANGED recoveries
  <1>1. b.req.key \in Keys /\ b.req.expected \in Nat
    BY RequestTypes DEF BatchOK
  <1>2. Completes(b) => ~receipts[b.req.key].done
    BY DEF Completes, Execute, BatchAllowed, NoReceipt
  <1>3. session'.revision = RevisionAfter(b) /\ session'.revision >= session.revision
        /\ session'.revision \in Nat
    BY DEF Execute, RevisionAfter, Shapes, TableShapes
  <1>4. QED
    BY <1>1, <1>2, <1>3 DEF Execute, BatchAllowed, Shapes, TableShapes

LEMMA ExecutedRecords ==
  ASSUME Shapes, Records, NEW b, BatchOK(b), Execute(b), late => late'
  PROVE  Monotone /\ Records'
  <1>1. Monotone
    BY ExecutedReceipts DEF Monotone
  <1>2. ASSUME NEW k \in Keys
        PROVE  ReceiptOK(k)' /\ RecoveryOK(k)'
    <2>1. CASE k = b.req.key /\ Completes(b)
      <3>1. receipts'[k] = Completed(b.req, b.answer) /\ session'.revision = b.req.expected + 1
        BY <2>1, ExecutedReceipts
      <3>2. b.req \in Requests /\ b.req # None /\ b.req.key = k /\ b.req.expected \in Nat
        BY <2>1, RequestTypes DEF BatchOK
      <3>3. recoveries'[k] = recoveries[k] /\ (recoveries[k] # None => RecoveryOK(k))
        BY ExecutedReceipts DEF Records
      <3>4. ReceiptOK(k)'
        BY <3>1, <3>2 DEF ReceiptOK, Completed, BatchOK, Answer
      <3>5. RecoveryOK(k)'
        BY <3>1, <3>2, <3>3 DEF RecoveryOK, Completed, NoReceipt
      <3>6. QED
        BY <3>4, <3>5
    <2>2. CASE k # b.req.key \/ ~Completes(b)
      <3>1. receipts'[k] = receipts[k] /\ recoveries'[k] = recoveries[k]
        BY <2>2, ExecutedReceipts
      <3>2. receipts[k].req \in Requests => receipts[k].req.expected \in Nat
        BY RequestTypes
      <3>3. session.revision \in Nat /\ session'.revision \in Nat
            /\ session'.revision >= session.revision
        BY ExecutedReceipts DEF Shapes, TableShapes
      <3>4. QED
        BY <3>1, <3>2, <3>3 DEF ReceiptOK, RecoveryOK, Records
    <2>3. QED
      BY <2>1, <2>2
  <1>3. QED
    BY <1>1, <1>2 DEF Records

-----------------------------------------------------------------------------
(* Steps of one Worker, and steps of all others.                            *)

\* Nothing that the invariant says of the tables is touched.
Still ==
  /\ UNCHANGED <<receipts, recoveries, late>>
  /\ session'.revision = session.revision

LEMMA StillRecords ==
  ASSUME Records, AppliedOnce, Still
  PROVE  Monotone /\ Records' /\ AppliedOnce'
  BY DEF Records, ReceiptOK, RecoveryOK, AppliedOnce, Applied, Still, Monotone, NoReceipt

LEMMA IdleOK ==
  ASSUME NEW u \in Workers, workers'[u].pc = "idle"
  PROVE  WorkerOK(u)'
  BY DEF WorkerOK, RequestPcs, LookedPcs

\* Only the Worker that has the lease is at work.
LEMMA MoverAlone ==
  ASSUME Handlers, NEW w \in Workers, workers[w].pc # "idle",
         \A u \in Workers \ {w} : workers'[u] = workers[u], WorkerOK(w)'
  PROVE  Handlers'
  <1>1. ASSUME NEW u \in Workers, u # w
        PROVE  WorkerOK(u)'
    <2>1. workers[u].pc = "idle"
      BY <1>1 DEF Handlers, WorkerOK
    <2>2. workers'[u].pc = "idle"
      BY <1>1, <2>1
    <2>3. QED
      BY <2>2, IdleOK
  <1>2. QED
    BY <1>1 DEF Handlers

LEMMA HandlersStay ==
  ASSUME Handlers, Monotone, UNCHANGED <<workers, lease, recoveries>>,
         late' \/ Still
  PROVE  Handlers'
  <1>1. ASSUME NEW w \in Workers
        PROVE  WorkerOK(w)'
    <2> WorkerOK(w)
      BY DEF Handlers
    <2>1. workers[w].pc = "release" /\ workers[w].answer.code \in Final
          => Sound(workers[w].answer)'
      BY SoundStays DEF WorkerOK, Sound, Backed
    <2>2. CASE late'
      BY <2>1, <2>2 DEF WorkerOK, BatchOK
    <2>3. CASE Still
      BY <2>1, <2>3 DEF WorkerOK, BatchOK, Still, Inspected
    <2>4. QED
      BY <2>2, <2>3
  <1>2. QED
    BY <1>1 DEF Handlers

\* What a settled request is told is on record.
LEMMA ReplayedSound ==
  ASSUME Records, NEW r \in Requests, Settled(r)
  PROVE  /\ Replayed(r).code \in Final => Sound(Replayed(r))
         /\ Inspected(r) = "replay" /\ recoveries[r.key] = None =>
              receipts[r.key].done /\ receipts[r.key].req = r
  <1>1. r.key \in Keys /\ ReceiptOK(r.key) /\ RecoveryOK(r.key)
    BY RequestTypes DEF Records
  <1>2. CASE Inspected(r) = "conflict"
    BY <1>1, <1>2 DEF Inspected, Replayed, Refusal, Answer, Final
  <1>3. CASE Inspected(r) = "replay" /\ recoveries[r.key] # None
    BY <1>1, <1>3 DEF Inspected, Replayed, RecoveryOK, Sound, Backed
  <1>4. CASE Inspected(r) = "replay" /\ recoveries[r.key] = None
    BY <1>1, <1>4 DEF Inspected, Replayed, ReceiptOK, Sound, Backed
  <1>5. QED
    BY <1>2, <1>3, <1>4 DEF Settled

\* A Worker that leaves gives the lease back and then answers.
LEMMA LeaveOK ==
  ASSUME Shapes, NEW w \in Workers, NEW a, Leave(w, a), lease' = w,
         a.code \in Final =>
           /\ a.req \in Requests
           /\ a.code \in {"applied", "recovered"} =>
                /\ receipts'[a.req.key].done /\ receipts'[a.req.key].req = a.req
                /\ late' \/ receipts'[a.req.key].answer = a
           /\ a.code = "rehearsal_command_recovery_required" =>
                recoveries'[a.req.key] = a /\ a # None
  PROVE  WorkerOK(w)' /\ \A u \in Workers \ {w} : workers'[u] = workers[u]
  <1>1. workers'[w].pc = "release" /\ workers'[w].answer = a
        /\ \A u \in Workers \ {w} : workers'[u] = workers[u]
    BY DEF Leave, Shapes, WorkerShapes, Idle
  <1>2. a.code \in Final => Sound(workers[w].answer)'
    BY <1>1 DEF Sound, Backed
  <1>3. WorkerOK(w)'
    BY <1>1, <1>2 DEF WorkerOK, RequestPcs, LookedPcs, Sound, Backed
  <1>4. QED
    BY <1>1, <1>3

LEMMA GotoShapes ==
  ASSUME WorkerShapes, NEW w \in Workers, NEW pc, Goto(w, pc)
  PROVE  /\ WorkerShapes'
         /\ workers'[w] = [workers[w] EXCEPT !.pc = pc]
         /\ \A u \in Workers \ {w} : workers'[u] = workers[u]
  BY DEF Goto, WorkerShapes

LEMMA LeaveShapes ==
  ASSUME WorkerShapes, NEW w \in Workers, NEW a, Leave(w, a)
  PROVE  WorkerShapes'
  BY DEF Leave, WorkerShapes, Idle

\* What remains to be shown of the step of a Worker that leaves the tables alone.
LEMMA QuietStep ==
  ASSUME IInv, NEW w \in Workers, workers[w].pc # "idle",
         UNCHANGED <<tables, late, answers>>, InFlights', WorkerShapes',
         \A u \in Workers \ {w} : workers'[u] = workers[u], WorkerOK(w)'
  PROVE  IInv'
  <1>1. Still
    BY DEF Still, tables
  <1>2. Monotone /\ Records' /\ AppliedOnce'
    BY <1>1, StillRecords DEF IInv
  <1>3. Told'
    BY <1>2, ToldStays DEF IInv
  <1>4. Handlers'
    BY MoverAlone DEF IInv
  <1>5. Shapes'
    BY DEF IInv, Shapes, TableShapes, tables
  <1>6. QED
    BY <1>2, <1>3, <1>4, <1>5 DEF IInv

\* Leaving with an answer that is not final, or one that is on record.
LEMMA QuietLeave ==
  ASSUME IInv, NEW w \in Workers, workers[w].pc # "idle",
         UNCHANGED <<tables, late, answers, flights, lease>>,
         NEW a, Leave(w, a), a.code \in Final => Sound(a)
  PROVE  IInv'
  <1>1. lease' = w
    BY DEF IInv, Handlers, WorkerOK
  <1>2. Monotone
    BY StillRecords DEF Still, tables, IInv
  <1>3. WorkerOK(w)' /\ \A u \in Workers \ {w} : workers'[u] = workers[u]
    BY <1>1, <1>2, SoundStays, LeaveOK DEF IInv
  <1>4. WorkerShapes'
    BY LeaveShapes DEF IInv, Shapes
  <1>5. InFlights'
    BY DEF IInv, InFlights
  <1>6. QED
    BY <1>3, <1>4, <1>5, QuietStep DEF tables

LEMMA InspectStep ==
  ASSUME IInv, NEW w \in Workers, InspectAgain(w)
  PROVE  IInv'
  <1> DEFINE r == workers[w].req
  <1>1. r \in Requests /\ lease = w
    BY DEF IInv, Handlers, WorkerOK, InspectAgain, RequestPcs
  <1>2. CASE Settled(r)
    <2>1. Replayed(r).code \in Final => Sound(Replayed(r))
      BY <1>1, <1>2, ReplayedSound DEF IInv
    <2>2. Leave(w, Replayed(r))
      BY <1>2 DEF InspectAgain
    <2>3. QED
      BY <2>1, <2>2, QuietLeave DEF InspectAgain
  <1>3. CASE ~Settled(r)
    <2>1. workers' = [workers EXCEPT ![w].pc = "check", ![w].kind = Inspected(r)]
      BY <1>3 DEF InspectAgain
    <2>2. WorkerShapes' /\ (\A u \in Workers \ {w} : workers'[u] = workers[u])
      BY <2>1 DEF IInv, Shapes, WorkerShapes
    <2>3. workers'[w] = [workers[w] EXCEPT !.pc = "check", !.kind = Inspected(r)]
      BY <2>1 DEF IInv, Shapes, WorkerShapes
    <2> HIDE DEF r
    <2>4. Inspected(r) \in {"new", "pending"}
      BY <1>3 DEF Inspected, Settled
    <2>5. workers'[w].pc = "check" /\ workers'[w].req = r /\ workers'[w].kind = Inspected(r)
      BY <2>3 DEF IInv, Shapes, WorkerShapes, r
    <2>6. recoveries[r.key] = None
      BY <1>1, <1>3, RequestTypes DEF Settled, Inspected, IInv, Records, RecoveryOK
    <2>7. WorkerOK(w)'
      BY <1>1, <2>5, <2>4, <2>6 DEF WorkerOK, InspectAgain, tables, Inspected
    <2>8. QED
      BY <2>2, <2>7, QuietStep DEF InspectAgain, IInv, InFlights
  <1>4. QED
    BY <1>2, <1>3

LEMMA CheckStep ==
  ASSUME IInv, NEW w \in Workers, Check(w)
  PROVE  IInv'
  <1> DEFINE r == workers[w].req
  <1>0. workers[w].pc = "check" /\ UNCHANGED <<tables, flights, lease, answers, faults, late>>
    BY DEF Check
  <1>1. /\ r \in Requests /\ lease = w /\ recoveries[r.key] = None
        /\ workers[w].kind \in {"new", "pending"} /\ (~late => Inspected(r) = workers[w].kind)
    BY <1>0 DEF IInv, Handlers, WorkerOK, RequestPcs, LookedPcs
  <1>2. ASSUME NEW code, Leave(w, Refusal(r, code)), code \notin Final
        PROVE  IInv'
    BY <1>0, <1>2, QuietLeave DEF Refusal, Answer
  <1>3. CASE Goto(w, "recover")
    <2>1. /\ WorkerShapes' /\ \A u \in Workers \ {w} : workers'[u] = workers[u]
          /\ workers'[w] = [workers[w] EXCEPT !.pc = "recover"]
      BY <1>3, GotoShapes DEF IInv, Shapes
    <2>2. workers'[w].pc = "recover" /\ workers'[w].req = r
      BY <2>1 DEF IInv, Shapes, WorkerShapes
    <2>3. WorkerOK(w)'
      BY <1>0, <1>1, <2>2 DEF WorkerOK, tables
    <2>4. QED
      BY <1>0, <2>1, <2>3, QuietStep DEF IInv, InFlights
  <1>4. CASE /\ workers' = [workers EXCEPT ![w].pc = "plan", ![w].seen = session]
             /\ session.revision = r.expected
    <2>1. WorkerShapes' /\ \A u \in Workers \ {w} : workers'[u] = workers[u]
      BY <1>4 DEF IInv, Shapes, WorkerShapes
    <2>2. workers'[w].pc = "plan" /\ workers'[w].req = r /\ workers'[w].kind = workers[w].kind
      BY <1>4 DEF IInv, Shapes, WorkerShapes
    <2>3. WorkerOK(w)'
      BY <1>0, <1>1, <1>4, <2>2 DEF WorkerOK, tables, Inspected
    <2>4. QED
      BY <1>0, <2>1, <2>3, QuietStep DEF IInv, InFlights
  <1>5. \/ \E code \in {"canonical_mutation_requires_command", "stale_mock_control_revision",
                        "complete"} : Leave(w, Refusal(r, code))
        \/ Goto(w, "recover")
        \/ /\ workers' = [workers EXCEPT ![w].pc = "plan", ![w].seen = session]
           /\ session.revision = r.expected
    BY DEF Check
  <1>6. QED
    BY <1>2, <1>3, <1>4, <1>5 DEF Final

LEMMA PlanStep ==
  ASSUME IInv, NEW w \in Workers, Plan(w)
  PROVE  IInv'
  <1> DEFINE r == workers[w].req
             batch == BatchOf(r, workers[w].kind, workers[w].seen)
  <1>0. workers[w].pc = "plan" /\ UNCHANGED <<tables, flights, lease, answers, faults, late>>
    BY DEF Plan
  <1>1. /\ r \in Requests /\ lease = w /\ recoveries[r.key] = None
        /\ workers[w].kind \in {"new", "pending"} /\ (~late => Inspected(r) = workers[w].kind)
        /\ ~late => session.revision = r.expected
    BY <1>0 DEF IInv, Handlers, WorkerOK, RequestPcs, LookedPcs
  <1>2. CASE Leave(w, Refusal(r, "position_already_filled"))
    BY <1>0, <1>2, QuietLeave DEF Refusal, Answer, Final
  <1>3. CASE workers' = [workers EXCEPT ![w].pc = "sent", ![w].seen = None,
                                        ![w].batch = batch]
    <2>1. WorkerShapes' /\ \A u \in Workers \ {w} : workers'[u] = workers[u]
      BY <1>3 DEF IInv, Shapes, WorkerShapes
    <2>2. workers'[w] = [workers[w] EXCEPT !.pc = "sent", !.seen = None, !.batch = batch]
      BY <1>3 DEF IInv, Shapes, WorkerShapes
    <2>3. /\ batch.req = r /\ batch.reserve = (workers[w].kind = "new")
          /\ batch.answer = Answer(r, "applied", batch.bids)
      BY DEF BatchOf
    <2> HIDE DEF r, batch
    <2>4. /\ workers'[w].pc = "sent" /\ workers'[w].req = r
          /\ workers'[w].kind = workers[w].kind /\ workers'[w].batch = batch
      BY <2>2 DEF IInv, Shapes, WorkerShapes, r
    <2>5. WorkerOK(w)'
      BY <1>0, <1>1, <2>3, <2>4 DEF WorkerOK, tables, Inspected, BatchOK
    <2>6. QED
      BY <1>0, <2>1, <2>5, QuietStep DEF IInv, InFlights
  <1>4. QED
    BY <1>2, <1>3 DEF Plan

\* A batch was sent: what is known of it and of its Worker.
LEMMA SentFacts ==
  ASSUME IInv, NEW w \in Workers, workers[w].pc = "sent"
  PROVE  /\ workers[w].req \in Requests /\ lease = w
         /\ recoveries[workers[w].req.key] = None
         /\ BatchOK(workers[w].batch) /\ workers[w].batch.req = workers[w].req
  BY DEF IInv, Handlers, WorkerOK, RequestPcs, LookedPcs

\* The Worker goes to look whether its batch was executed.
LEMMA RecheckOK ==
  ASSUME IInv, NEW w \in Workers, workers[w].pc = "sent", Goto(w, "recheck"),
         UNCHANGED <<lease, recoveries>>
  PROVE  /\ WorkerShapes' /\ WorkerOK(w)'
         /\ \A u \in Workers \ {w} : workers'[u] = workers[u]
  <1>1. /\ WorkerShapes' /\ \A u \in Workers \ {w} : workers'[u] = workers[u]
        /\ workers'[w] = [workers[w] EXCEPT !.pc = "recheck"]
    BY GotoShapes DEF IInv, Shapes
  <1>2. workers'[w].pc = "recheck" /\ workers'[w].req = workers[w].req
    BY <1>1 DEF IInv, Shapes, WorkerShapes
  <1>3. WorkerOK(w)'
    BY <1>2, SentFacts DEF WorkerOK
  <1>4. QED
    BY <1>1, <1>3

LEMMA AbortStep ==
  ASSUME IInv, NEW w \in Workers, Abort(w)
  PROVE  IInv'
  <1>1. /\ WorkerShapes' /\ WorkerOK(w)'
        /\ \A u \in Workers \ {w} : workers'[u] = workers[u]
    BY RecheckOK DEF Abort, tables
  <1>2. InFlights'
    BY DEF IInv, InFlights, Abort
  <1>3. QED
    BY <1>1, <1>2, QuietStep DEF Abort

LEMMA FlightsKept ==
  ASSUME IInv, NEW b, BatchOK(b), InFlight(b)
  PROVE  InFlights'
  BY DEF IInv, InFlights, InFlight, BatchOK

LEMMA CallFailsStep ==
  ASSUME IInv, NEW w \in Workers, CallFails(w)
  PROVE  IInv'
  <1>1. /\ WorkerShapes' /\ WorkerOK(w)'
        /\ \A u \in Workers \ {w} : workers'[u] = workers[u]
    BY RecheckOK DEF CallFails, tables
  <1>2. InFlights'
    BY SentFacts, FlightsKept DEF CallFails
  <1>3. QED
    BY <1>1, <1>2, QuietStep DEF CallFails

LEMMA RecheckStep ==
  ASSUME IInv, NEW w \in Workers, Recheck(w)
  PROVE  IInv'
  <1> DEFINE r == workers[w].req
  <1>1. r \in Requests
    BY DEF IInv, Handlers, WorkerOK, RequestPcs, Recheck
  <1>2. CASE Inspected(r) = "replay"
    <2>1. Replayed(r).code \in Final => Sound(Replayed(r))
      BY <1>1, <1>2, ReplayedSound DEF IInv, Settled
    <2>2. QED
      BY <1>2, <2>1, QuietLeave DEF Recheck
  <1>3. CASE Inspected(r) # "replay"
    BY <1>3, QuietLeave DEF Recheck, Refusal, Answer, Final
  <1>4. QED
    BY <1>2, <1>3

LEMMA VerifyStep ==
  ASSUME IInv, NEW w \in Workers, Verify(w)
  PROVE  IInv'
  <1> DEFINE r == workers[w].req
             a == workers[w].batch.answer
  <1>1. /\ r \in Requests /\ recoveries[r.key] = None
        /\ BatchOK(workers[w].batch) /\ workers[w].batch.req = r
        /\ ~late => receipts[r.key] = Completed(r, a)
    BY DEF IInv, Handlers, WorkerOK, RequestPcs, LookedPcs, Verify
  <1>2. CASE Inspected(r) = "replay"
    <2>1. receipts[r.key].done /\ receipts[r.key].req = r
      BY <1>1, <1>2, ReplayedSound DEF IInv, Settled
    <2>2. Sound(a)
      BY <1>1, <2>1 DEF Sound, Backed, BatchOK, Answer, Completed
    <2>3. QED
      BY <1>2, <2>2, QuietLeave DEF Verify
  <1>3. CASE Inspected(r) # "replay"
    BY <1>3, QuietLeave DEF Verify, Refusal, Answer, Final
  <1>4. QED
    BY <1>2, <1>3

-----------------------------------------------------------------------------
(* Steps that execute a batch, and those that end without one.              *)

LEMMA ExecutedShapes ==
  ASSUME Shapes, Records, NEW b, BatchOK(b), Execute(b)
  PROVE  TableShapes'
  <1>1. order' \in BOOLEAN
    BY DEF Execute, Shapes, TableShapes
  <1>2. receipts' = [k \in Keys |-> receipts'[k]] /\ recoveries' = [k \in Keys |-> recoveries'[k]]
    BY DEF Execute, Shapes, TableShapes
  <1>3. session' = [phase |-> session'.phase, bidder |-> session'.bidder,
                    revision |-> session'.revision]
    BY DEF Execute, Shapes, TableShapes
  <1>4. session'.revision \in Nat
    BY ExecutedReceipts
  <1>5. QED
    BY <1>1, <1>2, <1>3, <1>4 DEF TableShapes

\* The batch of the holder of the lease completes its receipt, and is the first
\* to do so on its revision.
LEMMA SentExecutes ==
  ASSUME IInv, NEW w \in Workers, workers[w].pc = "sent", Execute(workers[w].batch),
         UNCHANGED late
  PROVE  /\ Monotone /\ Records' /\ TableShapes' /\ AppliedOnce' /\ UNCHANGED recoveries
         /\ ~late => receipts'[workers[w].req.key]
                       = Completed(workers[w].req, workers[w].batch.answer)
  <1> DEFINE b == workers[w].batch
             r == workers[w].req
  <1>1. /\ r \in Requests /\ recoveries[r.key] = None /\ BatchOK(b) /\ b.req = r
        /\ r.key \in Keys /\ r.expected \in Nat
    BY SentFacts, RequestTypes
  <1>2. Monotone /\ Records' /\ TableShapes' /\ UNCHANGED recoveries
    BY <1>1, ExecutedRecords, ExecutedShapes, ExecutedReceipts DEF IInv
  <1>3. ASSUME ~late
        PROVE  Completes(b) /\ session.revision = r.expected
    <2>1. /\ b.reserve = (workers[w].kind = "new") /\ workers[w].kind \in {"new", "pending"}
          /\ Inspected(r) = workers[w].kind /\ session.revision = r.expected
      BY <1>3 DEF IInv, Handlers, WorkerOK
    <2>2. CASE workers[w].kind = "new"
      BY <2>1, <2>2 DEF Completes
    <2>3. CASE workers[w].kind = "pending"
      BY <2>1, <2>3, <1>1 DEF Completes, Inspected
    <2>4. QED
      BY <2>1, <2>2, <2>3
  <1>4. ~late => receipts'[r.key] = Completed(r, b.answer)
    BY <1>1, <1>3, ExecutedReceipts DEF IInv
  <1>5. AppliedOnce'
    <2>1. SUFFICES ASSUME ~late, NEW j \in Keys, NEW k \in Keys, Applied(j)', Applied(k)',
                          receipts'[j].req.expected = receipts'[k].req.expected
                   PROVE  j = k
      BY DEF AppliedOnce
    <2>2. \A i \in Keys \ {r.key} : receipts'[i] = receipts[i]
      BY <1>1, ExecutedReceipts DEF IInv
    <2>3. receipts'[r.key].req.expected = session.revision
      BY <1>3, <1>4, <2>1 DEF Completed
    <2>4. \A i \in Keys \ {r.key} : receipts[i].done =>
            receipts[i].req.expected \in Nat /\ receipts[i].req.expected < session.revision
      BY RequestTypes DEF IInv, Records, ReceiptOK
    <2>5. \A i \in Keys \ {r.key} : Applied(i)' =>
            receipts'[i].req.expected # session.revision /\ Applied(i)
      BY <2>2, <2>4 DEF Applied, IInv, Shapes, TableShapes
    <2>6. QED
      BY <2>1, <2>2, <2>3, <2>5 DEF AppliedOnce, IInv
  <1>6. QED
    BY <1>2, <1>4, <1>5

\* What remains to be shown of a step of a Worker that moves the tables.
LEMMA TableStep ==
  ASSUME IInv, NEW w \in Workers, workers[w].pc # "idle",
         Monotone, Records', TableShapes', AppliedOnce', UNCHANGED answers, InFlights',
         WorkerShapes', \A u \in Workers \ {w} : workers'[u] = workers[u], WorkerOK(w)'
  PROVE  IInv'
  BY ToldStays, MoverAlone DEF IInv, Shapes

LEMMA CommitStep ==
  ASSUME IInv, NEW w \in Workers, Commit(w)
  PROVE  IInv'
  <1>0. /\ workers[w].pc = "sent" /\ Execute(workers[w].batch) /\ Goto(w, "verify")
        /\ UNCHANGED <<flights, lease, answers, faults, late>>
    BY DEF Commit
  <1>1. /\ Monotone /\ Records' /\ TableShapes' /\ AppliedOnce' /\ UNCHANGED recoveries
        /\ ~late => receipts'[workers[w].req.key]
                      = Completed(workers[w].req, workers[w].batch.answer)
    BY <1>0, SentExecutes
  <1>2. /\ WorkerShapes' /\ \A u \in Workers \ {w} : workers'[u] = workers[u]
        /\ workers'[w] = [workers[w] EXCEPT !.pc = "verify"]
    BY <1>0, GotoShapes DEF IInv, Shapes
  <1>3. /\ workers'[w].pc = "verify" /\ workers'[w].req = workers[w].req
        /\ workers'[w].batch = workers[w].batch
    BY <1>2 DEF IInv, Shapes, WorkerShapes
  <1>4. WorkerOK(w)'
    BY <1>0, <1>1, <1>3, SentFacts DEF WorkerOK, BatchOK
  <1>5. InFlights'
    BY <1>0 DEF IInv, InFlights
  <1>6. QED
    BY <1>0, <1>1, <1>2, <1>4, <1>5, TableStep

LEMMA CommitUnheardStep ==
  ASSUME IInv, NEW w \in Workers, CommitUnheard(w)
  PROVE  IInv'
  <1>0. /\ workers[w].pc = "sent" /\ Execute(workers[w].batch) /\ Goto(w, "recheck")
        /\ UNCHANGED <<flights, lease, answers, late>>
    BY DEF CommitUnheard
  <1>1. Monotone /\ Records' /\ TableShapes' /\ AppliedOnce' /\ UNCHANGED recoveries
    BY <1>0, SentExecutes
  <1>2. /\ WorkerShapes' /\ WorkerOK(w)'
        /\ \A u \in Workers \ {w} : workers'[u] = workers[u]
    BY <1>0, <1>1, RecheckOK
  <1>3. InFlights'
    BY <1>0 DEF IInv, InFlights
  <1>4. QED
    BY <1>0, <1>1, <1>2, <1>3, TableStep

\* A Worker that is idle again.
LEMMA IdleShapes ==
  ASSUME WorkerShapes, NEW w \in Workers, workers' = [workers EXCEPT ![w] = Idle]
  PROVE  /\ WorkerShapes' /\ WorkerOK(w)'
         /\ \A u \in Workers \ {w} : workers'[u] = workers[u]
  <1>1. workers'[w] = Idle /\ \A u \in Workers \ {w} : workers'[u] = workers[u]
    BY DEF WorkerShapes
  <1>2. WorkerShapes'
    BY DEF WorkerShapes, Idle
  <1>3. workers'[w].pc = "idle"
    BY <1>1 DEF Idle
  <1>4. QED
    BY <1>1, <1>2, <1>3, IdleOK

LEMMA CrashStep ==
  ASSUME IInv, NEW w \in Workers, Crash(w)
  PROVE  IInv'
  <1>0. workers[w].pc # "idle" /\ UNCHANGED <<lease, answers, late>>
    BY DEF Crash
  <1>1. /\ WorkerShapes' /\ WorkerOK(w)'
        /\ \A u \in Workers \ {w} : workers'[u] = workers[u]
    BY IdleShapes DEF Crash, IInv, Shapes
  <1>2. CASE UNCHANGED tables /\ InFlights'
    BY <1>0, <1>1, <1>2, QuietStep
  <1>3. CASE workers[w].pc = "sent" /\ Execute(workers[w].batch) /\ UNCHANGED flights
    <2>1. Monotone /\ Records' /\ TableShapes' /\ AppliedOnce'
      BY <1>0, <1>3, SentExecutes
    <2>2. InFlights'
      BY <1>3 DEF IInv, InFlights
    <2>3. QED
      BY <1>0, <1>1, <1>3, <2>1, <2>2, TableStep
  <1>4. \/ UNCHANGED tables /\ InFlights'
        \/ workers[w].pc = "sent" /\ Execute(workers[w].batch) /\ UNCHANGED flights
    <2>1. UNCHANGED flights => InFlights'
      BY DEF IInv, InFlights
    <2>2. workers[w].pc = "sent" /\ InFlight(workers[w].batch) => InFlights'
      BY SentFacts, FlightsKept
    <2>3. QED
      BY <2>1, <2>2 DEF Crash
  <1>5. QED
    BY <1>2, <1>3, <1>4

LEMMA RecoverStep ==
  ASSUME IInv, NEW w \in Workers, Recover(w)
  PROVE  IInv'
  <1> DEFINE r == workers[w].req
             done == Answer(r, "recovered", BidsOf(r))
             lost == Refusal(r, "rehearsal_command_recovery_required")
  <1>0. /\ workers[w].pc = "recover"
        /\ UNCHANGED <<session, order, sealed, bids, flights, lease, answers, faults, late>>
    BY DEF Recover
  <1>1. /\ r \in Requests /\ r.key \in Keys /\ r.expected \in Nat /\ r # None
        /\ lease = w /\ recoveries[r.key] = None
    BY <1>0, RequestTypes DEF IInv, Handlers, WorkerOK, RequestPcs, LookedPcs
  <1>2. InFlights'
    BY <1>0 DEF IInv, InFlights
  <1>3. ASSUME NEW code, Leave(w, Refusal(r, code)), code \notin Final,
               UNCHANGED <<receipts, recoveries>>
        PROVE  IInv'
    BY <1>0, <1>3, QuietLeave DEF Refusal, Answer, tables
  <1>4. CASE /\ Inspected(r) = "pending" /\ Evidence(r) /\ Leave(w, done)
             /\ receipts' = [receipts EXCEPT ![r.key] = Completed(r, done)]
             /\ UNCHANGED recoveries
    <2>1. /\ receipts[r.key].req = r /\ ~receipts[r.key].done
          /\ receipts' = [k \in Keys |-> IF k = r.key THEN Completed(r, done) ELSE receipts[k]]
      BY <1>1, <1>4 DEF Inspected, IInv, Shapes, TableShapes
    <2>2. Monotone
      BY <1>0, <1>1, <1>4, <2>1 DEF Monotone
    <2>3. r.expected < session.revision
      BY <1>1, <1>4 DEF Evidence
    <2>4. Records'
      <3>1. ASSUME NEW k \in Keys, k # r.key
            PROVE  ReceiptOK(k)' /\ RecoveryOK(k)'
        BY <1>0, <1>4, <2>1, <3>1 DEF IInv, Records, ReceiptOK, RecoveryOK, NoReceipt
      <3>2. ASSUME NEW k \in Keys, k = r.key
            PROVE  ReceiptOK(k)' /\ RecoveryOK(k)'
        <4>1. /\ receipts'[k].req = r /\ receipts'[k].done = TRUE
              /\ receipts'[k].answer.req = r /\ receipts'[k].answer.code = "recovered"
          BY <2>1, <3>2 DEF Completed, Answer
        <4>2. recoveries'[k] = None /\ session'.revision = session.revision
          BY <1>0, <1>1, <1>4, <3>2
        <4> HIDE DEF r
        <4>3. QED
          BY <1>1, <2>3, <3>2, <4>1, <4>2 DEF ReceiptOK, RecoveryOK
      <3>3. QED
        BY <3>1, <3>2 DEF Records
    <2>5. AppliedOnce'
      <3>1. \A k \in Keys : Applied(k)' => Applied(k) /\ receipts'[k] = receipts[k]
        BY <2>1 DEF Applied, Completed, Answer
      <3>2. QED
        BY <3>1, <1>0 DEF IInv, AppliedOnce
    <2>6. TableShapes'
      BY <1>0, <1>4, <2>1 DEF IInv, Shapes, TableShapes
    <2>7. WorkerOK(w)' /\ \A u \in Workers \ {w} : workers'[u] = workers[u]
      <3>1. receipts'[r.key].done /\ receipts'[r.key].req = r /\ receipts'[r.key].answer = done
        BY <1>1, <2>1 DEF Completed
      <3>2. done.req = r /\ done.code = "recovered"
        BY DEF Answer
      <3>3. QED
        BY <1>0, <1>1, <1>4, <3>1, <3>2, LeaveOK DEF IInv
    <2>8. WorkerShapes'
      BY <1>4, LeaveShapes DEF IInv, Shapes
    <2>9. QED
      BY <1>0, <1>2, <2>2, <2>4, <2>5, <2>6, <2>7, <2>8, TableStep
  <1>5. CASE /\ Inspected(r) = "pending" /\ Leave(w, lost)
             /\ recoveries' = [recoveries EXCEPT ![r.key] = lost] /\ UNCHANGED receipts
    <2>1. recoveries' = [k \in Keys |-> IF k = r.key THEN lost ELSE recoveries[k]]
      BY <1>1, <1>5 DEF IInv, Shapes, TableShapes
    <2>2. Monotone
      BY <1>0, <1>1, <1>5, <2>1 DEF Monotone
    <2>3. lost # None /\ lost.req = r /\ lost.code = "rehearsal_command_recovery_required"
      BY <1>1, NullIsNoAnswer DEF Refusal, Answer
    <2>4. receipts[r.key] # NoReceipt
      BY <1>5 DEF Inspected
    <2>5. Records'
      <3>1. ASSUME NEW k \in Keys
            PROVE  ReceiptOK(k)'
        BY <1>0, <1>5 DEF IInv, Records, ReceiptOK, NoReceipt
      <3>2. ASSUME NEW k \in Keys, k # r.key
            PROVE  RecoveryOK(k)'
        BY <1>5, <2>1, <3>2 DEF IInv, Records, RecoveryOK, NoReceipt
      <3>3. ASSUME NEW k \in Keys, k = r.key
            PROVE  RecoveryOK(k)'
        BY <1>1, <1>5, <2>1, <2>3, <2>4, <3>3 DEF RecoveryOK, NoReceipt
      <3>4. QED
        BY <3>1, <3>2, <3>3 DEF Records
    <2>6. AppliedOnce' /\ TableShapes'
      BY <1>0, <1>5, <2>1 DEF IInv, AppliedOnce, Applied, Shapes, TableShapes
    <2>7. WorkerOK(w)' /\ \A u \in Workers \ {w} : workers'[u] = workers[u]
      <3>1. recoveries'[r.key] = lost
        BY <1>1, <2>1
      <3>2. QED
        BY <1>0, <1>1, <1>5, <2>3, <3>1, LeaveOK DEF IInv
    <2>8. WorkerShapes'
      BY <1>5, LeaveShapes DEF IInv, Shapes
    <2>9. QED
      BY <1>0, <1>2, <2>2, <2>5, <2>6, <2>7, <2>8, TableStep
  <1>6. \/ /\ UNCHANGED <<receipts, recoveries>>
           /\ \E code \in {"stale_mock_control_revision", "uncaught"} : Leave(w, Refusal(r, code))
        \/ /\ Inspected(r) = "pending" /\ Evidence(r) /\ Leave(w, done)
           /\ receipts' = [receipts EXCEPT ![r.key] = Completed(r, done)]
           /\ UNCHANGED recoveries
        \/ /\ Inspected(r) = "pending" /\ Leave(w, lost)
           /\ recoveries' = [recoveries EXCEPT ![r.key] = lost] /\ UNCHANGED receipts
    BY DEF Recover
  <1>7. QED
    BY <1>3, <1>4, <1>5, <1>6 DEF Final

LEMMA LateBatchStep ==
  ASSUME IInv, NEW b \in flights, LateBatch(b)
  PROVE  IInv'
  <1>0. UNCHANGED <<lease, workers, answers, faults>> /\ BatchOK(b)
    BY DEF LateBatch, IInv, InFlights
  <1>1. InFlights' /\ WorkerShapes'
    BY <1>0 DEF LateBatch, IInv, InFlights, BatchOK, Shapes, WorkerShapes
  <1>2. CASE Execute(b) /\ late' = TRUE
    <2>1. Monotone /\ Records' /\ TableShapes' /\ UNCHANGED recoveries
      BY <1>0, <1>2, ExecutedRecords, ExecutedShapes, ExecutedReceipts DEF IInv
    <2>2. Told' /\ Handlers' /\ AppliedOnce'
      BY <1>0, <1>2, <2>1, ToldStays, HandlersStay DEF IInv, AppliedOnce
    <2>3. QED
      BY <1>1, <2>1, <2>2 DEF IInv, Shapes
  <1>3. CASE UNCHANGED <<tables, late>>
    <2>1. Still
      BY <1>3 DEF Still, tables
    <2>2. Monotone /\ Records' /\ AppliedOnce'
      BY <2>1, StillRecords DEF IInv
    <2>3. Told' /\ Handlers'
      BY <1>0, <1>3, <2>1, <2>2, ToldStays, HandlersStay DEF IInv, tables
    <2>4. TableShapes'
      BY <1>3 DEF IInv, Shapes, TableShapes, tables
    <2>5. QED
      BY <1>1, <2>2, <2>3, <2>4 DEF IInv, Shapes
  <1>4. QED
    BY <1>2, <1>3 DEF LateBatch

LEMMA ReleaseStep ==
  ASSUME IInv, NEW w \in Workers, Release(w) \/ ReleaseFails(w)
  PROVE  IInv'
  <1>0. /\ workers[w].pc = "release" /\ UNCHANGED <<tables, flights, late>>
        /\ workers' = [workers EXCEPT ![w] = Idle]
        /\ Tell(workers[w].answer) \/ UNCHANGED answers
    BY DEF Release, ReleaseFails
  <1>1. /\ WorkerShapes' /\ WorkerOK(w)'
        /\ \A u \in Workers \ {w} : workers'[u] = workers[u]
    BY <1>0, IdleShapes DEF IInv, Shapes
  <1>2. Still
    BY <1>0 DEF Still, tables
  <1>3. Monotone /\ Records' /\ AppliedOnce'
    BY <1>2, StillRecords DEF IInv
  <1>4. Told'
    <2>1. workers[w].answer.code \in Final => Sound(workers[w].answer)
      BY <1>0 DEF IInv, Handlers, WorkerOK
    <2>2. \A a \in answers' : Sound(a)
      BY <1>0, <2>1 DEF Tell, IInv, Told
    <2>3. QED
      BY <1>3, <2>2, SoundStays DEF Told, Sound, Backed
  <1>5. Handlers'
    BY <1>0, <1>1, MoverAlone DEF IInv
  <1>6. InFlights' /\ TableShapes'
    BY <1>0 DEF IInv, InFlights, Shapes, TableShapes, tables
  <1>7. QED
    BY <1>1, <1>3, <1>4, <1>5, <1>6 DEF IInv, Shapes

LEMMA SubmitStep ==
  ASSUME IInv, NEW w \in Workers, NEW r \in Requests, Submit(w, r)
  PROVE  IInv'
  <1>0. /\ lease = None /\ lease' = w /\ UNCHANGED <<tables, flights, answers, faults, late>>
        /\ workers' = [workers EXCEPT ![w] = [Idle EXCEPT !.pc = "inspect", !.req = r]]
    BY DEF Submit
  <1>1. WorkerShapes'
    BY <1>0 DEF IInv, Shapes, WorkerShapes, Idle
  <1>2. /\ workers'[w].pc = "inspect" /\ workers'[w].req = r
        /\ \A u \in Workers \ {w} : workers'[u] = workers[u]
    BY <1>0 DEF IInv, Shapes, WorkerShapes, Idle
  <1>3. Still
    BY <1>0 DEF Still, tables
  <1>4. Monotone /\ Records' /\ AppliedOnce' /\ Told'
    BY <1>0, <1>3, StillRecords, ToldStays DEF IInv
  <1>5. ASSUME NEW u \in Workers
        PROVE  WorkerOK(u)'
    <2>1. CASE u = w
      BY <1>0, <1>2, <2>1 DEF WorkerOK, RequestPcs, LookedPcs
    <2>2. CASE u # w
      <3>1. workers[u].pc = "idle"
        BY <1>0, RehearsalAssumption DEF IInv, Handlers, WorkerOK, RehearsalAssumption
      <3>2. QED
        BY <1>2, <2>2, <3>1, IdleOK
    <2>3. QED
      BY <2>1, <2>2
  <1>6. InFlights' /\ TableShapes' /\ Handlers'
    BY <1>0, <1>5 DEF IInv, InFlights, Shapes, TableShapes, tables, Handlers
  <1>7. QED
    BY <1>1, <1>4, <1>6 DEF IInv, Shapes

\* A settled request that is answered without the lease.
LEMMA SettledStep ==
  ASSUME IInv, NEW r \in Requests, AnswerSettled(r)
  PROVE  IInv'
  <1>0. /\ UNCHANGED <<tables, flights, lease, workers, faults, late>>
        /\ Tell(Replayed(r)) /\ Settled(r)
    BY DEF AnswerSettled
  <1>1. Still
    BY <1>0 DEF Still, tables
  <1>2. Monotone /\ Records' /\ AppliedOnce'
    BY <1>1, StillRecords DEF IInv
  <1>3. Handlers'
    BY <1>0, <1>1, <1>2, HandlersStay DEF IInv, tables
  <1>4. Told'
    <2>1. Replayed(r).code \in Final => Sound(Replayed(r))
      BY <1>0, ReplayedSound DEF IInv
    <2>2. \A a \in answers' : Sound(a)
      BY <1>0, <2>1 DEF Tell, IInv, Told
    <2>3. QED
      BY <1>2, <2>2, SoundStays DEF Told, Sound, Backed
  <1>5. InFlights' /\ Shapes'
    BY <1>0 DEF IInv, InFlights, Shapes, TableShapes, WorkerShapes, tables, BatchOK
  <1>6. QED
    BY <1>2, <1>3, <1>4, <1>5 DEF IInv

\* A control of the session: nobody has the lease.
LEMMA ControlStep ==
  ASSUME IInv, NEW phase, NEW bidder, Control(phase, bidder), order' \in BOOLEAN
  PROVE  IInv'
  <1>0. /\ lease = None /\ session'.revision = session.revision + 1
        /\ session' = [phase |-> phase, bidder |-> bidder, revision |-> session.revision + 1]
        /\ UNCHANGED <<sealed, bids, receipts, recoveries, flights, lease, workers, answers,
                       faults, late>>
    BY DEF Control
  <1>1. Monotone /\ AppliedOnce'
    BY <1>0 DEF Monotone, IInv, AppliedOnce, Applied
  <1>2. Records'
    <2>1. ASSUME NEW k \in Keys
          PROVE  ReceiptOK(k)' /\ RecoveryOK(k)'
      <3>1. receipts[k].req \in Requests => receipts[k].req.expected \in Nat
        BY RequestTypes
      <3>2. session.revision \in Nat
        BY DEF IInv, Shapes, TableShapes
      <3>3. ReceiptOK(k) /\ RecoveryOK(k)
        BY DEF IInv, Records
      <3>4. RecoveryOK(k)'
        BY <1>0, <3>3 DEF RecoveryOK, NoReceipt
      <3>5. ASSUME receipts[k].done
            PROVE  receipts[k].req.expected < session.revision + 1
        BY <3>1, <3>2, <3>3, <3>5 DEF ReceiptOK
      <3>6. ReceiptOK(k)'
        BY <1>0, <3>3, <3>5 DEF ReceiptOK, NoReceipt
      <3>7. QED
        BY <3>4, <3>6
    <2>2. QED
      BY <2>1 DEF Records
  <1>3. Told'
    BY <1>0, <1>1, ToldStays DEF IInv
  <1>4. Handlers'
    <2>1. ASSUME NEW u \in Workers
          PROVE  WorkerOK(u)'
      <3>1. workers'[u].pc = "idle"
        BY <1>0, RehearsalAssumption DEF IInv, Handlers, WorkerOK, RehearsalAssumption
      <3>2. QED
        BY <3>1, IdleOK
    <2>2. QED
      BY <2>1 DEF Handlers
  <1>5. InFlights' /\ WorkerShapes'
    BY <1>0 DEF IInv, InFlights, BatchOK, Shapes, WorkerShapes
  <1>6. TableShapes'
    BY <1>0 DEF IInv, Shapes, TableShapes
  <1>7. QED
    BY <1>1, <1>2, <1>3, <1>4, <1>5, <1>6 DEF IInv, Shapes

\* Steps that leave the receipts, the revision and the Workers alone.
LEMMA AsideStep ==
  ASSUME IInv, UNCHANGED <<order, receipts, recoveries, flights, lease, workers, answers, late>>,
         session' = [session EXCEPT !.phase = session'.phase, !.bidder = session'.bidder]
  PROVE  IInv'
  <1>1. Still
    BY DEF Still, IInv, Shapes, TableShapes
  <1>2. Monotone /\ Records' /\ AppliedOnce'
    BY <1>1, StillRecords DEF IInv
  <1>3. Told' /\ Handlers'
    BY <1>1, <1>2, ToldStays, HandlersStay DEF IInv
  <1>4. InFlights' /\ Shapes'
    BY <1>1 DEF IInv, InFlights, BatchOK, Shapes, TableShapes, WorkerShapes, Still
  <1>5. QED
    BY <1>2, <1>3, <1>4 DEF IInv

-----------------------------------------------------------------------------
(* The theorems.                                                            *)

LEMMA InitIInv == Init => IInv
  <1> SUFFICES ASSUME Init PROVE IInv
    OBVIOUS
  <1>1. session.revision \in Nat /\ order \in BOOLEAN
        /\ session = [phase |-> session.phase, bidder |-> session.bidder,
                      revision |-> session.revision]
    BY DEF Init
  <1>2. \/ receipts = [k \in Keys |-> NoReceipt]
        \/ \E r \in Requests : receipts = [k \in Keys |-> IF k = r.key THEN Receipt(r)
                                                                      ELSE NoReceipt]
    BY DEF Init, Historic
  <1>3. /\ receipts = [k \in Keys |-> receipts[k]]
        /\ \A k \in Keys : receipts[k] = NoReceipt \/ \E r \in Requests :
                              r.key = k /\ receipts[k] = Receipt(r)
    BY <1>2
  <1>4. ASSUME NEW k \in Keys
        PROVE  ReceiptOK(k) /\ ~receipts[k].done
    <2>1. CASE receipts[k] = NoReceipt
      BY <2>1 DEF ReceiptOK, NoReceipt
    <2>2. CASE \E r \in Requests : r.key = k /\ receipts[k] = Receipt(r)
      BY <2>2, RequestTypes DEF ReceiptOK, Receipt
    <2>3. QED
      BY <1>3, <2>1, <2>2
  <1>5. recoveries = [k \in Keys |-> None]
    BY DEF Init
  <1>6. Records
    BY <1>4, <1>5 DEF Records, RecoveryOK
  <1>7. \A w \in Workers : workers[w] = Idle
    BY DEF Init
  <1>8. Handlers
    BY <1>7 DEF Handlers, WorkerOK, Idle, RequestPcs, LookedPcs
  <1>9. WorkerShapes /\ TableShapes
    BY <1>1, <1>3, <1>5 DEF Init, WorkerShapes, TableShapes, Idle
  <1>10. InFlights /\ Told /\ AppliedOnce
    BY <1>4 DEF Init, InFlights, Told, AppliedOnce, Applied
  <1>11. QED
    BY <1>6, <1>8, <1>9, <1>10 DEF IInv, Shapes

LEMMA StepIInv == IInv /\ [Next]_vars => IInv'
  <1> SUFFICES ASSUME IInv, [Next]_vars PROVE IInv'
    OBVIOUS
  <1>1. CASE UNCHANGED vars
    BY <1>1, AsideStep DEF vars, IInv, Shapes, TableShapes
  <1>2. CASE \E r \in Requests : AnswerSettled(r)
    BY <1>2, SettledStep
  <1>3. CASE \E w \in Workers, r \in Requests : Submit(w, r)
    BY <1>3, SubmitStep
  <1>4. ASSUME NEW w \in Workers,
               \/ InspectAgain(w) \/ Check(w) \/ Recover(w) \/ Plan(w)
               \/ Commit(w) \/ CommitUnheard(w) \/ Abort(w) \/ CallFails(w)
               \/ Recheck(w) \/ Verify(w) \/ Release(w) \/ ReleaseFails(w) \/ Crash(w)
        PROVE  IInv'
    BY <1>4, InspectStep, CheckStep, RecoverStep, PlanStep, CommitStep, CommitUnheardStep,
       AbortStep, CallFailsStep, RecheckStep, VerifyStep, ReleaseStep, CrashStep
  <1>5. CASE \E b \in flights : LateBatch(b)
    BY <1>5, LateBatchStep
  <1>6. CASE Start \/ Pause \/ DayEnd \/ Resume
    <2>1. order' \in BOOLEAN
      BY <1>6 DEF Start, Pause, DayEnd, Resume, IInv, Shapes, TableShapes
    <2>2. \E phase, bidder : Control(phase, bidder)
      BY <1>6 DEF Start, Pause, DayEnd, Resume
    <2>3. QED
      BY <2>1, <2>2, ControlStep
  <1>7. CASE CloseMock
    BY <1>7, AsideStep DEF CloseMock, IInv, Shapes, TableShapes
  <1>8. CASE Seal
    BY <1>8, AsideStep DEF Seal, IInv, Shapes, TableShapes
  <1>9. QED
    BY <1>1, <1>2, <1>3, <1>4, <1>5, <1>6, <1>7, <1>8 DEF Next

\* In every reachable state the invariant holds.
LEMMA Invariance == Spec => []IInv
  <1>1. QED
    BY InitIInv, StepIInv, PTL DEF Spec

\* What clients were told is on record, and is what a retry is told.
THEOREM AnswersOnReceipt == Spec => [](\A a \in answers : Backed(a))
  <1>1. IInv => \A a \in answers : Backed(a)
    BY DEF IInv, Told, Sound
  <1>2. QED
    BY <1>1, Invariance, PTL

\* One reviewed revision carries one applied command, unless D1 has executed a
\* batch that nobody waited for.
THEOREM OneApplied == Spec => []AppliedOnce
  <1>1. IInv => AppliedOnce
    BY DEF IInv
  <1>2. QED
    BY <1>1, Invariance, PTL

\* What a step does to the tables: a batch, a recovery, another writer, or nothing.
LEMMA TableKinds ==
  ASSUME IInv, [Next]_vars
  PROVE  \/ UNCHANGED tables
         \/ \E b : BatchOK(b) /\ Execute(b)
         \/ \E w \in Workers : Recover(w)
         \/ ~sealed /\ UNCHANGED <<receipts, recoveries>>
  <1>1. CASE UNCHANGED vars
    BY <1>1 DEF vars, tables
  <1>2. ASSUME NEW w \in Workers, Commit(w) \/ CommitUnheard(w)
        PROVE  \E b : BatchOK(b) /\ Execute(b)
    BY <1>2, SentFacts DEF Commit, CommitUnheard
  <1>3. ASSUME NEW w \in Workers, Crash(w)
        PROVE  UNCHANGED tables \/ \E b : BatchOK(b) /\ Execute(b)
    BY <1>3, SentFacts DEF Crash
  <1>4. ASSUME NEW b \in flights, LateBatch(b)
        PROVE  UNCHANGED tables \/ \E c : BatchOK(c) /\ Execute(c)
    BY <1>4 DEF LateBatch, IInv, InFlights, tables
  <1>5. ASSUME NEW w \in Workers,
               \/ InspectAgain(w) \/ Check(w) \/ Plan(w) \/ Abort(w) \/ CallFails(w)
               \/ Recheck(w) \/ Verify(w) \/ Release(w) \/ ReleaseFails(w)
        PROVE  UNCHANGED tables
    BY <1>5 DEF InspectAgain, Check, Plan, Abort, CallFails, Recheck, Verify, Release,
                ReleaseFails
  <1>6. CASE \/ \E r \in Requests : AnswerSettled(r)
             \/ \E w \in Workers, r \in Requests : Submit(w, r)
    BY <1>6 DEF AnswerSettled, Submit
  <1>7. CASE Start \/ Pause \/ DayEnd \/ Resume \/ CloseMock \/ Seal
    BY <1>7 DEF Start, Pause, DayEnd, Resume, CloseMock, Seal, Control
  <1>8. QED
    BY <1>1, <1>2, <1>3, <1>4, <1>5, <1>6, <1>7 DEF Next

\* A batch finds canonical state: it inserts nothing and advances nothing.
LEMMA SealedBatch ==
  ASSUME Shapes, NEW b, Execute(b), sealed
  PROVE  UNCHANGED <<session, order, bids, sealed>>
  <1>1. b.bids = {} /\ ~b.seed /\ ~Advances(b)
    BY DEF Execute, BatchAllowed, Advances
  <1>2. (order \/ b.seed) = order
    BY <1>1 DEF Shapes, TableShapes
  <1>3. QED
    BY <1>1, <1>2 DEF Execute

\* Once canonical state exists no command, control or late batch changes the
\* session, its order or its bids.
THEOREM SealedStays == Spec => SealedForGood
  <1>1. IInv /\ [Next]_vars => [sealed => UNCHANGED <<session, order, bids, sealed>>]_vars
    <2> SUFFICES ASSUME IInv, [Next]_vars, sealed
                 PROVE  UNCHANGED <<session, order, bids, sealed>>
      OBVIOUS
    <2>1. ASSUME NEW b, BatchOK(b), Execute(b)
          PROVE  UNCHANGED <<session, order, bids, sealed>>
      BY <2>1, SealedBatch DEF IInv
    <2>2. QED
      BY <2>1, TableKinds DEF tables, Recover
  <1>2. QED
    BY <1>1, Invariance, PTL DEF Spec, SealedForGood

\* Completed receipts and recorded recoveries are final.
THEOREM RecordsStay == Spec => RecordsFinal
  <1>1. IInv /\ [Next]_vars
        => [\A k \in Keys :
              /\ receipts[k].done => receipts'[k] = receipts[k]
              /\ recoveries[k] # None => recoveries'[k] = recoveries[k]]_vars
    <2> SUFFICES ASSUME IInv, [Next]_vars, NEW k \in Keys
                 PROVE  /\ receipts[k].done => receipts'[k] = receipts[k]
                        /\ recoveries[k] # None => recoveries'[k] = recoveries[k]
      OBVIOUS
    <2>1. ASSUME NEW b, BatchOK(b), Execute(b)
          PROVE  /\ receipts[k].done => receipts'[k] = receipts[k]
                 /\ UNCHANGED recoveries
      BY <2>1, ExecutedReceipts DEF IInv
    <2>2. ASSUME NEW w \in Workers, Recover(w)
          PROVE  /\ receipts[k].done => receipts'[k] = receipts[k]
                 /\ recoveries[k] # None => recoveries'[k] = recoveries[k]
      <3>1. Inspected(workers[w].req) = "pending" \/ UNCHANGED <<receipts, recoveries>>
        BY <2>2 DEF Recover
      <3>2. CASE Inspected(workers[w].req) = "pending"
        BY <2>2, <3>2 DEF Recover, Inspected, IInv, Shapes, TableShapes
      <3>3. QED
        BY <3>1, <3>2
    <2>3. QED
      BY <2>1, <2>2, TableKinds DEF tables
  <1>2. QED
    BY <1>1, Invariance, PTL DEF Spec, RecordsFinal

-----------------------------------------------------------------------------
(***************************************************************************)
(* The plan of an auto-bid.  It is a recursive function of the round, so   *)
(* what is said of it needs induction: Induct derives the principle, for   *)
(* sets of numbers, from the well-foundedness of < on Nat.                 *)
(***************************************************************************)
LEMMA MinExists ==
  ASSUME NEW T, T \subseteq Nat, T # {}
  PROVE  \E x \in T : \A y \in T : x <= y
  <1>1. IsWellFoundedOn(OpToRel(<, Nat), Nat)
    BY NatLessThanWellFounded, Zenon
  <1>2. PICK x \in T : \A y \in T : ~ (<<y, x>> \in OpToRel(<, Nat))
    BY <1>1, WFMin
  <1>3. ASSUME NEW y \in T, y < x
        PROVE  <<y, x>> \in OpToRel(<, Nat)
    BY <1>3 DEF OpToRel
  <1>4. \A y \in T : ~(y < x)
    BY <1>2, <1>3, Zenon
  <1>5. QED
    BY <1>4

LEMMA Induct ==
  ASSUME NEW S, 0 \in S, \A n \in Nat : n \in S => n + 1 \in S
  PROVE  Nat \subseteq S
  <1> DEFINE T == Nat \ S
  <1> SUFFICES ASSUME T # {} PROVE FALSE
    OBVIOUS
  <1>1. PICK x \in T : \A y \in T : x <= y
    <2>1. T \subseteq Nat
      OBVIOUS
    <2> HIDE DEF T
    <2>2. QED
      BY <2>1, MinExists
  <1>2. x # 0 /\ x - 1 \in Nat
    BY SMT
  <1>3. x - 1 \in T
    BY <1>2
  <1>4. QED
    BY <1>1, <1>2, <1>3

Begin(seen) ==
  [bidder |-> IF Bootstrapped(seen) THEN Order[1] ELSE seen.bidder,
   phase  |-> IF Bootstrapped(seen) THEN "position_bid" ELSE seen.phase,
   bids   |-> {}, misses |-> 0, over |-> FALSE]

\* f gives the plan after each of the first n rounds.
Rounds(r, seen, n, f) ==
  f = [i \in 0 .. n |-> IF i = 0 THEN Begin(seen) ELSE Round(r, f[i - 1], i - 1)]

LEMMA PlanRounds ==
  ASSUME NEW r, r.count \in Nat, NEW seen
  PROVE  \E f : Rounds(r, seen, r.count, f) /\ AutoPlan(r, seen) = f[r.count]
  <1> DEFINE S == {n \in Nat : \E f : Rounds(r, seen, n, f)}
  <1>1. 0 \in S
    <2> DEFINE f == [i \in 0 .. 0 |-> Begin(seen)]
    <2>1. Rounds(r, seen, 0, f)
      BY DEF Rounds
    <2>2. QED
      BY <2>1
  <1>2. ASSUME NEW n \in Nat, n \in S
        PROVE  n + 1 \in S
    <2>1. PICK f : Rounds(r, seen, n, f)
      BY <1>2
    <2> DEFINE g == [i \in 0 .. n + 1 |-> IF i = n + 1 THEN Round(r, f[n], n) ELSE f[i]]
    <2>2. Rounds(r, seen, n + 1, g)
      BY <2>1 DEF Rounds
    <2>3. QED
      BY <2>2
  <1>3. Nat \subseteq S
    <2> HIDE DEF S
    <2>1. QED
      BY <1>1, <1>2, Induct
  <1>4. \E f : Rounds(r, seen, r.count, f)
    BY <1>3
  <1> DEFINE f == CHOOSE f : Rounds(r, seen, r.count, f)
  <1>5. Rounds(r, seen, r.count, f)
    BY <1>4
  <1>6. AutoPlan(r, seen) = f[r.count]
    BY DEF AutoPlan, Rounds, Begin
  <1>7. QED
    BY <1>5, <1>6

\* The position that auto-bid picks is free.
LEMMA FirstFree ==
  ASSUME NEW m, NEW taken, Open(m, taken) # {}
  PROVE  First(m, taken) \notin taken
  <1>1. Open(m, taken) \subseteq Nat
    BY ArrayAssumption DEF Open
  <1>2. \E i \in Open(m, taken) : \A j \in Open(m, taken) : i <= j
    BY <1>1, MinExists
  <1>3. QED
    BY <1>2 DEF First, Open

\* The bids of a plan are those of its request, with their audit rows, each for
\* another position that is free.
Proper(r, new) ==
  /\ \A x \in new : x.id[1] = Fingerprint(r) /\ x.audited /\ x.seat \notin Taken
  /\ \A x, y \in new : x.seat = y.seat => x = y

LEMMA RoundProper ==
  ASSUME NEW r, NEW plan, NEW i, Proper(r, plan.bids)
  PROVE  Proper(r, Round(r, plan, i).bids)
  <1> DEFINE m == plan.bidder
             taken == Taken \cup {b.seat : b \in plan.bids}
             new == BidOf(r, i, m, First(m, taken), TRUE)
  <1>1. CASE ~plan.over /\ m # None /\ Open(m, taken) # {}
    <2>1. new.id[1] = Fingerprint(r) /\ new.audited /\ new.seat = First(m, taken)
      BY DEF BidOf
    <2>2. First(m, taken) \notin taken
      <3> HIDE DEF m, taken
      <3>1. QED
        BY <1>1, FirstFree
    <2>3. Round(r, plan, i).bids
            = [plan EXCEPT !.misses = 0, !.bids = @ \cup {new}, !.bidder = After(m),
                           !.over = After(m) = None,
                           !.phase = IF After(m) = None THEN "complete" ELSE @].bids
      BY <1>1 DEF Round
    <2>4. Round(r, plan, i).bids \subseteq plan.bids \cup {new}
      <3> HIDE DEF m, new
      <3>1. QED
        BY <2>3
    <2> HIDE DEF new
    <2>5. QED
      BY <2>1, <2>2, <2>4 DEF Proper
  <1>2. CASE ~(~plan.over /\ m # None /\ Open(m, taken) # {})
    <2>1. Round(r, plan, i).bids = plan.bids
      BY <1>2 DEF Round
    <2>2. QED
      BY <2>1
  <1>3. QED
    BY <1>1, <1>2

LEMMA AutoProper ==
  ASSUME NEW r \in Requests, NEW seen
  PROVE  Proper(r, AutoPlan(r, seen).bids)
  <1>1. r.count \in Nat
    BY RehearsalAssumption DEF RequestShape
  <1>2. PICK f : Rounds(r, seen, r.count, f) /\ AutoPlan(r, seen) = f[r.count]
    BY <1>1, PlanRounds
  <1> DEFINE S == {n \in Nat : n <= r.count => Proper(r, f[n].bids)}
  <1>3. 0 \in S
    BY <1>1, <1>2 DEF Rounds, Begin, Proper
  <1>4. ASSUME NEW n \in Nat, n \in S
        PROVE  n + 1 \in S
    <2>1. SUFFICES ASSUME n + 1 <= r.count PROVE Proper(r, f[n + 1].bids)
      OBVIOUS
    <2>2. f[n + 1] = Round(r, f[n], n)
      BY <1>1, <1>2, <2>1 DEF Rounds
    <2>3. Proper(r, f[n].bids)
      BY <1>1, <1>4, <2>1
    <2>4. QED
      BY <2>2, <2>3, RoundProper
  <1>5. Nat \subseteq S
    <2> HIDE DEF S
    <2>1. QED
      BY <1>3, <1>4, Induct
  <1>6. QED
    BY <1>1, <1>2, <1>5

LEMMA BatchProper ==
  ASSUME NEW r \in Requests, NEW kind, NEW seen, r.op = "manual_pick" => r.seat \notin Taken
  PROVE  /\ Proper(r, BatchOf(r, kind, seen).bids)
         /\ BatchOf(r, kind, seen).req = r
         /\ BatchOf(r, kind, seen).answer.picked = BatchOf(r, kind, seen).bids
  <1>1. CASE r.op = "auto_bid"
    BY <1>1, AutoProper DEF BatchOf, Answer
  <1>2. CASE r.op # "auto_bid"
    <2>1. r.op = "manual_pick"
      BY <1>2, RehearsalAssumption DEF RequestShape
    <2>2. ManualPlan(r, seen).bids = {BidOf(r, 0, r.member, r.seat, TRUE)}
      BY DEF ManualPlan
    <2>3. Proper(r, {BidOf(r, 0, r.member, r.seat, TRUE)})
      BY <2>1 DEF BidOf, Proper
    <2>4. QED
      BY <1>2, <2>2, <2>3 DEF BatchOf, Answer
  <1>3. QED
    BY <1>1, <1>2

-----------------------------------------------------------------------------
(***************************************************************************)
(* What was told of the bids.  An answer reports bids that are there, and  *)
(* bids never go away, so it stays true whatever is executed later.        *)
(***************************************************************************)
Picked(bs, a) == \A x \in a.picked : x \in bs /\ x.id[1] = Fingerprint(a.req)

Owned(b) == \A x \in b.bids : x.id[1] = Fingerprint(b.req)

WorkerPicked(w) ==
  LET k == workers[w]
  IN /\ k.pc \in {"sent", "verify"} => Owned(k.batch)
     /\ k.pc = "verify" => k.batch.bids \subseteq bids
     /\ k.pc = "release" /\ k.answer.code \in Final => Picked(bids, k.answer)

RecordPicked(k) ==
  /\ receipts[k].done => Picked(bids, receipts[k].answer)
  /\ recoveries[k] # None => recoveries[k].picked = {}

PickedInv ==
  /\ \A k \in Keys : RecordPicked(k)
  /\ \A b \in flights : Owned(b)
  /\ \A w \in Workers : WorkerPicked(w)
  /\ \A a \in answers : Picked(bids, a)

LEMMA PickedStays ==
  ASSUME NEW old, NEW new, old \subseteq new, NEW a, Picked(old, a)
  PROVE  Picked(new, a)
  BY DEF Picked

\* Bids are only added.
LEMMA BidsGrow ==
  ASSUME IInv, [Next]_vars
  PROVE  bids \subseteq bids'
  <1>1. ASSUME NEW b, Execute(b)
        PROVE  bids \subseteq bids'
    BY <1>1 DEF Execute
  <1>2. UNCHANGED bids \/ \E b : Execute(b)
    BY DEF Next, vars, tables, AnswerSettled, Submit, InspectAgain, Check, Recover, Plan, Commit,
           CommitUnheard, Abort, CallFails, Recheck, Verify, Release, ReleaseFails, Crash,
           LateBatch, Start, Pause, DayEnd, Resume, Control, CloseMock, Seal
  <1>3. QED
    BY <1>1, <1>2

LEMMA ExecutedPicked ==
  ASSUME IInv, NEW b, BatchOK(b), Owned(b), Execute(b), \A k \in Keys : RecordPicked(k)
  PROVE  (\A k \in Keys : RecordPicked(k)') /\ b.bids \subseteq bids'
  <1>1. bids' = bids \cup b.bids /\ b.answer.req = b.req /\ b.answer.picked = b.bids
    BY DEF Execute, BatchOK, Answer
  <1>2. Picked(bids', b.answer)
    BY <1>1 DEF Owned, Picked
  <1>3. ASSUME NEW k \in Keys
        PROVE  RecordPicked(k)'
    <2>1. recoveries'[k] = recoveries[k]
      BY DEF Execute
    <2>2. CASE receipts'[k] = receipts[k]
      BY <1>1, <2>1, <2>2, PickedStays DEF RecordPicked
    <2>3. CASE receipts'[k] = Completed(b.req, b.answer)
      <3>1. receipts'[k].answer = b.answer
        BY <2>3 DEF Completed
      <3>2. QED
        BY <1>2, <2>1, <3>1 DEF RecordPicked
    <2>4. receipts'[k] = receipts[k] \/ receipts'[k] = Completed(b.req, b.answer)
      BY ExecutedReceipts DEF IInv
    <2>5. QED
      BY <2>2, <2>3, <2>4
  <1>4. QED
    BY <1>1, <1>3

\* The records after any step
LEMMA RecordsPicked ==
  ASSUME IInv, PickedInv, [Next]_vars
  PROVE  \A k \in Keys : RecordPicked(k)'
  <1>1. ASSUME NEW b, Execute(b), BatchOK(b), Owned(b)
        PROVE  \A k \in Keys : RecordPicked(k)'
    BY <1>1, ExecutedPicked DEF PickedInv
  <1>2. ASSUME UNCHANGED <<receipts, recoveries>>
        PROVE  \A k \in Keys : RecordPicked(k)'
    BY <1>2, BidsGrow, PickedStays DEF RecordPicked, PickedInv
  <1>3. ASSUME NEW w \in Workers, Recover(w)
        PROVE  \A k \in Keys : RecordPicked(k)'
    <2> DEFINE r == workers[w].req
               done == Answer(r, "recovered", BidsOf(r))
               lost == Refusal(r, "rehearsal_command_recovery_required")
    <2>1. /\ \/ UNCHANGED receipts
             \/ receipts' = [receipts EXCEPT ![r.key] = Completed(r, done)]
          /\ \/ UNCHANGED recoveries
             \/ recoveries' = [recoveries EXCEPT ![r.key] = lost]
          /\ UNCHANGED bids
      BY <1>3 DEF Recover
    <2>2. Picked(bids, done) /\ lost.picked = {} /\ Completed(r, done).answer = done
      BY DEF Answer, Refusal, Completed, Picked, BidsOf
    <2> HIDE DEF r, done, lost
    <2>3. ASSUME NEW k \in Keys
          PROVE  RecordPicked(k)'
      <3>1. receipts'[k] = receipts[k] \/ receipts'[k] = Completed(r, done)
        BY <2>1 DEF IInv, Shapes, TableShapes
      <3>2. recoveries'[k] = recoveries[k] \/ recoveries'[k] = lost
        BY <2>1 DEF IInv, Shapes, TableShapes
      <3>3. QED
        BY <2>1, <2>2, <3>1, <3>2 DEF PickedInv, RecordPicked
    <2>4. QED
      BY <2>3
  <1>4. \/ UNCHANGED <<receipts, recoveries>>
        \/ \E b : Execute(b) /\ BatchOK(b) /\ Owned(b)
        \/ \E w \in Workers : Recover(w)
    <2>1. ASSUME NEW w \in Workers, workers[w].pc = "sent"
          PROVE  BatchOK(workers[w].batch) /\ Owned(workers[w].batch)
      BY <2>1, SentFacts DEF PickedInv, WorkerPicked
    <2>2. \A b \in flights : BatchOK(b) /\ Owned(b)
      BY DEF IInv, InFlights, PickedInv
    <2>3. QED
      BY <2>1, <2>2
         DEF Next, vars, tables, AnswerSettled, Submit, InspectAgain, Check, Plan, Commit,
             CommitUnheard, Abort, CallFails, Recheck, Verify, Release, ReleaseFails, Crash,
             LateBatch, Start, Pause, DayEnd, Resume, Control, CloseMock, Seal
  <1>5. QED
    BY <1>1, <1>2, <1>3, <1>4

LEMMA ReplayedPicked ==
  ASSUME IInv, PickedInv, NEW r \in Requests, Settled(r), Replayed(r).code \in Final
  PROVE  Picked(bids, Replayed(r))
  <1>1. r.key \in Keys
    BY RequestTypes
  <1>2. CASE Inspected(r) = "conflict"
    BY <1>2 DEF Inspected, Replayed, Refusal, Answer, Final
  <1>3. CASE Inspected(r) = "replay"
    BY <1>1, <1>3 DEF Inspected, Replayed, PickedInv, RecordPicked, Picked
  <1>4. QED
    BY <1>2, <1>3 DEF Settled

LEMMA WorkerStays ==
  ASSUME NEW w \in Workers, WorkerPicked(w), workers'[w] = workers[w], bids \subseteq bids'
  PROVE  WorkerPicked(w)'
  BY PickedStays DEF WorkerPicked

LEMMA WorkerElsewhere ==
  ASSUME NEW w \in Workers, workers'[w].pc \notin {"sent", "verify", "release"}
  PROVE  WorkerPicked(w)'
  BY DEF WorkerPicked

LEMMA LeavePicked ==
  ASSUME Shapes, NEW w \in Workers, NEW a, Leave(w, a), a.code \in Final => Picked(bids', a)
  PROVE  /\ WorkerPicked(w)'
         /\ \A u \in Workers \ {w} : workers'[u] = workers[u]
  <1>1. /\ workers'[w].pc = "release" /\ workers'[w].answer = a
        /\ \A u \in Workers \ {w} : workers'[u] = workers[u]
    BY DEF Leave, Shapes, WorkerShapes, Idle
  <1>2. QED
    BY <1>1 DEF WorkerPicked

\* The steps of a Worker
LEMMA WorkersPicked ==
  ASSUME IInv, PickedInv, bids \subseteq bids', NEW w \in Workers,
         \/ InspectAgain(w) \/ Check(w) \/ Recover(w) \/ Plan(w)
         \/ Commit(w) \/ CommitUnheard(w) \/ Abort(w) \/ CallFails(w)
         \/ Recheck(w) \/ Verify(w) \/ Release(w) \/ ReleaseFails(w) \/ Crash(w)
  PROVE  WorkerPicked(w)' /\ \A u \in Workers \ {w} : workers'[u] = workers[u]
  <1> DEFINE r == workers[w].req
  <1>1. Shapes /\ (workers[w].pc \in RequestPcs => r \in Requests)
    BY DEF IInv, Handlers, WorkerOK
  <1>2. ASSUME NEW a, Leave(w, a), a.code \notin Final \/ Picked(bids, a)
        PROVE  WorkerPicked(w)' /\ \A u \in Workers \ {w} : workers'[u] = workers[u]
    BY <1>1, <1>2, PickedStays, LeavePicked
  <1>3. ASSUME NEW code, code \notin Final, Leave(w, Refusal(r, code))
        PROVE  WorkerPicked(w)' /\ \A u \in Workers \ {w} : workers'[u] = workers[u]
    BY <1>2, <1>3 DEF Refusal, Answer
  <1>4. ASSUME workers'[w].pc \notin {"sent", "verify", "release"},
               \A u \in Workers \ {w} : workers'[u] = workers[u]
        PROVE  WorkerPicked(w)' /\ \A u \in Workers \ {w} : workers'[u] = workers[u]
    BY <1>4, WorkerElsewhere
  <1>5. ASSUME NEW pc, pc \notin {"sent", "verify", "release"}, Goto(w, pc)
        PROVE  WorkerPicked(w)' /\ \A u \in Workers \ {w} : workers'[u] = workers[u]
    <2>1. workers'[w].pc = pc /\ \A u \in Workers \ {w} : workers'[u] = workers[u]
      BY <1>1, <1>5 DEF Goto, Shapes, WorkerShapes
    <2>2. QED
      BY <1>4, <1>5, <2>1
  <1>6. CASE InspectAgain(w)
    <2>1. workers[w].pc \in RequestPcs
      BY <1>6 DEF InspectAgain, RequestPcs
    <2>2. CASE Settled(r)
      BY <1>1, <1>2, <1>6, <2>1, <2>2, ReplayedPicked DEF InspectAgain
    <2>3. CASE ~Settled(r)
      <3>1. workers'[w].pc = "check" /\ \A u \in Workers \ {w} : workers'[u] = workers[u]
        BY <1>1, <1>6, <2>3 DEF InspectAgain, Shapes, WorkerShapes
      <3>2. QED
        BY <1>4, <3>1
    <2>4. QED
      BY <2>2, <2>3
  <1>7. CASE Check(w)
    <2>1. \/ \E code \in {"canonical_mutation_requires_command", "stale_mock_control_revision",
                          "complete"} : Leave(w, Refusal(r, code))
          \/ Goto(w, "recover")
          \/ workers' = [workers EXCEPT ![w].pc = "plan", ![w].seen = session]
      BY <1>7 DEF Check
    <2>2. CASE workers' = [workers EXCEPT ![w].pc = "plan", ![w].seen = session]
      <3>1. workers'[w].pc = "plan" /\ \A u \in Workers \ {w} : workers'[u] = workers[u]
        BY <1>1, <2>2 DEF Shapes, WorkerShapes
      <3>2. QED
        BY <1>4, <3>1
    <2>3. QED
      BY <1>3, <1>5, <2>1, <2>2 DEF Final
  <1>8. CASE Recover(w)
    <2> DEFINE done == Answer(r, "recovered", BidsOf(r))
               lost == Refusal(r, "rehearsal_command_recovery_required")
    <2>1. \/ \E code \in {"stale_mock_control_revision", "uncaught"} : Leave(w, Refusal(r, code))
          \/ Leave(w, done) \/ Leave(w, lost)
      BY <1>8 DEF Recover
    <2>2. Picked(bids, done) /\ Picked(bids, lost)
      BY DEF Answer, Refusal, Picked, BidsOf
    <2>3. QED
      BY <1>2, <1>3, <2>1, <2>2 DEF Final
  <1>9. CASE Plan(w)
    <2>1. CASE Leave(w, Refusal(r, "position_already_filled"))
      BY <1>3, <2>1 DEF Final
    <2>2. CASE ~Leave(w, Refusal(r, "position_already_filled"))
      <3> DEFINE b == BatchOf(r, workers[w].kind, workers[w].seen)
      <3>1. /\ r \in Requests /\ (r.op = "manual_pick" => r.seat \notin Taken)
            /\ workers' = [workers EXCEPT ![w].pc = "sent", ![w].seen = None, ![w].batch = b]
        BY <1>1, <1>9, <2>2 DEF Plan, RequestPcs
      <3>2. Owned(b)
        BY <3>1, BatchProper DEF Proper, Owned
      <3> HIDE DEF b
      <3>3. /\ workers'[w].pc = "sent" /\ workers'[w].batch = b
            /\ \A u \in Workers \ {w} : workers'[u] = workers[u]
        BY <1>1, <3>1 DEF Shapes, WorkerShapes
      <3>4. QED
        BY <3>2, <3>3 DEF WorkerPicked
    <2>3. QED
      BY <2>1, <2>2
  <1>10. CASE Commit(w)
    <2>1. Owned(workers[w].batch) /\ BatchOK(workers[w].batch) /\ Execute(workers[w].batch)
      BY <1>10, SentFacts DEF Commit, PickedInv, WorkerPicked
    <2>2. workers[w].batch.bids \subseteq bids'
      BY <2>1, ExecutedPicked DEF PickedInv
    <2>3. /\ workers'[w].pc = "verify" /\ workers'[w].batch = workers[w].batch
          /\ \A u \in Workers \ {w} : workers'[u] = workers[u]
      BY <1>1, <1>10 DEF Commit, Goto, Shapes, WorkerShapes
    <2>4. QED
      BY <2>1, <2>2, <2>3 DEF WorkerPicked
  <1>11. CASE CommitUnheard(w) \/ Abort(w) \/ CallFails(w)
    BY <1>5, <1>11 DEF CommitUnheard, Abort, CallFails
  <1>12. CASE Recheck(w)
    <2>1. workers[w].pc \in RequestPcs
      BY <1>12 DEF Recheck, RequestPcs
    <2>2. CASE Inspected(r) = "replay"
      BY <1>1, <1>2, <1>12, <2>1, <2>2, ReplayedPicked DEF Recheck, Settled
    <2>3. CASE Inspected(r) # "replay"
      BY <1>3, <1>12, <2>3 DEF Recheck, Final
    <2>4. QED
      BY <2>2, <2>3
  <1>13. CASE Verify(w)
    <2> DEFINE b == workers[w].batch
    <2>1. /\ workers[w].pc = "verify" /\ Owned(b) /\ b.bids \subseteq bids
          /\ b.answer = Answer(b.req, "applied", b.bids)
      BY <1>13 DEF Verify, PickedInv, WorkerPicked, IInv, Handlers, WorkerOK, BatchOK
    <2>2. b.answer.req = b.req /\ b.answer.picked = b.bids
      BY <2>1 DEF Answer
    <2>3. Picked(bids, b.answer)
      BY <2>1, <2>2 DEF Picked, Owned
    <2>4. QED
      BY <1>2, <1>3, <1>13, <2>3 DEF Verify, Final
  <1>14. CASE Release(w) \/ ReleaseFails(w) \/ Crash(w)
    <2>1. workers'[w].pc = "idle" /\ \A u \in Workers \ {w} : workers'[u] = workers[u]
      BY <1>1, <1>14 DEF Release, ReleaseFails, Crash, Shapes, WorkerShapes, Idle
    <2>2. QED
      BY <1>4, <2>1
  <1>15. QED
    BY <1>6, <1>7, <1>8, <1>9, <1>10, <1>11, <1>12, <1>13, <1>14

LEMMA PickedStep ==
  ASSUME IInv, PickedInv, [Next]_vars
  PROVE  PickedInv'
  <1>1. bids \subseteq bids' /\ \A k \in Keys : RecordPicked(k)'
    BY BidsGrow, RecordsPicked
  <1>2. \A b \in flights' : Owned(b)
    <2>1. ASSUME NEW w \in Workers, workers[w].pc = "sent"
          PROVE  Owned(workers[w].batch)
      BY <2>1 DEF PickedInv, WorkerPicked
    <2>2. \A b \in flights' \ flights : \E w \in Workers :
             workers[w].pc = "sent" /\ b = workers[w].batch
      BY DEF Next, vars, tables, AnswerSettled, Submit, InspectAgain, Check, Recover, Plan,
             Commit, CommitUnheard, Abort, CallFails, Recheck, Verify, Release, ReleaseFails,
             Crash, LateBatch, Start, Pause, DayEnd, Resume, Control, CloseMock, Seal, InFlight
    <2>3. QED
      BY <2>1, <2>2 DEF PickedInv
  <1>3. \A w \in Workers : WorkerPicked(w)'
    <2>1. CASE UNCHANGED workers
      BY <1>1, <2>1, WorkerStays DEF PickedInv
    <2>2. ASSUME NEW w \in Workers,
                 WorkerPicked(w)' /\ \A u \in Workers \ {w} : workers'[u] = workers[u]
          PROVE  \A u \in Workers : WorkerPicked(u)'
      BY <1>1, <2>2, WorkerStays DEF PickedInv
    <2>3. ASSUME NEW w \in Workers, NEW r \in Requests, Submit(w, r)
          PROVE  \A u \in Workers : WorkerPicked(u)'
      <3>1. workers'[w].pc = "inspect" /\ \A u \in Workers \ {w} : workers'[u] = workers[u]
        BY <2>3 DEF Submit, IInv, Shapes, WorkerShapes, Idle
      <3>2. QED
        BY <2>2, <3>1, WorkerElsewhere
    <2>4. \/ UNCHANGED workers
          \/ \E w \in Workers, r \in Requests : Submit(w, r)
          \/ \E w \in Workers :
               \/ InspectAgain(w) \/ Check(w) \/ Recover(w) \/ Plan(w)
               \/ Commit(w) \/ CommitUnheard(w) \/ Abort(w) \/ CallFails(w)
               \/ Recheck(w) \/ Verify(w) \/ Release(w) \/ ReleaseFails(w) \/ Crash(w)
      BY DEF Next, vars, AnswerSettled, LateBatch, Start, Pause, DayEnd, Resume, Control,
             CloseMock, Seal
    <2>5. QED
      BY <1>1, <2>1, <2>2, <2>3, <2>4, WorkersPicked
  <1>4. \A a \in answers' : Picked(bids', a)
    <2>1. \A a \in answers' \ answers : Picked(bids, a)
      <3>1. ASSUME NEW w \in Workers, Release(w)
            PROVE  \A a \in answers' \ answers : Picked(bids, a)
        BY <3>1 DEF Release, Tell, PickedInv, WorkerPicked
      <3>2. ASSUME NEW r \in Requests, AnswerSettled(r)
            PROVE  \A a \in answers' \ answers : Picked(bids, a)
        BY <3>2, ReplayedPicked DEF AnswerSettled, Tell
      <3>3. \/ UNCHANGED answers \/ (\E w \in Workers : Release(w))
            \/ \E r \in Requests : AnswerSettled(r)
        BY DEF Next, vars, Submit, InspectAgain, Check, Recover, Plan, Commit, CommitUnheard,
               Abort, CallFails, Recheck, Verify, ReleaseFails, Crash, LateBatch, Start, Pause,
               DayEnd, Resume, Control, CloseMock, Seal
      <3>4. QED
        BY <3>1, <3>2, <3>3
    <2>2. QED
      BY <1>1, <2>1, PickedStays DEF PickedInv
  <1>5. QED
    BY <1>1, <1>2, <1>3, <1>4 DEF PickedInv

LEMMA InitPicked == Init => PickedInv
  <1> SUFFICES ASSUME Init PROVE PickedInv
    OBVIOUS
  <1>1. IInv
    BY InitIInv
  <1>2. \A k \in Keys : ~receipts[k].done
    <2>1. \A r : ~NoReceipt.done /\ ~Receipt(r).done
      BY DEF NoReceipt, Receipt
    <2>2. QED
      BY <2>1 DEF Init, Historic
  <1>3. \A w \in Workers : workers[w].pc = "idle"
    BY DEF Init, Idle
  <1>4. QED
    BY <1>2, <1>3 DEF Init, PickedInv, RecordPicked, WorkerPicked

LEMMA PickedAlways == Spec => [](IInv /\ PickedInv)
  <1>1. IInv /\ PickedInv /\ [Next]_vars => PickedInv'
    BY PickedStep
  <1>2. QED
    BY <1>1, InitPicked, Invariance, PTL DEF Spec

\* A client that was told that its command is applied, or was recovered, finds
\* the receipt and every bid it was told of, whatever D1 executed late; one that
\* was told that the command cannot be reconstructed finds that on record.
THEOREM AnswersStayTrue == Spec => []AnswersTrue
  <1>1. IInv /\ PickedInv => AnswersTrue
    BY DEF IInv, Told, Sound, PickedInv, Picked, AnswersTrue, BidsOf
  <1>2. QED
    BY <1>1, PickedAlways, PTL

-----------------------------------------------------------------------------
(***************************************************************************)
(* Whole commands.  The bids carry the fingerprint of their request, not   *)
(* its key, so what the receipts say of the bids needs that a command is   *)
(* submitted under one key.  As long as D1 executes no batch late, only    *)
(* the holder of the lease adds bids, on the revision it was shown; and a  *)
(* pending receipt with bids is one that an older program left behind,     *)
(* whose revision is over.                                                 *)
(***************************************************************************)
KeyPerCommand == \A r, s \in Requests : Fingerprint(r) = Fingerprint(s) => r = s

Pending(k) == receipts[k] # NoReceipt /\ ~receipts[k].done

OnePending == \A j, k \in Keys : Pending(j) /\ Pending(k) => j = k

\* Every bid has its command on record, and its audit row once that is completed.
Attested ==
  \A b \in bids : \E k \in Keys :
    /\ receipts[k] # NoReceipt /\ Fingerprint(receipts[k].req) = b.id[1]
    /\ receipts[k].done => b.audited

Together ==
  /\ \A k \in Keys : receipts[k].done => BidsOf(receipts[k].req) = receipts[k].answer.picked
  /\ Attested

RevisionsDiffer ==
  \A j, k \in Keys :
    (/\ j # k /\ receipts[j].done /\ receipts[k].done)
    => receipts[j].req.expected # receipts[k].req.expected

SeatsOnce == \A x, y \in bids : x.seat = y.seat => x = y

PendingPast ==
  \A k \in Keys :
    Pending(k) /\ BidsOf(receipts[k].req) # {} =>
      /\ receipts[k].req.expected < session.revision
      /\ \A j \in Keys : receipts[j].done =>
           receipts[j].req.expected # receipts[k].req.expected

FreshBatches ==
  \A w \in Workers : workers[w].pc = "sent" => Proper(workers[w].batch.req, workers[w].batch.bids)

Whole == Together /\ RevisionsDiffer /\ SeatsOnce /\ PendingPast /\ FreshBatches

WholeInv == OnePending /\ (~late => Whole)

LEMMA CommandOfBids ==
  ASSUME KeyPerCommand, IInv, Attested, NEW r \in Requests, BidsOf(r) # {}
  PROVE  receipts[r.key] # NoReceipt /\ receipts[r.key].req = r
  <1>1. PICK k \in Keys : /\ receipts[k] # NoReceipt
                          /\ Fingerprint(receipts[k].req) = Fingerprint(r)
    BY DEF Attested, BidsOf
  <1>2. receipts[k].req \in Requests /\ receipts[k].req.key = k
    BY <1>1 DEF IInv, Records, ReceiptOK
  <1>3. receipts[k].req = r
    BY <1>1, <1>2 DEF KeyPerCommand
  <1>4. QED
    BY <1>1, <1>2, <1>3

\* The batch of the holder of the lease is the first of its command, and it
\* completes its receipt.
LEMMA ExecutedOnce ==
  ASSUME KeyPerCommand, IInv, Whole, ~late, NEW w \in Workers, workers[w].pc = "sent",
         Execute(workers[w].batch), UNCHANGED late
  PROVE  LET r == workers[w].req
             b == workers[w].batch
         IN /\ r \in Requests /\ r.key \in Keys /\ b.req = r /\ Proper(r, b.bids)
            /\ BidsOf(r) = {} /\ ~receipts[r.key].done
            /\ receipts[r.key] = NoReceipt \/ receipts[r.key].req = r
            /\ session.revision = r.expected /\ r.expected \in Nat
            /\ session'.revision = r.expected + 1
            /\ bids' = bids \cup b.bids
            /\ receipts'[r.key] = Completed(r, b.answer) /\ b.answer.picked = b.bids
            /\ \A k \in Keys \ {r.key} : receipts'[k] = receipts[k]
  <1> DEFINE r == workers[w].req
             b == workers[w].batch
  <1>1. r \in Requests /\ r.key \in Keys /\ r.expected \in Nat /\ BatchOK(b) /\ b.req = r
    BY SentFacts, RequestTypes
  <1>2. /\ workers[w].kind \in {"new", "pending"} /\ Inspected(r) = workers[w].kind
        /\ session.revision = r.expected /\ b.reserve = (workers[w].kind = "new")
    BY DEF IInv, Handlers, WorkerOK
  <1>3. receipts[r.key] = NoReceipt \/ (Pending(r.key) /\ receipts[r.key].req = r)
    BY <1>2 DEF Inspected, Pending
  <1>4. BidsOf(r) = {}
    <2>1. SUFFICES ASSUME BidsOf(r) # {} PROVE FALSE
      OBVIOUS
    <2>2. receipts[r.key] # NoReceipt
      BY <1>1, <2>1, CommandOfBids DEF Whole, Together
    <2>3. r.expected < session.revision
      BY <1>1, <1>3, <2>1, <2>2 DEF Whole, PendingPast
    <2>4. QED
      BY <1>1, <1>2, <2>3
  <1>5. receipts'[r.key] = Completed(r, b.answer)
    BY SentExecutes
  <1>6. ~receipts[r.key].done
    BY <1>3 DEF Pending, NoReceipt
  <1>7. Completes(b)
    BY <1>1, <1>2, <1>3 DEF Completes, Pending, Inspected
  <1>8. /\ \A k \in Keys \ {r.key} : receipts'[k] = receipts[k]
        /\ session'.revision = r.expected + 1
    BY <1>1, <1>7, ExecutedReceipts DEF IInv
  <1>9. bids' = bids \cup b.bids /\ b.answer.picked = b.bids /\ Proper(r, b.bids)
    BY <1>1 DEF Execute, BatchOK, Answer, Whole, FreshBatches
  <1>10. QED
    BY <1>1, <1>2, <1>3, <1>4, <1>5, <1>6, <1>8, <1>9

LEMMA ExecuteWhole ==
  ASSUME KeyPerCommand, IInv, Whole, ~late, NEW w \in Workers, workers[w].pc = "sent",
         Execute(workers[w].batch), UNCHANGED late
  PROVE  Together' /\ RevisionsDiffer' /\ SeatsOnce' /\ PendingPast'
  <1> DEFINE r == workers[w].req
             b == workers[w].batch
  <1>1. /\ r \in Requests /\ r.key \in Keys /\ Proper(r, b.bids)
        /\ BidsOf(r) = {} /\ ~receipts[r.key].done
        /\ receipts[r.key] = NoReceipt \/ receipts[r.key].req = r
        /\ session.revision = r.expected /\ r.expected \in Nat
        /\ session'.revision = r.expected + 1
        /\ bids' = bids \cup b.bids
        /\ receipts'[r.key] = Completed(r, b.answer) /\ b.answer.picked = b.bids
        /\ \A k \in Keys \ {r.key} : receipts'[k] = receipts[k]
    BY ExecutedOnce
  <1> HIDE DEF r, b
  <1>2. /\ receipts'[r.key].req = r /\ receipts'[r.key].done /\ receipts'[r.key].answer = b.answer
        /\ receipts'[r.key] # NoReceipt
    BY <1>1, RequestTypes DEF Completed, NoReceipt
  <1>3. ASSUME NEW k \in Keys, k # r.key, receipts[k].req # None
        PROVE  /\ receipts[k].req \in Requests /\ receipts[k].req.expected \in Nat
               /\ Fingerprint(receipts[k].req) # Fingerprint(r)
               /\ {x \in bids' : x.id[1] = Fingerprint(receipts[k].req)} = BidsOf(receipts[k].req)
    <2>1. receipts[k].req \in Requests /\ receipts[k].req.key = k
      BY <1>3 DEF IInv, Records, ReceiptOK
    <2>2. Fingerprint(receipts[k].req) # Fingerprint(r)
      BY <1>1, <1>3, <2>1 DEF KeyPerCommand
    <2>3. QED
      BY <1>1, <2>1, <2>2, RequestTypes DEF Proper, BidsOf
  <1>4. \A k \in Keys : receipts[k].done =>
          receipts[k].req # None /\ receipts[k].req.expected < r.expected
    BY <1>1 DEF IInv, Records, ReceiptOK
  <1>5. Together'
    <2>1. ASSUME NEW k \in Keys, receipts'[k].done
          PROVE  {x \in bids' : x.id[1] = Fingerprint(receipts'[k].req)}
                   = receipts'[k].answer.picked
      <3>1. CASE k = r.key
        BY <1>1, <1>2, <3>1 DEF Proper, BidsOf
      <3>2. CASE k # r.key
        BY <1>1, <1>3, <1>4, <2>1, <3>2 DEF Whole, Together, Attested
      <3>3. QED
        BY <3>1, <3>2
    <2>2. ASSUME NEW x \in bids'
          PROVE  \E k \in Keys :
                   /\ receipts'[k] # NoReceipt /\ Fingerprint(receipts'[k].req) = x.id[1]
                   /\ receipts'[k].done => x.audited
      <3>1. CASE x \in b.bids
        BY <1>1, <1>2, <3>1 DEF Proper
      <3>2. CASE x \in bids
        <4>1. PICK k \in Keys :
                /\ receipts[k] # NoReceipt /\ Fingerprint(receipts[k].req) = x.id[1]
                /\ receipts[k].done => x.audited
          BY <3>2 DEF Whole, Together, Attested
        <4>2. receipts[k].req \in Requests /\ receipts[k].req.key = k
          BY <4>1 DEF IInv, Records, ReceiptOK
        <4>3. k # r.key
          BY <1>1, <3>2, <4>1 DEF BidsOf
        <4>4. QED
          BY <1>1, <4>1, <4>3
      <3>3. QED
        BY <1>1, <3>1, <3>2
    <2>3. QED
      BY <2>1, <2>2 DEF Together, Attested, BidsOf
  <1>6. RevisionsDiffer'
    <2>1. \A k \in Keys \ {r.key} : receipts'[k].done =>
            receipts'[k].req.expected # r.expected
      BY <1>1, <1>3, <1>4
    <2>2. QED
      BY <1>1, <1>2, <2>1 DEF Whole, RevisionsDiffer
  <1>7. SeatsOnce'
    BY <1>1 DEF Whole, SeatsOnce, Proper, Taken
  <1>8. PendingPast'
    <2>1. SUFFICES ASSUME NEW k \in Keys, Pending(k)', BidsOf(receipts[k].req)' # {}
                   PROVE  /\ receipts'[k].req.expected < session'.revision
                          /\ \A j \in Keys : receipts'[j].done =>
                               receipts'[j].req.expected # receipts'[k].req.expected
      BY DEF PendingPast
    <2>2. k # r.key /\ receipts'[k] = receipts[k] /\ Pending(k)
      BY <1>1, <1>2, <2>1 DEF Pending
    <2>3. receipts[k].req # None
      BY <2>2 DEF Pending, IInv, Records, ReceiptOK
    <2>4. BidsOf(receipts[k].req) # {} /\ receipts[k].req.expected \in Nat
      BY <1>3, <2>1, <2>2, <2>3 DEF BidsOf
    <2>5. /\ receipts[k].req.expected < r.expected
          /\ \A j \in Keys : receipts[j].done =>
               receipts[j].req.expected # receipts[k].req.expected
      BY <1>1, <2>2, <2>4 DEF Whole, PendingPast
    <2>6. ASSUME NEW j \in Keys, receipts'[j].done
          PROVE  receipts'[j].req.expected # receipts[k].req.expected
      BY <1>1, <1>2, <2>4, <2>5, <2>6
    <2>7. QED
      BY <1>1, <2>2, <2>4, <2>5, <2>6
  <1>9. QED
    BY <1>5, <1>6, <1>7, <1>8

\* A recovery completes the receipt of an older program, with the bids it left.
LEMMA RecoverWhole ==
  ASSUME KeyPerCommand, IInv, OnePending, Whole, NEW w \in Workers, Recover(w)
  PROVE  Together' /\ RevisionsDiffer' /\ SeatsOnce' /\ PendingPast'
  <1> DEFINE r == workers[w].req
             done == Answer(r, "recovered", BidsOf(r))
  <1>1. r \in Requests /\ r.key \in Keys /\ r # None /\ UNCHANGED <<bids, session>>
    BY RequestTypes DEF Recover, IInv, Handlers, WorkerOK, RequestPcs
  <1>2. CASE UNCHANGED receipts
    BY <1>1, <1>2
       DEF Whole, Together, Attested, BidsOf, RevisionsDiffer, SeatsOnce, PendingPast, Pending
  <1>3. CASE /\ Inspected(r) = "pending" /\ Evidence(r)
             /\ receipts' = [receipts EXCEPT ![r.key] = Completed(r, done)]
    <2>1. /\ Pending(r.key) /\ receipts[r.key].req = r /\ BidsOf(r) # {}
          /\ \A b \in BidsOf(r) : b.audited
      BY <1>3 DEF Inspected, Evidence, Pending
    <2>2. /\ receipts'[r.key].req = r /\ receipts'[r.key].done
          /\ receipts'[r.key].answer.picked = BidsOf(r) /\ receipts'[r.key] # NoReceipt
          /\ \A k \in Keys \ {r.key} : receipts'[k] = receipts[k]
      BY <1>1, <1>3 DEF IInv, Shapes, TableShapes, Completed, Answer, NoReceipt
    <2> HIDE DEF r, done
    <2>3. Together'
      <3>1. ASSUME NEW k \in Keys, receipts'[k].done
            PROVE  {x \in bids : x.id[1] = Fingerprint(receipts'[k].req)}
                     = receipts'[k].answer.picked
        BY <1>1, <2>2, <3>1 DEF Whole, Together, Attested, BidsOf
      <3>2. ASSUME NEW x \in bids
            PROVE  \E k \in Keys :
                     /\ receipts'[k] # NoReceipt /\ Fingerprint(receipts'[k].req) = x.id[1]
                     /\ receipts'[k].done => x.audited
        <4>1. PICK k \in Keys :
                /\ receipts[k] # NoReceipt /\ Fingerprint(receipts[k].req) = x.id[1]
                /\ receipts[k].done => x.audited
          BY DEF Whole, Together, Attested
        <4>2. CASE k = r.key
          BY <1>1, <2>1, <2>2, <4>1, <4>2 DEF BidsOf
        <4>3. CASE k # r.key
          BY <2>2, <4>1, <4>3
        <4>4. QED
          BY <4>2, <4>3
      <3>3. QED
        BY <1>1, <3>1, <3>2 DEF Together, Attested, BidsOf
    <2>4. \A j \in Keys \ {r.key} : receipts'[j].done =>
            receipts'[j].req.expected # r.expected
      BY <1>1, <2>1, <2>2 DEF Whole, PendingPast
    <2>5. RevisionsDiffer'
      BY <2>2, <2>4 DEF Whole, RevisionsDiffer
    <2>6. \A k \in Keys : ~Pending(k)'
      BY <1>1, <2>1, <2>2 DEF OnePending, Pending
    <2>7. QED
      BY <1>1, <2>3, <2>5, <2>6 DEF Whole, SeatsOnce, PendingPast
  <1>4. \/ UNCHANGED receipts
        \/ /\ Inspected(r) = "pending" /\ Evidence(r)
           /\ receipts' = [receipts EXCEPT ![r.key] = Completed(r, done)]
    BY DEF Recover
  <1>5. QED
    BY <1>2, <1>3, <1>4

\* Every other step leaves the bids and the receipts alone.
LEMMA QuietWhole ==
  ASSUME IInv, Whole, UNCHANGED <<bids, receipts>>, session'.revision \in Nat,
         session'.revision >= session.revision
  PROVE  Together' /\ RevisionsDiffer' /\ SeatsOnce' /\ PendingPast'
  <1>1. Together' /\ RevisionsDiffer' /\ SeatsOnce'
    BY DEF Whole, Together, Attested, BidsOf, RevisionsDiffer, SeatsOnce
  <1>2. \A k \in Keys : Pending(k) =>
          receipts[k].req.expected \in Nat /\ session.revision \in Nat
    BY RequestTypes DEF IInv, Shapes, TableShapes, Records, ReceiptOK, Pending
  <1>3. PendingPast'
    <2>1. SUFFICES ASSUME NEW k \in Keys, Pending(k), BidsOf(receipts[k].req) # {}
                   PROVE  /\ receipts[k].req.expected < session'.revision
                          /\ \A j \in Keys : receipts[j].done =>
                               receipts[j].req.expected # receipts[k].req.expected
      BY DEF PendingPast, Pending, BidsOf
    <2>2. /\ receipts[k].req.expected < session.revision
          /\ \A j \in Keys : receipts[j].done =>
               receipts[j].req.expected # receipts[k].req.expected
      BY <2>1 DEF Whole, PendingPast
    <2>3. receipts[k].req.expected < session'.revision
      BY <1>2, <2>1, <2>2
    <2>4. QED
      BY <2>2, <2>3
  <1>4. QED
    BY <1>1, <1>3

\* The other writers of the session.
LEMMA OthersRevision ==
  ASSUME IInv, Start \/ Pause \/ DayEnd \/ Resume \/ CloseMock \/ Seal
  PROVE  /\ UNCHANGED <<bids, receipts, late>> /\ session'.revision \in Nat
         /\ session'.revision >= session.revision
  <1>1. session.revision \in Nat
    BY DEF IInv, Shapes, TableShapes
  <1>2. UNCHANGED <<bids, receipts, late>>
    BY DEF Start, Pause, DayEnd, Resume, Control, CloseMock, Seal
  <1>3. CASE Start \/ Pause \/ DayEnd \/ Resume
    <2>1. \E phase, bidder :
            session' = [phase |-> phase, bidder |-> bidder, revision |-> session.revision + 1]
      BY <1>3 DEF Start, Pause, DayEnd, Resume, Control
    <2>2. session'.revision = session.revision + 1
      BY <2>1
    <2>3. QED
      BY <1>1, <1>2, <2>2
  <1>4. CASE CloseMock \/ Seal
    <2>1. session = [phase |-> session.phase, bidder |-> session.bidder,
                     revision |-> session.revision]
      BY DEF IInv, Shapes, TableShapes
    <2>2. session'.revision = session.revision
      BY <1>4, <2>1 DEF CloseMock, Seal
    <2>3. QED
      BY <1>1, <1>2, <2>2
  <1>5. QED
    BY <1>3, <1>4

\* What a step does, as long as no batch is late
LEMMA WholeKinds ==
  ASSUME IInv, [Next]_vars, ~late'
  PROVE  /\ ~late
         /\ \/ /\ UNCHANGED <<bids, receipts>> /\ session'.revision \in Nat
               /\ session'.revision >= session.revision
            \/ \E w \in Workers : /\ workers[w].pc = "sent" /\ Execute(workers[w].batch)
                                  /\ UNCHANGED late
            \/ \E w \in Workers : Recover(w)
  <1>1. session.revision \in Nat
    BY DEF IInv, Shapes, TableShapes
  <1>2. CASE \E b \in flights : LateBatch(b)
    BY <1>1, <1>2 DEF LateBatch, tables
  <1>3. CASE Start \/ Pause \/ DayEnd \/ Resume \/ CloseMock \/ Seal
    BY <1>3, OthersRevision
  <1>4. ASSUME NEW w \in Workers, Commit(w) \/ CommitUnheard(w) \/ Crash(w)
        PROVE  /\ ~late
               /\ \/ UNCHANGED <<bids, receipts, session>>
                  \/ workers[w].pc = "sent" /\ Execute(workers[w].batch) /\ UNCHANGED late
    BY <1>4 DEF Commit, CommitUnheard, Crash, tables
  <1>5. CASE \/ UNCHANGED vars
             \/ \E r \in Requests : AnswerSettled(r)
             \/ \E w \in Workers, r \in Requests : Submit(w, r)
             \/ \E w \in Workers :
                  \/ InspectAgain(w) \/ Check(w) \/ Plan(w) \/ Abort(w) \/ CallFails(w)
                  \/ Recheck(w) \/ Verify(w) \/ Release(w) \/ ReleaseFails(w)
    <2>1. UNCHANGED <<bids, receipts, session, late>>
      BY <1>5 DEF vars, tables, AnswerSettled, Submit, InspectAgain, Check, Plan, Abort,
                  CallFails, Recheck, Verify, Release, ReleaseFails
    <2>2. QED
      BY <1>1, <2>1
  <1>6. CASE \E w \in Workers : Recover(w)
    BY <1>6 DEF Recover
  <1>7. CASE \E w \in Workers : Commit(w) \/ CommitUnheard(w) \/ Crash(w)
    BY <1>1, <1>4, <1>7
  <1>8. QED
    BY <1>2, <1>3, <1>5, <1>6, <1>7 DEF Next

\* A batch that is sent fits the bids that are there: its Worker has the lease.
LEMMA FreshStep ==
  ASSUME IInv, FreshBatches, [Next]_vars, ~late'
  PROVE  FreshBatches'
  <1>1. SUFFICES ASSUME NEW w \in Workers, workers'[w].pc = "sent"
                 PROVE  /\ Proper(workers'[w].batch.req, workers'[w].batch.bids)
                        /\ UNCHANGED bids
    BY DEF FreshBatches, Proper, Taken
  <1>2. ASSUME NEW u \in Workers, workers[u].pc # "idle", u # w, workers'[w] = workers[w]
        PROVE  FALSE
    BY <1>1, <1>2 DEF IInv, Handlers, WorkerOK
  <1>3. CASE Plan(w)
    <2> DEFINE r == workers[w].req
               b == BatchOf(r, workers[w].kind, workers[w].seen)
    <2>1. /\ r \in Requests /\ (r.op = "manual_pick" => r.seat \notin Taken)
          /\ workers' = [workers EXCEPT ![w].pc = "sent", ![w].seen = None, ![w].batch = b]
          /\ UNCHANGED bids
      BY <1>1, <1>3 DEF Plan, RequestPcs, IInv, Handlers, WorkerOK, Leave, Idle, Shapes,
                        WorkerShapes, tables
    <2>2. Proper(b.req, b.bids)
      BY <2>1, BatchProper
    <2> HIDE DEF b
    <2>3. workers'[w].batch = b
      BY <2>1 DEF IInv, Shapes, WorkerShapes
    <2>4. QED
      BY <2>1, <2>2, <2>3
  <1>4. CASE workers'[w] = workers[w] /\ UNCHANGED bids
    BY <1>1, <1>4 DEF FreshBatches
  <1>5. CASE \/ UNCHANGED vars \/ (\E r \in Requests : AnswerSettled(r))
             \/ (\E b \in flights : LateBatch(b))
             \/ Start \/ Pause \/ DayEnd \/ Resume \/ CloseMock \/ Seal
    <2>1. UNCHANGED <<workers, bids>>
      BY <1>5 DEF vars, tables, AnswerSettled, LateBatch, Start, Pause, DayEnd, Resume, Control,
                  CloseMock, Seal
    <2>2. QED
      BY <1>4, <2>1
  <1>6. ASSUME NEW u \in Workers, NEW r \in Requests, Submit(u, r)
        PROVE  FALSE
    <2>1. (workers'[u].pc = "inspect" /\ workers'[w] = workers[w]) \/ u = w
      BY <1>6 DEF Submit, IInv, Shapes, WorkerShapes, Idle
    <2>2. workers'[u].pc = "inspect"
      BY <1>6 DEF Submit, IInv, Shapes, WorkerShapes, Idle
    <2>3. lease = None /\ lease = w
      BY <1>1, <1>6, <2>1, <2>2 DEF Submit, IInv, Handlers, WorkerOK
    <2>4. QED
      BY <2>3, RehearsalAssumption
  <1>7. ASSUME NEW u \in Workers,
               \/ InspectAgain(u) \/ Check(u) \/ Recover(u) \/ Plan(u)
               \/ Commit(u) \/ CommitUnheard(u) \/ Abort(u) \/ CallFails(u)
               \/ Recheck(u) \/ Verify(u) \/ Release(u) \/ ReleaseFails(u) \/ Crash(u)
        PROVE  Plan(w)
    <2>1. workers[u].pc # "idle" /\ \A v \in Workers \ {u} : workers'[v] = workers[v]
      BY <1>7 DEF InspectAgain, Check, Recover, Plan, Commit, CommitUnheard, Abort, CallFails,
                  Recheck, Verify, Release, ReleaseFails, Crash, Leave, Goto, IInv, Shapes,
                  WorkerShapes
    <2>2. u = w
      BY <1>2, <2>1
    <2>3. DOMAIN workers = Workers
      BY DEF IInv, Shapes, WorkerShapes
    <2>4. \A a : Leave(u, a) => workers'[u].pc = "release"
      BY <2>3 DEF Leave, Idle
    <2>5. \A pc \in {"recover", "verify", "recheck"} : Goto(u, pc) => workers'[u].pc = pc
      BY <2>3 DEF Goto, IInv, Shapes, WorkerShapes
    <2>6. CASE InspectAgain(u)
      BY <1>1, <2>2, <2>3, <2>4, <2>6 DEF InspectAgain, IInv, Shapes, WorkerShapes
    <2>7. CASE Check(u)
      BY <1>1, <2>2, <2>3, <2>4, <2>5, <2>7 DEF Check, IInv, Shapes, WorkerShapes
    <2>8. CASE Recover(u) \/ Recheck(u) \/ Verify(u)
      BY <1>1, <2>2, <2>4, <2>8 DEF Recover, Recheck, Verify
    <2>9. CASE Commit(u) \/ CommitUnheard(u) \/ Abort(u) \/ CallFails(u)
      BY <1>1, <2>2, <2>5, <2>9 DEF Commit, CommitUnheard, Abort, CallFails
    <2>10. CASE Release(u) \/ ReleaseFails(u) \/ Crash(u)
      BY <1>1, <2>2, <2>3, <2>10 DEF Release, ReleaseFails, Crash, Idle
    <2>11. QED
      BY <1>7, <2>2, <2>6, <2>7, <2>8, <2>9, <2>10
  <1>8. QED
    BY <1>3, <1>5, <1>6, <1>7 DEF Next

LEMMA OnePendingStep ==
  ASSUME IInv, OnePending, [Next]_vars
  PROVE  OnePending'
  <1>1. ASSUME NEW k \in Keys, Pending(k)'
        PROVE  Pending(k)
    <2>1. CASE receipts'[k] = receipts[k]
      BY <1>1, <2>1 DEF Pending
    <2>2. CASE receipts'[k] # receipts[k]
      <3>1. \A r, a : Completed(r, a).done = TRUE
        BY DEF Completed
      <3>2. ASSUME NEW b, BatchOK(b), Execute(b)
            PROVE  receipts'[k].done
        BY <2>2, <3>1, <3>2, ExecutedReceipts DEF IInv
      <3>3. ASSUME NEW w \in Workers, Recover(w)
            PROVE  receipts'[k].done
        <4>1. \E r, a : receipts' = [receipts EXCEPT ![r.key] = Completed(r, a)]
          BY <2>2, <3>3 DEF Recover
        <4>2. QED
          BY <2>2, <3>1, <4>1 DEF IInv, Shapes, TableShapes
      <3>4. QED
        BY <1>1, <2>2, <3>2, <3>3, TableKinds DEF Pending, tables
    <2>3. QED
      BY <2>1, <2>2
  <1>2. QED
    BY <1>1 DEF OnePending

LEMMA WholeStep ==
  ASSUME KeyPerCommand, IInv, WholeInv, [Next]_vars
  PROVE  WholeInv'
  <1>1. OnePending'
    BY OnePendingStep DEF WholeInv
  <1>2. ASSUME ~late'
        PROVE  Whole'
    <2>1. ~late /\ Whole
      BY <1>2, WholeKinds DEF WholeInv
    <2>2. FreshBatches'
      BY <1>2, <2>1, FreshStep DEF Whole
    <2>3. Together' /\ RevisionsDiffer' /\ SeatsOnce' /\ PendingPast'
      BY <1>2, <2>1, WholeKinds, QuietWhole, ExecuteWhole, RecoverWhole DEF WholeInv
    <2>4. QED
      BY <2>2, <2>3 DEF Whole
  <1>3. QED
    BY <1>1, <1>2 DEF WholeInv

LEMMA InitWhole == Init => WholeInv
  <1> SUFFICES ASSUME Init PROVE WholeInv
    OBVIOUS
  <1>1. \A r : ~NoReceipt.done /\ ~Receipt(r).done /\ Receipt(r).req = r /\ NoReceipt.req = None
    BY DEF NoReceipt, Receipt
  <1>2. \A w \in Workers : workers[w].pc = "idle"
    BY DEF Init, Idle
  <1>3. CASE bids = {} /\ receipts = [k \in Keys |-> NoReceipt]
    BY <1>1, <1>2, <1>3
       DEF WholeInv, OnePending, Pending, Whole, Together, Attested, RevisionsDiffer, SeatsOnce,
           PendingPast, FreshBatches
  <1>4. ASSUME NEW r \in Requests, Historic(r)
        PROVE  WholeInv
    <2>1. /\ r.key \in Keys /\ r # None /\ r.expected \in Nat
          /\ \A k \in Keys : receipts[k] = IF k = r.key THEN Receipt(r) ELSE NoReceipt
      BY <1>4, RequestTypes DEF Historic
    <2>2. /\ \A k \in Keys : ~receipts[k].done /\ (Pending(k) => k = r.key)
          /\ receipts[r.key] # NoReceipt /\ receipts[r.key].req = r
      BY <1>1, <2>1 DEF Pending
    <2>3. bids = {} \/ /\ session.revision = r.expected + 1
                       /\ \E x : bids = {x} /\ x.id[1] = Fingerprint(r)
      BY <1>4 DEF Historic, BidOf
    <2>4. Together
      BY <2>1, <2>2, <2>3 DEF Together, Attested
    <2>5. RevisionsDiffer /\ SeatsOnce /\ FreshBatches /\ OnePending
      BY <1>2, <2>2, <2>3 DEF RevisionsDiffer, SeatsOnce, FreshBatches, OnePending
    <2>6. PendingPast
      BY <2>1, <2>2, <2>3 DEF PendingPast, BidsOf
    <2>7. QED
      BY <2>4, <2>5, <2>6 DEF WholeInv, Whole
  <1>5. QED
    BY <1>3, <1>4 DEF Init

LEMMA WholeAlways ==
  ASSUME KeyPerCommand
  PROVE  Spec => []WholeInv
  <1>1. IInv /\ WholeInv /\ [Next]_vars => WholeInv'
    BY WholeStep
  <1>2. QED
    BY <1>1, InitWhole, Invariance, PTL DEF Spec

\* When every command has its own key, one reviewed revision carries one completed
\* command, applied or recovered, and no position is filled twice, for any number
\* of rounds of an auto-bid - unless D1 has executed a batch nobody waited for.
THEOREM OneCommandAlways ==
  ASSUME KeyPerCommand
  PROVE  Spec => []OneCommandPerRevision
  <1>1. WholeInv => OneCommandPerRevision
    BY DEF WholeInv, Whole, RevisionsDiffer, SeatsOnce, OneCommandPerRevision
  <1>2. QED
    BY <1>1, WholeAlways, PTL

-----------------------------------------------------------------------------
(***************************************************************************)
(* With batches that D1 executes late.  A batch that reserves its receipt  *)
(* finds none and no bids.  One that does not was planned on a receipt     *)
(* that was pending already: on the revision of the command, when it had   *)
(* no bids.  If the receipt is completed meanwhile, the batch adds bids    *)
(* to an answer that was given; only one command can come to that, the one *)
(* that was pending at the beginning.                                      *)
(***************************************************************************)
Known(r) == receipts[r.key] # NoReceipt /\ receipts[r.key].req = r

\* A Worker has found the receipt of r pending.
SeenPending(r) ==
  \E w \in Workers : workers[w].pc = "check" /\ workers[w].kind = "pending" /\ workers[w].req = r

\* A batch of r that relies on its receipt is planned, sent or in flight.
Retried(r) ==
  \/ \E b \in flights : b.req = r /\ ~b.reserve
  \/ \E w \in Workers : /\ workers[w].pc \in {"plan", "sent"}
                        /\ workers[w].kind = "pending" /\ workers[w].req = r

Written(b) == \A x \in b.bids : x.id[1] = Fingerprint(b.req) /\ x.audited

BatchesWritten ==
  /\ \A b \in flights : Written(b)
  /\ \A w \in Workers : workers[w].pc = "sent" => Written(workers[w].batch)

PendingBehind ==
  \A k \in Keys : Pending(k) /\ BidsOf(receipts[k].req) # {} =>
                    receipts[k].req.expected < session.revision

RetriesKnown ==
  \A r \in Requests :
    /\ SeenPending(r) \/ Retried(r) => Known(r)
    /\ Retried(r) /\ Pending(r.key) => BidsOf(r) = {}

\* The command of k is not of this program.
Odd(k) ==
  \/ Pending(k)
  \/ receipts[k].done /\ ~Exact(k)
  \/ \E r \in Requests : r.key = k /\ (SeenPending(r) \/ Retried(r))

OneOdd == \A j, k \in Keys : Odd(j) /\ Odd(k) => j = k

LateInv == Attested /\ BatchesWritten /\ PendingBehind /\ RetriesKnown /\ OneOdd

\* No command comes to be retried.
NoneRetried ==
  \A r \in Requests : (SeenPending(r)' => SeenPending(r)) /\ (Retried(r)' => Retried(r))

\* A Worker moves on, and its batch may stay in flight.
LEMMA MoverRetries ==
  ASSUME IInv, NEW w \in Workers, \A u \in Workers \ {w} : workers'[u] = workers[u],
         workers'[w].pc \notin {"check", "plan", "sent"},
         \A b \in flights' : b \in flights \/ (workers[w].pc = "sent" /\ b = workers[w].batch)
  PROVE  NoneRetried
  <1>1. workers[w].pc = "sent" =>
          /\ workers[w].kind \in {"new", "pending"} /\ workers[w].batch.req = workers[w].req
          /\ workers[w].batch.reserve = (workers[w].kind = "new")
    BY DEF IInv, Handlers, WorkerOK
  <1>2. ASSUME NEW r \in Requests, SeenPending(r)'
        PROVE  SeenPending(r)
    BY <1>2 DEF SeenPending
  <1>3. ASSUME NEW r \in Requests, Retried(r)'
        PROVE  Retried(r)
    <2>1. CASE \E b \in flights' : b.req = r /\ ~b.reserve
      BY <1>1, <2>1 DEF Retried
    <2>2. CASE \E u \in Workers : /\ workers'[u].pc \in {"plan", "sent"}
                                  /\ workers'[u].kind = "pending" /\ workers'[u].req = r
      BY <2>2 DEF Retried
    <2>3. QED
      BY <1>3, <2>1, <2>2 DEF Retried
  <1>4. QED
    BY <1>2, <1>3 DEF NoneRetried

\* What a Worker looks like after a step that ends or continues its request.
LEMMA MoverPc ==
  ASSUME IInv, NEW w \in Workers
  PROVE  /\ \A a : Leave(w, a) => /\ workers'[w].pc = "release"
                                  /\ \A u \in Workers \ {w} : workers'[u] = workers[u]
         /\ \A pc : Goto(w, pc) => /\ workers'[w].pc = pc
                                   /\ \A u \in Workers \ {w} : workers'[u] = workers[u]
         /\ workers' = [workers EXCEPT ![w] = Idle] =>
              workers'[w].pc = "idle" /\ \A u \in Workers \ {w} : workers'[u] = workers[u]
  <1>1. ASSUME NEW a, Leave(w, a)
        PROVE  /\ workers'[w].pc = "release"
               /\ \A u \in Workers \ {w} : workers'[u] = workers[u]
    BY <1>1 DEF Leave, IInv, Shapes, WorkerShapes, Idle
  <1>2. ASSUME NEW pc, Goto(w, pc)
        PROVE  /\ workers'[w].pc = pc
               /\ \A u \in Workers \ {w} : workers'[u] = workers[u]
    BY <1>2 DEF Goto, IInv, Shapes, WorkerShapes
  <1>3. ASSUME workers' = [workers EXCEPT ![w] = Idle]
        PROVE  /\ workers'[w].pc = "idle"
               /\ \A u \in Workers \ {w} : workers'[u] = workers[u]
    BY <1>3 DEF IInv, Shapes, WorkerShapes, Idle
  <1>4. QED
    BY <1>1, <1>2, <1>3

LEMMA NothingRetried ==
  ASSUME IInv,
         \/ UNCHANGED vars
         \/ \E r \in Requests : AnswerSettled(r)
         \/ \E w \in Workers, r \in Requests : Submit(w, r)
         \/ \E w \in Workers :
              \/ Recover(w) \/ Commit(w) \/ CommitUnheard(w) \/ Abort(w) \/ CallFails(w)
              \/ Recheck(w) \/ Verify(w) \/ Release(w) \/ ReleaseFails(w) \/ Crash(w)
         \/ \E b \in flights : LateBatch(b)
         \/ Start \/ Pause \/ DayEnd \/ Resume \/ CloseMock \/ Seal
  PROVE  NoneRetried
  <1>1. CASE \/ UNCHANGED vars
             \/ \E r \in Requests : AnswerSettled(r)
             \/ \E b \in flights : LateBatch(b)
             \/ Start \/ Pause \/ DayEnd \/ Resume \/ CloseMock \/ Seal
    <2>1. UNCHANGED workers /\ flights' \subseteq flights
      BY <1>1 DEF vars, AnswerSettled, LateBatch, Start, Pause, DayEnd, Resume, Control,
                  CloseMock, Seal
    <2>2. QED
      BY <2>1 DEF NoneRetried, SeenPending, Retried
  <1>2. ASSUME NEW w \in Workers, NEW r \in Requests, Submit(w, r)
        PROVE  NoneRetried
    <2>1. workers'[w].pc = "inspect" /\ \A u \in Workers \ {w} : workers'[u] = workers[u]
      BY <1>2 DEF Submit, IInv, Shapes, WorkerShapes, Idle
    <2>2. QED
      BY <1>2, <2>1, MoverRetries DEF Submit
  <1>3. ASSUME NEW w \in Workers, Recover(w) \/ Recheck(w) \/ Verify(w)
        PROVE  NoneRetried
    <2>1. UNCHANGED flights /\ \E a : Leave(w, a)
      BY <1>3 DEF Recover, Recheck, Verify
    <2>2. QED
      BY <2>1, MoverPc, MoverRetries
  <1>4. ASSUME NEW w \in Workers, Commit(w) \/ CommitUnheard(w) \/ Abort(w) \/ CallFails(w)
        PROVE  NoneRetried
    <2>1. /\ workers[w].pc = "sent"
          /\ Goto(w, "verify") \/ Goto(w, "recheck")
          /\ UNCHANGED flights \/ InFlight(workers[w].batch)
      BY <1>4 DEF Commit, CommitUnheard, Abort, CallFails
    <2>2. \A b \in flights' : b \in flights \/ b = workers[w].batch
      BY <2>1 DEF InFlight
    <2>3. QED
      BY <2>1, <2>2, MoverPc, MoverRetries
  <1>5. ASSUME NEW w \in Workers, Release(w) \/ ReleaseFails(w) \/ Crash(w)
        PROVE  NoneRetried
    <2>1. /\ workers' = [workers EXCEPT ![w] = Idle]
          /\ UNCHANGED flights \/ (workers[w].pc = "sent" /\ InFlight(workers[w].batch))
      BY <1>5 DEF Release, ReleaseFails, Crash
    <2>2. \A b \in flights' : b \in flights \/ (workers[w].pc = "sent" /\ b = workers[w].batch)
      BY <2>1 DEF InFlight
    <2>3. QED
      BY <2>1, <2>2, MoverPc, MoverRetries
  <1>6. QED
    BY <1>1, <1>2, <1>3, <1>4, <1>5

\* A batch is sent by its plan, and comes into flight from its Worker.
LEMMA SentByPlan ==
  ASSUME IInv, [Next]_vars, NEW w \in Workers, workers'[w].pc = "sent", workers'[w] # workers[w]
  PROVE  Plan(w)
  <1>1. CASE \/ UNCHANGED vars \/ (\E r \in Requests : AnswerSettled(r))
             \/ (\E b \in flights : LateBatch(b))
             \/ Start \/ Pause \/ DayEnd \/ Resume \/ CloseMock \/ Seal
    BY <1>1 DEF vars, AnswerSettled, LateBatch, Start, Pause, DayEnd, Resume, Control,
                CloseMock, Seal
  <1>2. ASSUME NEW u \in Workers, NEW r \in Requests, Submit(u, r)
        PROVE  FALSE
    <2>1. workers'[u].pc = "inspect" /\ \A v \in Workers \ {u} : workers'[v] = workers[v]
      BY <1>2 DEF Submit, IInv, Shapes, WorkerShapes, Idle
    <2>2. QED
      BY <2>1
  <1>3. ASSUME NEW u \in Workers,
               \/ Recover(u) \/ Commit(u) \/ CommitUnheard(u) \/ Abort(u) \/ CallFails(u)
               \/ Recheck(u) \/ Verify(u) \/ Release(u) \/ ReleaseFails(u) \/ Crash(u)
        PROVE  FALSE
    <2>1. \/ \E a : Leave(u, a)
          \/ Goto(u, "verify") \/ Goto(u, "recheck")
          \/ workers' = [workers EXCEPT ![u] = Idle]
      BY <1>3 DEF Recover, Commit, CommitUnheard, Abort, CallFails, Recheck, Verify, Release,
                  ReleaseFails, Crash
    <2>2. workers'[u].pc # "sent" /\ \A v \in Workers \ {u} : workers'[v] = workers[v]
      BY <2>1, MoverPc
    <2>3. QED
      BY <2>2
  <1>4. ASSUME NEW u \in Workers, InspectAgain(u) \/ Check(u)
        PROVE  FALSE
    <2>1. workers'[u].pc # "sent" /\ \A v \in Workers \ {u} : workers'[v] = workers[v]
      <3>1. CASE (\E a : Leave(u, a)) \/ Goto(u, "recover")
        BY <3>1, MoverPc
      <3>2. CASE \E kind : workers' = [workers EXCEPT ![u].pc = "check", ![u].kind = kind]
        BY <3>2 DEF IInv, Shapes, WorkerShapes
      <3>3. CASE workers' = [workers EXCEPT ![u].pc = "plan", ![u].seen = session]
        BY <3>3 DEF IInv, Shapes, WorkerShapes
      <3>4. QED
        BY <1>4, <3>1, <3>2, <3>3 DEF InspectAgain, Check
    <2>2. QED
      BY <2>1
  <1>5. ASSUME NEW u \in Workers, Plan(u)
        PROVE  u = w
    <2>1. \A v \in Workers \ {u} : workers'[v] = workers[v]
      BY <1>5, MoverPc DEF Plan, IInv, Shapes, WorkerShapes
    <2>2. QED
      BY <2>1
  <1>6. QED
    BY <1>1, <1>2, <1>3, <1>4, <1>5 DEF Next

LEMMA FlightsOfSent ==
  ASSUME IInv, [Next]_vars, NEW b \in flights'
  PROVE  b \in flights \/ \E w \in Workers : workers[w].pc = "sent" /\ b = workers[w].batch
  <1>1. CASE \E w \in Workers : CallFails(w) \/ Crash(w)
    BY <1>1 DEF CallFails, Crash, InFlight
  <1>2. CASE \E c \in flights : LateBatch(c)
    BY <1>2 DEF LateBatch
  <1>3. CASE \/ UNCHANGED vars
             \/ \E r \in Requests : AnswerSettled(r)
             \/ \E w \in Workers, r \in Requests : Submit(w, r)
             \/ \E w \in Workers :
                  \/ InspectAgain(w) \/ Check(w) \/ Recover(w) \/ Plan(w) \/ Commit(w)
                  \/ CommitUnheard(w) \/ Abort(w) \/ Recheck(w) \/ Verify(w)
                  \/ Release(w) \/ ReleaseFails(w)
             \/ Start \/ Pause \/ DayEnd \/ Resume \/ CloseMock \/ Seal
    BY <1>3 DEF vars, AnswerSettled, Submit, InspectAgain, Check, Recover, Plan, Commit,
                CommitUnheard, Abort, Recheck, Verify, Release, ReleaseFails, Start, Pause,
                DayEnd, Resume, Control, CloseMock, Seal
  <1>4. QED
    BY <1>1, <1>2, <1>3 DEF Next

LEMMA WorkerFields ==
  ASSUME IInv, NEW w \in Workers, NEW kind,
         workers' = [workers EXCEPT ![w].pc = "check", ![w].kind = kind]
  PROVE  /\ workers'[w].pc = "check" /\ workers'[w].kind = kind
         /\ workers'[w].req = workers[w].req
         /\ \A u \in Workers \ {w} : workers'[u] = workers[u]
  <1>1. \A u \in Workers \ {w} : workers'[u] = workers[u]
    BY DEF IInv, Shapes, WorkerShapes
  <1>2. workers'[w] = [workers[w] EXCEPT !.pc = "check", !.kind = kind]
    BY DEF IInv, Shapes, WorkerShapes
  <1>3. QED
    BY <1>1, <1>2 DEF IInv, Shapes, WorkerShapes

\* A command is retried once its receipt was found pending, on its revision.
LEMMA NewRetries ==
  ASSUME IInv, NEW w \in Workers, InspectAgain(w) \/ Check(w) \/ Plan(w), NEW r \in Requests
  PROVE  /\ SeenPending(r)' => SeenPending(r) \/ (Known(r) /\ Pending(r.key))
         /\ Retried(r)' => Retried(r) \/ (SeenPending(r) /\ session.revision = r.expected)
  <1> DEFINE q == workers[w].req
             Other(u) == u # w /\ workers'[u] = workers[u]
  <1>1. CASE \E a : Leave(w, a)
    <2>1. UNCHANGED flights
      BY DEF InspectAgain, Check, Plan
    <2>2. NoneRetried
      BY <1>1, <2>1, MoverPc, MoverRetries
    <2>3. QED
      BY <2>2 DEF NoneRetried
  <1>2. CASE Goto(w, "recover")
    <2>1. UNCHANGED flights
      BY DEF InspectAgain, Check, Plan
    <2>2. NoneRetried
      BY <1>2, <2>1, MoverPc, MoverRetries
    <2>3. QED
      BY <2>2 DEF NoneRetried
  <1>3. CASE /\ InspectAgain(w) /\ ~Settled(q)
             /\ workers' = [workers EXCEPT ![w].pc = "check", ![w].kind = Inspected(q)]
    <2>1. /\ workers'[w].pc = "check" /\ workers'[w].kind = Inspected(q) /\ workers'[w].req = q
          /\ \A u \in Workers : u = w \/ Other(u)
      <3>1. \A kind : workers' = [workers EXCEPT ![w].pc = "check", ![w].kind = kind] =>
              /\ workers'[w].pc = "check" /\ workers'[w].kind = kind /\ workers'[w].req = q
              /\ \A u \in Workers : u = w \/ Other(u)
        BY WorkerFields
      <3>2. QED
        BY <1>3, <3>1
    <2>2. Inspected(q) = "pending" => Known(q) /\ Pending(q.key)
      BY DEF Inspected, Known, Pending
    <2>3. UNCHANGED flights
      BY <1>3 DEF InspectAgain
    <2> HIDE DEF q
    <2>4. SeenPending(r)' => SeenPending(r) \/ (q = r /\ Inspected(q) = "pending")
      BY <2>1 DEF SeenPending
    <2>5. Retried(r)' => Retried(r)
      BY <2>1, <2>3 DEF Retried
    <2>6. QED
      BY <2>2, <2>4, <2>5
  <1>4. CASE /\ Check(w) /\ session.revision = q.expected
             /\ workers' = [workers EXCEPT ![w].pc = "plan", ![w].seen = session]
    <2>1. /\ workers[w].pc = "check"
          /\ workers'[w].pc = "plan" /\ workers'[w].kind = workers[w].kind /\ workers'[w].req = q
          /\ \A u \in Workers : u = w \/ Other(u)
          /\ UNCHANGED flights
      BY <1>4 DEF Check, IInv, Shapes, WorkerShapes
    <2> HIDE DEF q
    <2>2. workers[w].kind = "pending" => SeenPending(q)
      BY <2>1 DEF SeenPending, q
    <2>3. SeenPending(r)' => SeenPending(r)
      BY <2>1 DEF SeenPending
    <2>4. Retried(r)' => Retried(r) \/ (q = r /\ workers[w].kind = "pending")
      BY <2>1 DEF Retried
    <2>5. QED
      BY <1>4, <2>2, <2>3, <2>4
  <1>5. CASE \E b : /\ Plan(w)
                    /\ workers' = [workers EXCEPT ![w].pc = "sent", ![w].seen = None, ![w].batch = b]
    <2>1. /\ workers[w].pc = "plan"
          /\ workers'[w].pc = "sent" /\ workers'[w].kind = workers[w].kind /\ workers'[w].req = q
          /\ \A u \in Workers : u = w \/ Other(u)
          /\ UNCHANGED flights
      BY <1>5 DEF Plan, IInv, Shapes, WorkerShapes
    <2> HIDE DEF q
    <2>2. workers[w].kind = "pending" => Retried(q)
      BY <2>1 DEF Retried, q
    <2>3. SeenPending(r)' => SeenPending(r)
      BY <2>1 DEF SeenPending
    <2>4. Retried(r)' => Retried(r)
      BY <2>1, <2>2 DEF Retried
    <2>5. QED
      BY <2>3, <2>4
  <1>6. CASE InspectAgain(w)
    BY <1>1, <1>3, <1>6 DEF InspectAgain
  <1>7. CASE Check(w)
    BY <1>1, <1>2, <1>4, <1>7 DEF Check
  <1>8. CASE Plan(w)
    BY <1>1, <1>5, <1>8 DEF Plan
  <1>9. QED
    BY <1>6, <1>7, <1>8

\* What is sent has been planned with its audit rows.
LEMMA WrittenStep ==
  ASSUME IInv, BatchesWritten, [Next]_vars
  PROVE  BatchesWritten'
  <1>1. ASSUME NEW w \in Workers, workers'[w].pc = "sent", workers'[w] # workers[w]
        PROVE  Written(workers'[w].batch)
    <2>1. Plan(w) /\ workers[w].req \in Requests
      BY <1>1, SentByPlan DEF IInv, Handlers, WorkerOK, RequestPcs, Plan
    <2> DEFINE r == workers[w].req
               b == BatchOf(r, workers[w].kind, workers[w].seen)
    <2>2. /\ r.op = "manual_pick" => r.seat \notin Taken
          /\ workers' = [workers EXCEPT ![w].pc = "sent", ![w].seen = None, ![w].batch = b]
      BY <1>1, <2>1, MoverPc DEF Plan
    <2>3. Proper(b.req, b.bids)
      BY <2>1, <2>2, BatchProper
    <2> HIDE DEF b
    <2>4. workers'[w].batch = b
      BY <2>2 DEF IInv, Shapes, WorkerShapes
    <2>5. QED
      BY <2>3, <2>4 DEF Proper, Written
  <1>2. ASSUME NEW b \in flights'
        PROVE  b \in flights \/ \E w \in Workers : workers[w].pc = "sent" /\ b = workers[w].batch
    BY FlightsOfSent
  <1>3. QED
    BY <1>1, <1>2 DEF BatchesWritten, Written

\* A batch executed, in time or late.
LEMMA LateExecute ==
  ASSUME KeyPerCommand, IInv, LateInv, NEW b, BatchOK(b), Written(b), Execute(b),
         b.reserve \/ Retried(b.req), NoneRetried
  PROVE  Attested' /\ PendingBehind' /\ RetriesKnown' /\ OneOdd'
  <1> DEFINE r == b.req
             k == r.key
  <1>1. /\ r \in Requests /\ k \in Keys /\ r.expected \in Nat /\ r # None
        /\ \A j \in Keys \ {k} : receipts'[j] = receipts[j]
        /\ receipts'[k] = IF Completes(b) THEN Completed(r, b.answer) ELSE receipts[k]
        /\ session.revision \in Nat /\ session'.revision \in Nat
        /\ session'.revision >= session.revision
    BY RequestTypes, ExecutedReceipts DEF IInv, BatchOK, Shapes, TableShapes
  <1>2. bids' = bids \cup b.bids /\ b.answer.picked = b.bids
    BY DEF Execute, BatchOK, Answer
  <1>3. /\ Completed(r, b.answer).done /\ Completed(r, b.answer).req = r
        /\ Completed(r, b.answer).answer = b.answer
        /\ Completed(r, b.answer) # NoReceipt /\ ~NoReceipt.done
    BY <1>1 DEF Completed, NoReceipt
  <1>4. b.reserve => receipts[k] = NoReceipt /\ BidsOf(r) = {} /\ Completes(b)
    <2>1. b.reserve => receipts[k] = NoReceipt /\ Completes(b)
      BY DEF Execute, BatchAllowed, Completes
    <2>2. QED
      BY <1>1, <2>1, CommandOfBids DEF LateInv
  <1>5. ~b.reserve => Known(r) /\ (Pending(k) => BidsOf(r) = {}) /\ (Completes(b) = Pending(k))
    BY <1>1 DEF LateInv, RetriesKnown, Completes, Known, Pending
  <1>6. receipts'[k].done /\ receipts'[k].req = r /\ receipts'[k] # NoReceipt
    BY <1>1, <1>3, <1>4, <1>5 DEF Known, Pending
  <1>7. ASSUME NEW q \in Requests, q # r
        PROVE  Fingerprint(q) # Fingerprint(r) /\ {x \in bids' : x.id[1] = Fingerprint(q)} = BidsOf(q)
    BY <1>1, <1>2, <1>7 DEF KeyPerCommand, Written, BidsOf
  <1>8. ASSUME NEW j \in Keys, j # k, receipts[j] # NoReceipt
        PROVE  /\ receipts[j].req \in Requests /\ receipts[j].req # r /\ receipts[j].req.key = j
               /\ BidsOf(receipts[j].req)' = BidsOf(receipts[j].req)
    <2>1. receipts[j].req \in Requests /\ receipts[j].req.key = j
      BY <1>8 DEF IInv, Records, ReceiptOK
    <2>2. QED
      BY <1>1, <1>7, <1>8, <2>1 DEF BidsOf
  <1> HIDE DEF r, k
  <1>9. Attested'
    <2>1. SUFFICES ASSUME NEW x \in bids'
                   PROVE  \E j \in Keys :
                            /\ receipts'[j] # NoReceipt /\ Fingerprint(receipts'[j].req) = x.id[1]
                            /\ receipts'[j].done => x.audited
      BY DEF Attested
    <2>2. CASE x \in b.bids
      BY <1>1, <1>6, <2>2 DEF Written, r
    <2>3. CASE x \in bids
      <3>1. PICK j \in Keys :
              /\ receipts[j] # NoReceipt /\ Fingerprint(receipts[j].req) = x.id[1]
              /\ receipts[j].done => x.audited
        BY <2>3 DEF LateInv, Attested
      <3>2. CASE j # k
        BY <1>1, <3>1, <3>2
      <3>3. CASE j = k
        <4>1. ~b.reserve /\ receipts[k].req = r
          BY <1>4, <1>5, <3>1, <3>3 DEF Known, r, k
        <4>2. x \in BidsOf(r)
          BY <2>3, <3>1, <3>3, <4>1 DEF BidsOf
        <4>3. receipts[k].done
          BY <1>5, <3>1, <3>3, <4>1, <4>2 DEF Pending
        <4>4. receipts'[k] = receipts[k]
          BY <1>1, <1>5, <4>1, <4>3 DEF Pending
        <4>5. QED
          BY <1>1, <3>1, <3>3, <4>4
      <3>4. QED
        BY <3>2, <3>3
    <2>4. QED
      BY <1>2, <2>2, <2>3
  <1>10. PendingBehind'
    <2>1. SUFFICES ASSUME NEW j \in Keys, Pending(j)', BidsOf(receipts[j].req)' # {}
                   PROVE  receipts'[j].req.expected < session'.revision
      BY DEF PendingBehind
    <2>2. j # k /\ receipts'[j] = receipts[j] /\ Pending(j)
      BY <1>1, <1>6, <2>1 DEF Pending
    <2>3. BidsOf(receipts[j].req) # {} /\ receipts[j].req.expected \in Nat
      BY <1>8, <2>1, <2>2, RequestTypes DEF Pending, BidsOf
    <2>4. receipts[j].req.expected < session.revision
      BY <2>2, <2>3 DEF LateInv, PendingBehind
    <2>5. QED
      BY <1>1, <2>2, <2>3, <2>4
  <1>11. RetriesKnown'
    <2>1. SUFFICES ASSUME NEW q \in Requests, SeenPending(q)' \/ Retried(q)'
                   PROVE  Known(q)' /\ (Retried(q)' /\ Pending(q.key)' => BidsOf(q)' = {})
      BY DEF RetriesKnown
    <2>2. /\ Known(q) /\ q.key \in Keys
          /\ Retried(q)' /\ Pending(q.key) => BidsOf(q) = {}
      BY <2>1, RequestTypes DEF NoneRetried, LateInv, RetriesKnown
    <2>3. CASE q.key = k
      <3>1. ~b.reserve /\ receipts[k].req = r
        BY <1>4, <1>5, <2>2, <2>3 DEF Known, r, k
      <3>2. q = r
        BY <2>2, <2>3, <3>1 DEF Known
      <3>3. QED
        BY <1>6, <2>3, <3>2 DEF Known, Pending
    <2>4. CASE q.key # k
      <3>1. receipts'[q.key] = receipts[q.key] /\ BidsOf(q)' = BidsOf(q)
        BY <1>1, <1>8, <2>2, <2>4 DEF Known
      <3>2. QED
        BY <2>2, <3>1 DEF Known, Pending
    <2>5. QED
      BY <2>3, <2>4
  <1>12. OneOdd'
    <2>1. SUFFICES ASSUME NEW j \in Keys, Odd(j)'
                   PROVE  Odd(j)
      BY DEF OneOdd, LateInv
    <2>2. (\E q \in Requests : q.key = j /\ (SeenPending(q)' \/ Retried(q)')) => Odd(j)
      BY DEF NoneRetried, Odd
    <2>3. CASE j = k
      <3>1. CASE b.reserve
        <4>1. Exact(k)'
          <5>1. receipts'[k].answer.picked = b.bids
            BY <1>1, <1>2, <1>3, <1>4, <3>1 DEF r, k
          <5>2. {x \in bids' : x.id[1] = Fingerprint(r)} = b.bids
            BY <1>2, <1>4, <3>1 DEF Written, BidsOf, r
          <5>3. QED
            BY <1>6, <5>1, <5>2 DEF Exact, BidsOf
        <4>2. QED
          BY <1>6, <2>1, <2>2, <2>3, <4>1 DEF Odd, Pending
      <3>2. CASE ~b.reserve
        BY <1>1, <2>3, <3>2 DEF Odd, r, k
      <3>3. QED
        BY <3>1, <3>2
    <2>4. CASE j # k
      <3>1. receipts'[j] = receipts[j]
        BY <1>1, <2>4
      <3>2. receipts[j].done => receipts[j] # NoReceipt
        BY <1>3
      <3>3. receipts[j].done => (Exact(j)' = Exact(j))
        BY <1>8, <2>4, <3>1, <3>2 DEF Exact, BidsOf
      <3>4. QED
        BY <2>1, <2>2, <3>1, <3>3 DEF Odd, Pending
    <2>5. QED
      BY <2>3, <2>4
  <1>13. QED
    BY <1>9, <1>10, <1>11, <1>12

\* A step that leaves the bids and the receipts alone.  A command that it lets be
\* retried is at its revision, and has no bids.
LEMMA LateQuiet ==
  ASSUME IInv, LateInv, UNCHANGED <<bids, receipts>>, session'.revision \in Nat,
         session'.revision >= session.revision,
         \A r \in Requests :
           /\ SeenPending(r)' => SeenPending(r) \/ (Known(r) /\ Pending(r.key))
           /\ Retried(r)' => Retried(r) \/ (SeenPending(r) /\ session.revision = r.expected)
  PROVE  Attested' /\ PendingBehind' /\ RetriesKnown' /\ OneOdd'
  <1>1. Attested'
    BY DEF LateInv, Attested
  <1>2. PendingBehind'
    <2>1. SUFFICES ASSUME NEW k \in Keys, Pending(k), BidsOf(receipts[k].req) # {}
                   PROVE  receipts[k].req.expected < session'.revision
      BY DEF PendingBehind, Pending, BidsOf
    <2>2. receipts[k].req.expected < session.revision
      BY <2>1 DEF LateInv, PendingBehind
    <2>3. receipts[k].req.expected \in Nat /\ session.revision \in Nat
      BY <2>1, RequestTypes DEF IInv, Shapes, TableShapes, Records, ReceiptOK, Pending
    <2>4. QED
      BY <2>2, <2>3
  <1>3. RetriesKnown'
    <2>1. SUFFICES ASSUME NEW r \in Requests, SeenPending(r)' \/ Retried(r)'
                   PROVE  Known(r) /\ (Retried(r)' /\ Pending(r.key) => BidsOf(r) = {})
      BY DEF RetriesKnown, Known, Pending, BidsOf
    <2>2. Known(r)
      BY <2>1 DEF LateInv, RetriesKnown
    <2>3. ASSUME Retried(r)', Pending(r.key), ~Retried(r)
          PROVE  BidsOf(r) = {}
      <3>1. session.revision = r.expected /\ r.expected \in Nat /\ r.key \in Keys
        BY <2>3, RequestTypes
      <3>2. QED
        BY <2>2, <2>3, <3>1 DEF LateInv, PendingBehind, Known
    <2>4. QED
      BY <2>2, <2>3 DEF LateInv, RetriesKnown
  <1>4. OneOdd'
    <2>1. SUFFICES ASSUME NEW k \in Keys, Odd(k)'
                   PROVE  Odd(k)
      BY DEF OneOdd, LateInv
    <2>2. (\E r \in Requests : r.key = k /\ (SeenPending(r)' \/ Retried(r)')) => Odd(k)
      BY DEF Odd
    <2>3. QED
      BY <2>1, <2>2 DEF Odd, Pending, Exact, BidsOf
  <1>5. QED
    BY <1>1, <1>2, <1>3, <1>4

\* A recovery completes a pending receipt with the bids that are there, all audited.
LEMMA LateRecover ==
  ASSUME KeyPerCommand, IInv, LateInv, NEW w \in Workers, Recover(w), NoneRetried
  PROVE  Attested' /\ PendingBehind' /\ RetriesKnown' /\ OneOdd'
  <1> DEFINE r == workers[w].req
             done == Answer(r, "recovered", BidsOf(r))
  <1>1. r \in Requests /\ r.key \in Keys /\ UNCHANGED <<bids, session>>
    BY RequestTypes DEF Recover, IInv, Handlers, WorkerOK, RequestPcs
  <1>2. CASE UNCHANGED receipts
    BY <1>1, <1>2, LateQuiet DEF IInv, Shapes, TableShapes, NoneRetried
  <1>3. CASE /\ Inspected(r) = "pending" /\ Evidence(r)
             /\ receipts' = [receipts EXCEPT ![r.key] = Completed(r, done)]
    <2>1. Known(r) /\ Pending(r.key) /\ \A b \in BidsOf(r) : b.audited
      BY <1>3 DEF Inspected, Evidence, Pending, Known
    <2>2. /\ receipts'[r.key].req = r /\ receipts'[r.key].done
          /\ receipts'[r.key].answer.picked = BidsOf(r) /\ receipts'[r.key] # NoReceipt
          /\ \A k \in Keys \ {r.key} : receipts'[k] = receipts[k]
      BY <1>1, <1>3 DEF IInv, Shapes, TableShapes, Completed, Answer, NoReceipt
    <2> HIDE DEF r, done
    <2>3. Attested'
      <3>1. SUFFICES ASSUME NEW x \in bids
                     PROVE  \E k \in Keys :
                              /\ receipts'[k] # NoReceipt /\ Fingerprint(receipts'[k].req) = x.id[1]
                              /\ receipts'[k].done => x.audited
        BY <1>1 DEF Attested
      <3>2. PICK k \in Keys :
              /\ receipts[k] # NoReceipt /\ Fingerprint(receipts[k].req) = x.id[1]
              /\ receipts[k].done => x.audited
        BY DEF LateInv, Attested
      <3>3. CASE k = r.key
        BY <1>1, <2>1, <2>2, <3>2, <3>3 DEF BidsOf, Known
      <3>4. CASE k # r.key
        BY <2>2, <3>2, <3>4
      <3>5. QED
        BY <3>3, <3>4
    <2>4. ASSUME NEW k \in Keys, Pending(k)'
          PROVE  k # r.key /\ receipts'[k] = receipts[k] /\ Pending(k)
      BY <2>2, <2>4 DEF Pending
    <2>5. PendingBehind'
      BY <1>1, <2>4 DEF LateInv, PendingBehind, BidsOf
    <2>6. RetriesKnown'
      <3>1. SUFFICES ASSUME NEW q \in Requests, SeenPending(q)' \/ Retried(q)'
                     PROVE  Known(q)' /\ (Retried(q)' /\ Pending(q.key)' => BidsOf(q)' = {})
        BY DEF RetriesKnown
      <3>2. /\ Known(q) /\ q.key \in Keys
            /\ Retried(q)' /\ Pending(q.key) => BidsOf(q) = {}
        BY <3>1, RequestTypes DEF NoneRetried, LateInv, RetriesKnown
      <3>3. Known(q)'
        BY <2>1, <2>2, <3>2 DEF Known
      <3>4. Pending(q.key)' => Pending(q.key) /\ BidsOf(q)' = BidsOf(q)
        BY <1>1, <2>4, <3>2 DEF BidsOf
      <3>5. QED
        BY <3>2, <3>3, <3>4
    <2>7. OneOdd'
      <3>1. SUFFICES ASSUME NEW k \in Keys, Odd(k)'
                     PROVE  Odd(k)
        BY DEF OneOdd, LateInv
      <3>2. CASE k = r.key
        BY <2>1, <3>2 DEF Odd
      <3>3. CASE k # r.key
        <4>1. Exact(k)' = Exact(k) /\ receipts'[k] = receipts[k]
          BY <1>1, <2>2, <3>3 DEF Exact, BidsOf
        <4>2. QED
          BY <3>1, <4>1 DEF Odd, Pending, NoneRetried
      <3>4. QED
        BY <3>2, <3>3
    <2>8. QED
      BY <2>3, <2>5, <2>6, <2>7
  <1>4. \/ UNCHANGED receipts
        \/ /\ Inspected(r) = "pending" /\ Evidence(r)
           /\ receipts' = [receipts EXCEPT ![r.key] = Completed(r, done)]
    BY DEF Recover
  <1>5. QED
    BY <1>2, <1>3, <1>4

\* A batch that a Worker has sent reserves its receipt, or is a retry.
LEMMA SentRetried ==
  ASSUME IInv, NEW w \in Workers, workers[w].pc = "sent"
  PROVE  workers[w].batch.reserve \/ Retried(workers[w].batch.req)
  <1>1. /\ workers[w].kind \in {"new", "pending"} /\ workers[w].batch.req = workers[w].req
        /\ workers[w].batch.reserve = (workers[w].kind = "new")
    BY DEF IInv, Handlers, WorkerOK
  <1>2. QED
    BY <1>1 DEF Retried

LEMMA LateStep ==
  ASSUME KeyPerCommand, IInv, LateInv, [Next]_vars
  PROVE  LateInv'
  <1> DEFINE Goal == Attested' /\ PendingBehind' /\ RetriesKnown' /\ OneOdd'
             Quiet == /\ UNCHANGED <<bids, receipts>> /\ session'.revision \in Nat
                      /\ session'.revision >= session.revision
  <1>0. BatchesWritten'
    BY WrittenStep DEF LateInv
  <1> SUFFICES Goal
    BY <1>0 DEF LateInv
  <1>1. session.revision \in Nat
    BY DEF IInv, Shapes, TableShapes
  <1>2. Quiet /\ NoneRetried => Goal
    BY LateQuiet DEF NoneRetried
  <1>3. ASSUME NEW w \in Workers, InspectAgain(w) \/ Check(w) \/ Plan(w)
        PROVE  Goal
    <2>1. Quiet
      BY <1>1, <1>3 DEF InspectAgain, Check, Plan, tables
    <2>2. QED
      BY <1>3, <2>1, NewRetries, LateQuiet
  <1>4. ASSUME NEW w \in Workers, Recover(w)
        PROVE  Goal
    BY <1>4, NothingRetried, LateRecover
  <1>5. ASSUME NEW w \in Workers, Commit(w) \/ CommitUnheard(w) \/ Crash(w)
        PROVE  Goal
    <2>1. NoneRetried
      BY <1>5, NothingRetried
    <2>2. UNCHANGED tables \/ (workers[w].pc = "sent" /\ Execute(workers[w].batch))
      BY <1>5 DEF Commit, CommitUnheard, Crash
    <2>3. CASE UNCHANGED tables
      BY <1>1, <1>2, <2>1, <2>3 DEF tables
    <2>4. CASE workers[w].pc = "sent" /\ Execute(workers[w].batch)
      BY <2>1, <2>4, SentFacts, SentRetried, LateExecute DEF LateInv, BatchesWritten
    <2>5. QED
      BY <2>2, <2>3, <2>4
  <1>6. ASSUME NEW b \in flights, LateBatch(b)
        PROVE  Goal
    <2>1. NoneRetried
      BY <1>6, NothingRetried
    <2>2. CASE UNCHANGED tables
      BY <1>1, <1>2, <2>1, <2>2 DEF tables
    <2>3. CASE Execute(b)
      <3>1. BatchOK(b) /\ Written(b)
        BY DEF IInv, InFlights, LateInv, BatchesWritten
      <3>2. b.reserve \/ Retried(b.req)
        BY DEF Retried
      <3>3. QED
        BY <2>1, <2>3, <3>1, <3>2, LateExecute
    <2>4. QED
      BY <1>6, <2>2, <2>3 DEF LateBatch, tables
  <1>7. CASE \/ UNCHANGED vars
             \/ \E r \in Requests : AnswerSettled(r)
             \/ \E w \in Workers, r \in Requests : Submit(w, r)
             \/ \E w \in Workers :
                  \/ Abort(w) \/ CallFails(w) \/ Recheck(w) \/ Verify(w) \/ Release(w)
                  \/ ReleaseFails(w)
    <2>1. UNCHANGED <<bids, receipts, session>>
      BY <1>7 DEF vars, tables, AnswerSettled, Submit, Abort, CallFails, Recheck, Verify,
                  Release, ReleaseFails
    <2>2. NoneRetried
      BY <1>7, NothingRetried
    <2>3. QED
      BY <1>1, <1>2, <2>1, <2>2
  <1>8. CASE Start \/ Pause \/ DayEnd \/ Resume \/ CloseMock \/ Seal
    <2>1. Quiet
      BY <1>8, OthersRevision
    <2>2. NoneRetried
      BY <1>8, NothingRetried
    <2>3. QED
      BY <1>2, <2>1, <2>2
  <1>9. QED
    BY <1>3, <1>4, <1>5, <1>6, <1>7, <1>8 DEF Next

LEMMA InitLate == Init => LateInv
  <1> SUFFICES ASSUME Init PROVE LateInv
    OBVIOUS
  <1>1. \A r : ~NoReceipt.done /\ ~Receipt(r).done /\ Receipt(r).req = r
    BY DEF NoReceipt, Receipt
  <1>2. /\ \A w \in Workers : workers[w].pc = "idle"
        /\ flights = {}
    BY DEF Init, Idle
  <1>3. BatchesWritten /\ \A r : ~SeenPending(r) /\ ~Retried(r)
    BY <1>2 DEF BatchesWritten, SeenPending, Retried
  <1>4. RetriesKnown /\ \A k \in Keys : Odd(k) => Pending(k) \/ receipts[k].done
    BY <1>3 DEF RetriesKnown, Odd
  <1>5. CASE bids = {} /\ receipts = [k \in Keys |-> NoReceipt]
    BY <1>1, <1>3, <1>4, <1>5 DEF LateInv, Attested, PendingBehind, OneOdd, Pending
  <1>6. ASSUME NEW r \in Requests, Historic(r)
        PROVE  LateInv
    <2>1. /\ r.key \in Keys /\ r.expected \in Nat
          /\ \A k \in Keys : receipts[k] = IF k = r.key THEN Receipt(r) ELSE NoReceipt
      BY <1>6, RequestTypes DEF Historic
    <2>2. /\ \A k \in Keys : ~receipts[k].done /\ (Pending(k) => k = r.key)
          /\ receipts[r.key] # NoReceipt /\ receipts[r.key].req = r
      <3>1. r # None
        BY RequestTypes
      <3>2. Receipt(r) # NoReceipt
        BY <3>1 DEF Receipt, NoReceipt
      <3>3. QED
        BY <1>1, <2>1, <3>2 DEF Pending
    <2>3. bids = {} \/ /\ session.revision = r.expected + 1
                       /\ \E x : bids = {x} /\ x.id[1] = Fingerprint(r)
      BY <1>6 DEF Historic, BidOf
    <2>4. Attested
      BY <2>1, <2>2, <2>3 DEF Attested
    <2>5. PendingBehind
      BY <2>1, <2>2, <2>3 DEF PendingBehind, BidsOf
    <2>6. OneOdd
      BY <1>4, <2>2 DEF OneOdd
    <2>7. QED
      BY <1>3, <1>4, <2>4, <2>5, <2>6 DEF LateInv
  <1>7. QED
    BY <1>5, <1>6 DEF Init

\* Reservation, bids, audit rows and completion of a command are there together,
\* when every command has its own key: whatever batches D1 executes late, bids
\* nobody was told of belong to the one command an older program left pending.
THEOREM CommandsStayWhole ==
  ASSUME KeyPerCommand
  PROVE  Spec => []CommandsWhole
  <1>1. IInv /\ LateInv /\ [Next]_vars => LateInv'
    BY LateStep
  <1>2. Spec => []LateInv
    BY <1>1, InitLate, Invariance, PTL DEF Spec
  <1>3. IInv /\ PickedInv /\ WholeInv /\ LateInv => CommandsWhole
    <2> SUFFICES ASSUME IInv, PickedInv, WholeInv, LateInv PROVE CommandsWhole
      OBVIOUS
    <2>1. ASSUME NEW k \in Keys, receipts[k].done
          PROVE  receipts[k].answer.picked \subseteq BidsOf(receipts[k].req) /\ (late \/ Exact(k))
      <3>1. receipts[k].answer.req = receipts[k].req
        BY <2>1 DEF IInv, Records, ReceiptOK
      <3>2. Picked(bids, receipts[k].answer)
        BY <2>1 DEF PickedInv, RecordPicked
      <3>3. late \/ Exact(k)
        BY <2>1 DEF WholeInv, Whole, Together, Exact
      <3>4. QED
        BY <3>1, <3>2, <3>3 DEF Picked, BidsOf
    <2>2. \A j, k \in Keys :
            j # k /\ receipts[j].done /\ receipts[k].done => Exact(j) \/ Exact(k)
      BY DEF LateInv, OneOdd, Odd
    <2>3. QED
      BY <2>1, <2>2 DEF CommandsWhole, LateInv, Attested
  <1>4. QED
    BY <1>2, <1>3, WholeAlways, PickedAlways, PTL

=============================================================================
