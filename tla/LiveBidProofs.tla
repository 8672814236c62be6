---------------------------- MODULE LiveBidProofs ----------------------------
(***************************************************************************)
(* Proofs about LiveBid, for every frozen policy: what a command may do to *)
(* a paused session, and to the turn that an adjudication has suspended.   *)
(***************************************************************************)
EXTENDS LiveBid, TLAPS

\* Every state is built from the one before by EXCEPT, which keeps a field
\* only if it is there.
HasPhase == "phase" \in DOMAIN bid

\* t is a state that is paused if s is.
Keeps(s, t) == /\ "phase" \in DOMAIN t
               /\ s.phase = "paused" => t.phase = "paused"

-----------------------------------------------------------------------------
(* The pieces commands are put together from.                              *)

\* Giving the turn to somebody leaves a paused session paused.
LEMMA TurnedKeeps ==
  ASSUME NEW s, "phase" \in DOMAIN s, NEW turn
  PROVE  Keeps(s, Turned(s, turn))
BY DEF Turned, Keeps

LEMMA AdvanceKeeps ==
  ASSUME NEW s, "phase" \in DOMAIN s, NEW from
  PROVE  Keeps(s, Advance(s, from))
BY TurnedKeeps DEF Advance

\* Settling a contact case, closing an adjudication: the phase stays.
LEMMA SettlingKeeps ==
  ASSUME NEW s, "phase" \in DOMAIN s, NEW m, NEW override
  PROVE  /\ Keeps(s, SettleReturned(s, m))
         /\ Keeps(s, SettleSelected(s, m))
         /\ Keeps(s, ClearReturned(s))
         /\ Keeps(s, CloseReview(s, override))
BY DEF SettleReturned, SettleSelected, ClearReturned, CloseReview, Keeps

LEMMA KeepsTransitive ==
  ASSUME NEW s, NEW t, NEW u, Keeps(s, t), Keeps(t, u)
  PROVE  Keeps(s, u)
BY DEF Keeps

\* The evaluation behind every command: A-Days, the answered turn, the prompt,
\* which finds a complete session only.
LEMMA ConcludedKeeps ==
  ASSUME NEW s, "phase" \in DOMAIN s, NEW override, NEW named
  PROVE  Keeps(s, Concluded(s, override, named))
<1> DEFINE evaluated == ADaysEvaluated(s, named)
           resolved  == Resolved(evaluated, override)
<1>1. Keeps(s, evaluated)
  BY DEF ADaysEvaluated, ADaysOwed, WithOwing, WithPicks, Keeps
<1>2. Keeps(evaluated, resolved)
  BY <1>1, AdvanceKeeps DEF Resolved, Keeps
<1>3. Keeps(resolved, Prompted(resolved))
  BY <1>2 DEF Prompted, Keeps
<1>4. Keeps(s, Prompted(resolved))
  BY <1>1, <1>2, <1>3, KeepsTransitive
<1> QED
  BY <1>4 DEF Concluded

LEMMA AcceptKeeps ==
  ASSUME NEW s, Keeps(bid, s), NEW override, NEW named, Accept(s, override, named)
  PROVE  Keeps(bid, bid')
<1>1. bid' = Concluded(s, override, named)
  BY DEF Accept, Becomes
<1>2. Keeps(s, Concluded(s, override, named))
  BY ConcludedKeeps DEF Keeps
<1> QED
  BY <1>1, <1>2, KeepsTransitive

\* The same without an override, and with one for a named member.
LEMMA AcceptVariants ==
  ASSUME NEW s, Keeps(bid, s), NEW m, AcceptOrdinary(s) \/ AcceptDirected(s, m)
  PROVE  Keeps(bid, bid')
BY AcceptKeeps DEF AcceptOrdinary, AcceptDirected

-----------------------------------------------------------------------------
(* The commands, but for the clock.                                        *)

\* An award, by whichever command.
LEMMA SelectedKeeps ==
  ASSUME HasPhase, NEW m, NEW p, NEW aDay, NEW override
  PROVE  Keeps(bid, Selected(m, p, aDay, override))
<1> DEFINE deferral == IF override /\ ~aDay THEN p ELSE None
           awarded  == [bid EXCEPT !.fills[p] = Award(m, aDay, deferral), !.last = p]
           moved    == IF m = bid.bidder THEN Advance(awarded, bid.cursor + 1) ELSE awarded
           settled  == SettleSelected(moved, m)
<1>1. Keeps(bid, awarded)
  BY DEF HasPhase, Keeps
<1>2. Keeps(awarded, moved)
  <2> HIDE DEF awarded
  <2> QED
    BY <1>1, AdvanceKeeps DEF Keeps
<1>3. Keeps(moved, settled)
  <2> HIDE DEF moved
  <2> QED
    BY <1>2, SettlingKeeps DEF Keeps
<1>4. Keeps(settled, CloseReview(settled, override))
  <2> HIDE DEF settled
  <2> QED
    BY <1>3, SettlingKeeps DEF Keeps
<1>5. Keeps(bid, CloseReview(settled, override))
  <2> HIDE DEF awarded, moved, settled
  <2> QED
    BY <1>1, <1>2, <1>3, <1>4, KeepsTransitive
<1> QED
  BY <1>5 DEF Selected

LEMMA SelectingKeeps ==
  ASSUME HasPhase, Selecting
  PROVE  Keeps(bid, bid')
<1> SUFFICES ASSUME NEW m \in Members, NEW p \in Positions,
                    \/ RecordSelection(m, p)
                    \/ ForceSelection(m, p)
                    \/ \E forced \in BOOLEAN : FallbackSelection(m, p, forced)
                    \/ \E aDay \in BOOLEAN : DirectSelection(m, p, aDay)
             PROVE  Keeps(bid, bid')
  BY DEF Selecting
<1>1. \E aDay, override : AcceptOrdinary(Selected(m, p, aDay, override))
                             \/ AcceptDirected(Selected(m, p, aDay, override), m)
  BY DEF RecordSelection, ForceSelection, FallbackSelection, DirectSelection
<1> QED
  BY <1>1, SelectedKeeps, AcceptVariants

\* An A-Day: RecordADay runs in an A-Day turn, that is, not in a pause.
LEMMA PickingADayKeeps ==
  ASSUME HasPhase, PickingADay
  PROVE  Keeps(bid, bid')
<1> SUFFICES ASSUME NEW m \in Members, RecordADay(m) \/ DirectADay(m)
             PROVE  Keeps(bid, bid')
  BY DEF PickingADay
<1>1. CASE RecordADay(m)
  <2> DEFINE rest   == Among(bid.owing, Members \ {m})
             chosen == [bid EXCEPT !.picks = @ \cup {m}]
             picked == SettleSelected(chosen, m)
             next   == IF IsOrdinaryADayTurn(bid) THEN Advance(picked, bid.cursor + 1)
                       ELSE IF rest = <<>>
                       THEN [picked EXCEPT !.phase = "complete", !.bidder = None]
                       ELSE [picked EXCEPT !.bidder = Head(rest)]
  <2>1. bid.phase # "paused" /\ AcceptOrdinary(next)
    BY <1>1 DEF RecordADay
  <2>2. "phase" \in DOMAIN chosen
    BY DEF HasPhase
  <2>3. "phase" \in DOMAIN picked
    <3> HIDE DEF chosen
    <3> QED
      BY <2>2, SettlingKeeps DEF Keeps
  <2>4. "phase" \in DOMAIN next
    <3> HIDE DEF picked, rest
    <3>1. "phase" \in DOMAIN Advance(picked, bid.cursor + 1)
      BY <2>3, AdvanceKeeps DEF Keeps
    <3> QED
      BY <2>3, <3>1
  <2>5. Keeps(bid, next)
    BY <2>1, <2>4 DEF Keeps
  <2> HIDE DEF next
  <2> QED
    BY <2>1, <2>5, AcceptVariants
<1>2. CASE DirectADay(m)
  <2> DEFINE chosen == [bid EXCEPT !.fills[Seat(bid, m)] = Award(m, TRUE, None),
                                   !.picks = @ \ {m}, !.review = None]
  <2>1. AcceptDirected(SettleSelected(chosen, m), m)
    BY <1>2 DEF DirectADay
  <2>2. Keeps(bid, chosen)
    BY DEF HasPhase, Keeps
  <2> HIDE DEF chosen
  <2>3. Keeps(chosen, SettleSelected(chosen, m))
    BY <2>2, SettlingKeeps DEF Keeps
  <2> QED
    BY <2>1, <2>2, <2>3, KeepsTransitive, AcceptVariants
<1> QED
  BY <1>1, <1>2
\* Stages, order and completion; pause and resume are left to the theorem.
LEMMA TransitionKeeps ==
  ASSUME HasPhase, NEW st, NEW override, NEW prior, NEW withdraw, NEW restore,
         TransitionStage(st, override, prior, withdraw, restore)
  PROVE  Keeps(bid, bid')
<1> DEFINE here       == st = CurrentStage(bid)
           closing    == (IF here THEN {} ELSE {CurrentStage(bid)})
                           \cup (IF prior THEN 1 .. st - 1 ELSE {})
           told       == [bid EXCEPT !.completed = @ \cup closing,
                                     !.withdrawn = (@ \cup withdraw) \ restore]
           configured == ClearReturned(told)
           stays      == here /\ closing \subseteq bid.completed
           next       == IF stays THEN configured
                         ELSE Advance(configured, TransitionCursor(st))
<1>1. Accept(next, override, None)
  BY DEF TransitionStage
<1>2. Keeps(bid, told)
  <2> HIDE DEF closing
  <2> QED
    BY DEF HasPhase, Keeps
<1>3. Keeps(bid, configured)
  <2> HIDE DEF told
  <2>1. Keeps(told, configured)
    BY <1>2, SettlingKeeps DEF Keeps
  <2> QED
    BY <1>2, <2>1, KeepsTransitive
<1>4. Keeps(bid, next)
  <2> HIDE DEF configured, stays
  <2>1. Keeps(configured, Advance(configured, TransitionCursor(st)))
    BY <1>3, AdvanceKeeps DEF Keeps
  <2> QED
    BY <1>3, <2>1, KeepsTransitive
<1> HIDE DEF next
<1> QED
  BY <1>1, <1>4, AcceptKeeps

LEMMA AlterOrderKeeps ==
  ASSUME HasPhase, NEW source, NEW override, AlterOrder(source, override)
  PROVE  Keeps(bid, bid')
<1> DEFINE order   == [i \in DOMAIN bid.order |->
                         IF i \in Editable THEN bid.order[source[i]] ELSE bid.order[i]]
           told    == [bid EXCEPT !.order = order]
           altered == CloseReview(told, override)
           next    == IF override \/ Editable # Remaining
                      THEN Advance(altered, bid.cursor)
                      ELSE [altered EXCEPT !.bidder = order[bid.cursor].member]
<1>1. Accept(next, override, None)
  BY DEF AlterOrder
<1> HIDE DEF order
<1>2. Keeps(bid, told)
  BY DEF HasPhase, Keeps
<1>3. Keeps(bid, altered)
  <2> HIDE DEF told
  <2>1. Keeps(told, altered)
    BY <1>2, SettlingKeeps DEF Keeps
  <2> QED
    BY <1>2, <2>1, KeepsTransitive
<1>4. Keeps(bid, next)
  <2> HIDE DEF altered
  <2>1. Keeps(altered, Advance(altered, bid.cursor))
    BY <1>3, AdvanceKeeps DEF Keeps
  <2>2. Keeps(bid, Advance(altered, bid.cursor))
    BY <1>3, <2>1, KeepsTransitive
  <2>3. Keeps(bid, [altered EXCEPT !.bidder = order[bid.cursor].member])
    BY <1>3 DEF Keeps
  <2> QED
    BY <2>2, <2>3
<1> HIDE DEF next
<1> QED
  BY <1>1, <1>4, AcceptKeeps

LEMMA CompleteKeeps ==
  ASSUME HasPhase, CompleteSession
  PROVE  Keeps(bid, bid')
<1> DEFINE next == [bid EXCEPT !.sealed = TRUE, !.returning = None]
<1>1. AcceptOrdinary(next)
  BY DEF CompleteSession
<1>2. Keeps(bid, next)
  BY DEF HasPhase, Keeps
<1> HIDE DEF next
<1> QED
  BY <1>1, <1>2, AcceptVariants

\* Specialty adjudication.
LEMMA AdjudicatingKeeps ==
  ASSUME HasPhase, Adjudicating
  PROVE  Keeps(bid, bid')
<1>1. \A v : Keeps(bid, [bid EXCEPT !.review = v])
  BY DEF HasPhase, Keeps
<1>2. \A v, r : Keeps(bid, [bid EXCEPT !.review = v, !.responses = r])
  BY DEF HasPhase, Keeps
<1>3. \A f, l, o, v :
        Keeps(bid, [bid EXCEPT !.fills = f, !.last = l, !.order = o, !.review = v])
  BY DEF HasPhase, Keeps
<1>4. ASSUME NEW p, StartSpecialty(p) PROVE Keeps(bid, bid')
  BY <1>1, <1>4, AcceptVariants DEF StartSpecialty
<1>5. ASSUME NEW d, RespondSpecialty(d) PROVE Keeps(bid, bid')
  BY <1>2, <1>5, AcceptVariants DEF RespondSpecialty
<1>6. ASSUME NEW p, AcceptSpecialty(p) PROVE Keeps(bid, bid')
  <2>1. PICK f, l, o, v :
          AcceptOrdinary([bid EXCEPT !.fills = f, !.last = l, !.order = o, !.review = v])
    BY <1>6 DEF AcceptSpecialty
  <2> QED
    BY <1>3, <2>1, AcceptVariants
<1>7. ASSUME CloseSpecialty PROVE Keeps(bid, bid')
  BY <1>1, <1>7, AcceptVariants DEF CloseSpecialty
<1> QED
  BY <1>4, <1>5, <1>6, <1>7 DEF Adjudicating
\* Contacts and dispositions.
LEMMA DispositionKeeps ==
  ASSUME HasPhase, NEW d, Disposition(d)
  PROVE  Keeps(bid, bid')
<1> DEFINE m    == IF bid.returning # None THEN bid.returning ELSE bid.bidder
           told == [bid EXCEPT !.disposition[m] = d,
                               !.unresolved = IF d = "UNREACHABLE" THEN @ \cup {m} ELSE @]
           next == IF ~Rules[d].advances THEN told
                   ELSE IF bid.returning = None THEN Advance(told, bid.cursor + 1)
                   ELSE SettleReturned(told, m)
<1>1. AcceptOrdinary(next)
  BY DEF Disposition
<1>2. Keeps(bid, told)
  <2> HIDE DEF m
  <2> QED
    BY DEF HasPhase, Keeps
<1>3. Keeps(bid, next)
  <2> HIDE DEF m, told
  <2>1. Keeps(told, Advance(told, bid.cursor + 1))
    BY <1>2, AdvanceKeeps DEF Keeps
  <2>2. Keeps(told, SettleReturned(told, m))
    BY <1>2, SettlingKeeps DEF Keeps
  <2> QED
    BY <1>2, <2>1, <2>2, KeepsTransitive
<1> HIDE DEF next
<1> QED
  BY <1>1, <1>3, AcceptVariants

LEMMA OverrideDeferKeeps ==
  ASSUME HasPhase, NEW named, NEW ofStage, OverrideDefer(named, ofStage)
  PROVE  Keeps(bid, bid')
<1>1. \A m : Keeps(bid, SettleReturned(bid, m))
  BY SettlingKeeps DEF HasPhase
<1>2. ASSUME NEW s, Keeps(bid, s), NEW o, NEW u, NEW d
      PROVE  Keeps(bid, [s EXCEPT !.order = o, !.unresolved = u, !.disposition = d,
                                  !.review = None])
  BY <1>2 DEF Keeps
<1>3. PICK m, o, u, d :
        Accept(Advance([SettleReturned(bid, m) EXCEPT
                          !.order = o, !.unresolved = u, !.disposition = d,
                          !.review = None], bid.cursor), TRUE, named)
  BY DEF OverrideDefer
<1> DEFINE moved == [SettleReturned(bid, m) EXCEPT
                       !.order = o, !.unresolved = u, !.disposition = d, !.review = None]
<1>4. Keeps(bid, moved)
  BY <1>1, <1>2
<1>5. Accept(Advance(moved, bid.cursor), TRUE, named)
  BY <1>3
<1> HIDE DEF moved
<1>6. Keeps(moved, Advance(moved, bid.cursor))
  BY <1>4, AdvanceKeeps DEF Keeps
<1> QED
  BY <1>4, <1>5, <1>6, KeepsTransitive, AcceptKeeps

\* Acting duty.
LEMMA AssignKeeps ==
  ASSUME HasPhase, NEW m, NEW override, AssignActing(m, override)
  PROVE  Keeps(bid, bid')
<1> DEFINE told     == [bid EXCEPT !.acting = @ \cup {m}]
           settled  == SettleSelected(told, m)
           assigned == CloseReview(settled, override)
           next     == IF m = bid.bidder THEN Advance(assigned, bid.cursor + 1)
                       ELSE assigned
<1>1. \E named : Accept(next, override, named)
  BY DEF AssignActing
<1>2. Keeps(bid, told)
  BY DEF HasPhase, Keeps
<1> HIDE DEF told
<1>3. Keeps(told, settled)
  BY <1>2, SettlingKeeps DEF Keeps
<1> HIDE DEF settled
<1>4. Keeps(settled, assigned)
  BY <1>3, SettlingKeeps DEF Keeps
<1> HIDE DEF assigned
<1>5. Keeps(assigned, next)
  BY <1>4, AdvanceKeeps DEF Keeps
<1> HIDE DEF next
<1> QED
  BY <1>1, <1>2, <1>3, <1>4, <1>5, KeepsTransitive, AcceptKeeps

LEMMA ReleaseKeeps ==
  ASSUME HasPhase, NEW m, NEW override, ReleaseActing(m, override)
  PROVE  Keeps(bid, bid')
<1> DEFINE told     == [bid EXCEPT !.acting = @ \ {m}]
           settled  == SettleSelected(told, m)
           released == CloseReview(settled, override)
           returned == [released EXCEPT !.returning = m]
<1>1. \E named : Accept(released, override, named) \/ Accept(returned, override, named)
  BY DEF ReleaseActing
<1>2. Keeps(bid, told)
  BY DEF HasPhase, Keeps
<1> HIDE DEF told
<1>3. Keeps(told, settled)
  BY <1>2, SettlingKeeps DEF Keeps
<1> HIDE DEF settled
<1>4. Keeps(settled, released)
  BY <1>3, SettlingKeeps DEF Keeps
<1> HIDE DEF released
<1>5. Keeps(released, returned)
  BY <1>4 DEF Keeps
<1> HIDE DEF returned
<1> QED
  BY <1>1, <1>2, <1>3, <1>4, <1>5, KeepsTransitive, AcceptKeeps

LEMMA ContactingKeeps ==
  ASSUME HasPhase, Contacting
  PROVE  Keeps(bid, bid')
<1>1. ASSUME NEW m, ContactAttempt(m) PROVE Keeps(bid, bid')
  <2>1. \A a : Keeps(bid, [bid EXCEPT !.attempts = a])
    BY DEF HasPhase, Keeps
  <2>2. PICK a : AcceptOrdinary([bid EXCEPT !.attempts = a])
    BY <1>1 DEF ContactAttempt
  <2> QED
    BY <2>1, <2>2, AcceptVariants
<1>2. ASSUME NEW m, DeclareUnreachable(m) PROVE Keeps(bid, bid')
  <2>1. \A u : Keeps(bid, [bid EXCEPT !.unresolved = u])
    BY DEF HasPhase, Keeps
  <2> QED
    BY <1>2, <2>1, AcceptVariants DEF DeclareUnreachable
<1>3. ASSUME NEW m, ReturnAtCurrentSequence(m) PROVE Keeps(bid, bid')
  <2>1. \A u : Keeps(bid, [bid EXCEPT !.unresolved = u, !.returning = m])
    BY DEF HasPhase, Keeps
  <2> QED
    BY <1>3, <2>1, AcceptVariants DEF ReturnAtCurrentSequence
<1> QED
  BY <1>1, <1>2, <1>3, DispositionKeeps, OverrideDeferKeeps, AssignKeeps, ReleaseKeeps
  DEF Contacting

\* Corrections.
LEMMA CorrectionKeeps ==
  ASSUME HasPhase, NEW s, Keeps(bid, s), NEW m, NEW override,
         AcceptCorrection(s, m, override)
  PROVE  Keeps(bid, bid')
<1>1. Keeps(s, CloseReview(s, override))
  BY SettlingKeeps DEF Keeps
<1>2. Keeps(bid, CloseReview(s, override))
  BY <1>1, KeepsTransitive
<1> QED
  BY <1>2, AcceptKeeps DEF AcceptCorrection

LEMMA CorrectingKeeps ==
  ASSUME HasPhase, Correcting
  PROVE  Keeps(bid, bid')
<1>1. \A f, k, l, r :
        Keeps(bid, [bid EXCEPT !.fills = f, !.picks = k, !.last = l, !.revoked = r])
  BY DEF HasPhase, Keeps
<1>2. ASSUME NEW m, NEW override, CorrectRevoke(m, override) PROVE Keeps(bid, bid')
  <2>1. PICK f, k, l, r :
          AcceptCorrection([bid EXCEPT !.fills = f, !.picks = k, !.last = l, !.revoked = r],
                           m, override)
    BY <1>2 DEF CorrectRevoke
  <2> QED
    BY <1>1, <2>1, CorrectionKeeps
<1>3. ASSUME NEW m, NEW p, NEW aDay, NEW override, CorrectReplace(m, p, aDay, override)
      PROVE  Keeps(bid, bid')
  <2>1. PICK f, k, l, r : \E s :
          /\ s = [bid EXCEPT !.fills = f, !.picks = k, !.last = l, !.revoked = r]
          /\ AcceptCorrection(IF override THEN SettleSelected(s, m) ELSE s, m, override)
    BY <1>3 DEF CorrectReplace
  <2>2. PICK s :
          /\ Keeps(bid, s)
          /\ AcceptCorrection(IF override THEN SettleSelected(s, m) ELSE s, m, override)
    BY <1>1, <2>1
  <2>3. Keeps(bid, SettleSelected(s, m))
    BY <2>2, SettlingKeeps, KeepsTransitive DEF Keeps
  <2> QED
    BY <2>2, <2>3, CorrectionKeeps
<1>4. ASSUME NEW p, NEW aDay, Amend(p, aDay) PROVE Keeps(bid, bid')
  <2>1. \A f : Keeps(bid, [bid EXCEPT !.fills = f, !.last = p])
    BY DEF HasPhase, Keeps
  <2>2. PICK f : AcceptOrdinary([bid EXCEPT !.fills = f, !.last = p])
    BY <1>4 DEF Amend
  <2> QED
    BY <2>1, <2>2, AcceptVariants
<1> QED
  BY <1>2, <1>3, <1>4 DEF Correcting

-----------------------------------------------------------------------------
(* A pause ends by resume only.                                            *)

\* A step pauses, resumes, or leaves a paused session paused.
LEMMA PauseStep ==
  ASSUME HasPhase, [Next]_bid
  PROVE  Resume \/ Keeps(bid, bid')
<1>1. ASSUME Pause PROVE Keeps(bid, bid')
  BY <1>1 DEF Pause, HasPhase, Keeps
<1>2. CASE UNCHANGED bid
  BY <1>2 DEF HasPhase, Keeps
<1>3. CASE Sequencing
  BY <1>1, <1>3, TransitionKeeps, AlterOrderKeeps, CompleteKeeps DEF Sequencing
<1> QED
  BY <1>2, <1>3, SelectingKeeps, PickingADayKeeps, CorrectingKeeps, ContactingKeeps,
     AdjudicatingKeeps DEF Next

\* A paused session stays paused, whatever an administrator does to it meanwhile,
\* until it is resumed; and resume gives back the turn exactly as it was held.
THEOREM PausedUntilResumed == Spec => StaysPaused
<1>1. Init => HasPhase
  BY DEF Init, HasPhase
<1>2. HasPhase /\ [Next]_bid => HasPhase'
  <2>1. ASSUME HasPhase, Resume PROVE HasPhase'
    BY <2>1 DEF HasPhase, Resume
  <2> QED
    BY <2>1, PauseStep DEF HasPhase, Keeps
<1>3. HasPhase /\ [Next]_bid =>
        [bid.phase = "paused" /\ bid'.phase # "paused"
           => bid' = [bid EXCEPT !.phase = bid.held, !.held = None]]_bid
  BY PauseStep DEF Resume, Keeps
<1> QED
  BY <1>1, <1>2, <1>3, PTL DEF Spec, StaysPaused

-----------------------------------------------------------------------------
(* The suspended turn.  A command either closes the adjudication (or finds *)
(* none), or it leaves alone the phase, the bidder and who was suspended;  *)
(* only then is the evaluation behind it without effect on the turn.       *)

Fields(s) == {"phase", "held", "bidder", "review"} \subseteq DOMAIN s

Held(s) ==
  /\ Fields(s)
  /\ s.review # None => /\ "suspended" \in DOMAIN s.review
                        /\ s.bidder = s.review.suspended
                        /\ Executing(s) = "position_bid"

Closed(s) == Fields(s) /\ s.review = None

\* t differs from s in other fields.
Alike(s, t) ==
  /\ Fields(t)
  /\ t.phase = s.phase /\ t.held = s.held /\ t.bidder = s.bidder /\ t.review = s.review

LEMMA ClosedHeld ==
  ASSUME NEW s, Closed(s)
  PROVE  Held(s)
BY DEF Closed, Held

LEMMA AlikeHeld ==
  ASSUME NEW s, NEW t, Held(s), Alike(s, t)
  PROVE  Held(t) /\ (Closed(s) => Closed(t))
BY DEF Alike, Held, Closed, Executing

\* The turn may move once no adjudication is open.
LEMMA AdvanceClosed ==
  ASSUME NEW s, Closed(s), NEW from
  PROVE  Closed(Advance(s, from))
<1>1. ASSUME NEW turn PROVE Closed(Turned(s, turn))
  BY DEF Closed, Fields, Turned
<1> QED
  BY <1>1 DEF Advance

LEMMA SettlingAlike ==
  ASSUME NEW s, Fields(s), NEW m
  PROVE  /\ Alike(s, SettleReturned(s, m))
         /\ Alike(s, SettleSelected(s, m))
         /\ Alike(s, ClearReturned(s))
BY DEF Fields, Alike, SettleReturned, SettleSelected, ClearReturned

\* An override closes the adjudication.
LEMMA CloseReviewCloses ==
  ASSUME NEW s, Fields(s), NEW override, override \/ s.review = None
  PROVE  Closed(CloseReview(s, override))
BY DEF Fields, Closed, CloseReview

LEMMA EvaluatedAlike ==
  ASSUME NEW s, Fields(s), NEW named
  PROVE  Alike(s, ADaysEvaluated(s, named))
<1>1. Alike(s, WithPicks(s))
  BY DEF Fields, Alike, WithPicks
<1>2. ASSUME NEW t, Alike(s, t), NEW waiting PROVE Alike(s, WithOwing(t, waiting))
  BY <1>2 DEF Fields, Alike, WithOwing
<1> QED
  BY <1>1, <1>2 DEF ADaysEvaluated, ADaysOwed

\* The evaluation behind a command: Resolved moves the turn after an override
\* only, Prompted that of a complete session.
LEMMA ConcludedHeld ==
  ASSUME NEW s, Held(s), NEW override, override => s.review = None, NEW named
  PROVE  Held(Concluded(s, override, named))
<1> DEFINE evaluated == ADaysEvaluated(s, named)
           resolved  == Resolved(evaluated, override)
<1>1. Alike(s, evaluated)
  BY EvaluatedAlike DEF Held
<1>2. Held(evaluated) /\ (override => Closed(evaluated))
  BY <1>1, AlikeHeld DEF Held, Closed
<1> HIDE DEF evaluated
<1>3. Held(resolved)
  BY <1>2, AdvanceClosed, ClosedHeld DEF Resolved
<1> HIDE DEF resolved
<1>4. Held(Prompted(resolved))
  <2>1. CASE resolved.phase = "complete" /\ resolved.owing # <<>>
    <3>1. Closed(resolved)
      BY <1>3, <2>1 DEF Held, Closed, Executing
    <3>2. ASSUME NEW b
          PROVE  Closed([resolved EXCEPT !.phase = "a_day_bid", !.bidder = b])
      BY <3>1 DEF Closed, Fields
    <3> QED
      BY <2>1, <3>2, ClosedHeld DEF Prompted
  <2>2. CASE ~(resolved.phase = "complete" /\ resolved.owing # <<>>)
    BY <1>3, <2>2 DEF Prompted
  <2> QED
    BY <2>1, <2>2
<1> QED
  BY <1>4 DEF Concluded, resolved, evaluated

LEMMA AcceptHeld ==
  ASSUME NEW s, Held(s), NEW override, override => s.review = None, NEW named,
         Accept(s, override, named)
  PROVE  Held(bid')
BY ConcludedHeld DEF Accept, Becomes

LEMMA AcceptClosed ==
  ASSUME NEW s, Closed(s), NEW override, NEW named, Accept(s, override, named)
  PROVE  Held(bid')
BY AcceptHeld, ClosedHeld DEF Closed

LEMMA AcceptAlike ==
  ASSUME NEW s, Held(bid), Alike(bid, s), AcceptOrdinary(s)
  PROVE  Held(bid')
BY AcceptHeld, AlikeHeld DEF AcceptOrdinary

-----------------------------------------------------------------------------
(* The same commands once more.                                            *)

\* An award is made outside any adjudication, or by an override that closes it.
LEMMA SelectedClosed ==
  ASSUME Fields(bid), NEW m, NEW p, NEW aDay, NEW override,
         override \/ bid.review = None
  PROVE  Closed(Selected(m, p, aDay, override))
<1> DEFINE deferral == IF override /\ ~aDay THEN p ELSE None
           awarded  == [bid EXCEPT !.fills[p] = Award(m, aDay, deferral), !.last = p]
           moved    == IF m = bid.bidder THEN Advance(awarded, bid.cursor + 1) ELSE awarded
           settled  == SettleSelected(moved, m)
<1>1. Fields(awarded) /\ awarded.review = bid.review
  BY DEF Fields
<1> HIDE DEF awarded
<1>2. Fields(moved) /\ moved.review = awarded.review
  <2>1. ASSUME NEW turn
        PROVE  Fields(Turned(awarded, turn)) /\ Turned(awarded, turn).review = awarded.review
    BY <1>1 DEF Fields, Turned
  <2> QED
    BY <1>1, <2>1 DEF Advance
<1> HIDE DEF moved
<1>3. Fields(settled) /\ settled.review = moved.review
  BY <1>2, SettlingAlike DEF Alike
<1> HIDE DEF settled
<1>4. Closed(CloseReview(settled, override))
  BY <1>1, <1>2, <1>3, CloseReviewCloses
<1> QED
  BY <1>4 DEF Selected, settled, moved, awarded

LEMMA SelectingHeld ==
  ASSUME Held(bid), Selecting
  PROVE  Held(bid')
<1> SUFFICES ASSUME NEW m \in Members, NEW p \in Positions,
                    \/ RecordSelection(m, p)
                    \/ ForceSelection(m, p)
                    \/ \E forced \in BOOLEAN : FallbackSelection(m, p, forced)
                    \/ \E aDay \in BOOLEAN : DirectSelection(m, p, aDay)
             PROVE  Held(bid')
  BY DEF Selecting
<1>1. \/ /\ bid.review = None
         /\ \E aDay : Accept(Selected(m, p, aDay, FALSE), FALSE, None)
      \/ \E aDay : Accept(Selected(m, p, aDay, TRUE), TRUE, m)
  BY DEF RecordSelection, ForceSelection, FallbackSelection, DirectSelection,
         AcceptOrdinary, AcceptDirected
<1> QED
  BY <1>1, SelectedClosed, AcceptClosed DEF Held

\* An A-Day turn is not a position turn, so no adjudication is open in it.
LEMMA PickingADayHeld ==
  ASSUME Held(bid), PickingADay
  PROVE  Held(bid')
<1> SUFFICES ASSUME NEW m \in Members, RecordADay(m) \/ DirectADay(m)
             PROVE  Held(bid')
  BY DEF PickingADay
<1>1. CASE RecordADay(m)
  <2> DEFINE rest   == Among(bid.owing, Members \ {m})
             chosen == [bid EXCEPT !.picks = @ \cup {m}]
             picked == SettleSelected(chosen, m)
             next   == IF IsOrdinaryADayTurn(bid) THEN Advance(picked, bid.cursor + 1)
                       ELSE IF rest = <<>>
                       THEN [picked EXCEPT !.phase = "complete", !.bidder = None]
                       ELSE [picked EXCEPT !.bidder = Head(rest)]
  <2>1. bid.phase = "a_day_bid" /\ Accept(next, FALSE, None)
    BY <1>1 DEF RecordADay, AcceptOrdinary
  <2>2. Closed(chosen)
    BY <2>1 DEF Held, Closed, Executing, Fields
  <2> HIDE DEF chosen
  <2>3. Closed(picked)
    BY <2>2, SettlingAlike, AlikeHeld, ClosedHeld DEF Closed
  <2> HIDE DEF picked
  <2>4. Closed(Advance(picked, bid.cursor + 1))
    BY <2>3, AdvanceClosed
  <2>5. Closed([picked EXCEPT !.phase = "complete", !.bidder = None])
    BY <2>3 DEF Closed, Fields
  <2>6. Closed([picked EXCEPT !.bidder = Head(rest)])
    BY <2>3 DEF Closed, Fields
  <2>7. Closed(next)
    BY <2>4, <2>5, <2>6
  <2> HIDE DEF next
  <2> QED
    BY <2>1, <2>7, AcceptClosed
<1>2. CASE DirectADay(m)
  <2> DEFINE chosen == [bid EXCEPT !.fills[Seat(bid, m)] = Award(m, TRUE, None),
                                   !.picks = @ \ {m}, !.review = None]
  <2>1. Accept(SettleSelected(chosen, m), TRUE, m)
    BY <1>2 DEF DirectADay, AcceptDirected
  <2>2. Closed(chosen)
    BY DEF Held, Closed, Fields
  <2> HIDE DEF chosen
  <2>3. Closed(SettleSelected(chosen, m))
    BY <2>2, SettlingAlike, AlikeHeld, ClosedHeld DEF Closed
  <2> QED
    BY <2>1, <2>3, AcceptClosed
<1> QED
  BY <1>1, <1>2

LEMMA CorrectionHeld ==
  ASSUME Held(bid), NEW s, Fields(s), s.review = bid.review, NEW m, NEW override,
         AcceptCorrection(s, m, override)
  PROVE  Held(bid')
BY CloseReviewCloses, AcceptClosed DEF AcceptCorrection

LEMMA CorrectingHeld ==
  ASSUME Held(bid), Correcting
  PROVE  Held(bid')
<1>1. \A f, k, l, r :
        Alike(bid, [bid EXCEPT !.fills = f, !.picks = k, !.last = l, !.revoked = r])
  BY DEF Held, Fields, Alike
<1>2. ASSUME NEW m, NEW override, CorrectRevoke(m, override) PROVE Held(bid')
  <2>1. PICK f, k, l, r : \E s :
          /\ s = [bid EXCEPT !.fills = f, !.picks = k, !.last = l, !.revoked = r]
          /\ AcceptCorrection(s, m, override)
    BY <1>2 DEF CorrectRevoke
  <2>2. PICK s : Alike(bid, s) /\ AcceptCorrection(s, m, override)
    BY <1>1, <2>1
  <2> QED
    BY <2>2, CorrectionHeld DEF Alike
<1>3. ASSUME NEW m, NEW p, NEW aDay, NEW override, CorrectReplace(m, p, aDay, override)
      PROVE  Held(bid')
  <2>1. PICK f, k, l, r : \E s :
          /\ s = [bid EXCEPT !.fills = f, !.picks = k, !.last = l, !.revoked = r]
          /\ AcceptCorrection(IF override THEN SettleSelected(s, m) ELSE s, m, override)
    BY <1>3 DEF CorrectReplace
  <2>2. PICK s :
          /\ Alike(bid, s)
          /\ AcceptCorrection(IF override THEN SettleSelected(s, m) ELSE s, m, override)
    BY <1>1, <2>1
  <2>3. Alike(s, SettleSelected(s, m))
    BY <2>2, SettlingAlike DEF Alike
  <2> QED
    BY <2>2, <2>3, CorrectionHeld DEF Alike
<1>4. ASSUME NEW p, NEW aDay, Amend(p, aDay) PROVE Held(bid')
  <2>1. \A f : Alike(bid, [bid EXCEPT !.fills = f, !.last = p])
    BY DEF Held, Fields, Alike
  <2>2. PICK f : AcceptOrdinary([bid EXCEPT !.fills = f, !.last = p])
    BY <1>4 DEF Amend
  <2> QED
    BY <2>1, <2>2, AcceptAlike
<1> QED
  BY <1>2, <1>3, <1>4 DEF Correcting

LEMMA TransitionHeld ==
  ASSUME Held(bid), NEW st, NEW override, NEW prior, NEW withdraw, NEW restore,
         TransitionStage(st, override, prior, withdraw, restore)
  PROVE  Held(bid')
<1> DEFINE here       == st = CurrentStage(bid)
           closing    == (IF here THEN {} ELSE {CurrentStage(bid)})
                           \cup (IF prior THEN 1 .. st - 1 ELSE {})
           told       == [bid EXCEPT !.completed = @ \cup closing,
                                     !.withdrawn = (@ \cup withdraw) \ restore]
           configured == ClearReturned(told)
           stays      == here /\ closing \subseteq bid.completed
           next       == IF stays THEN configured
                         ELSE Advance(configured, TransitionCursor(st))
<1>1. bid.review = None /\ Accept(next, override, None)
  BY DEF TransitionStage
<1>2. Closed(told)
  <2> HIDE DEF closing
  <2> QED
    BY <1>1 DEF Held, Closed, Fields
<1> HIDE DEF told
<1>3. Closed(configured)
  BY <1>2, SettlingAlike, AlikeHeld, ClosedHeld DEF Closed
<1> HIDE DEF configured, stays
<1>4. Closed(next)
  BY <1>3, AdvanceClosed
<1> HIDE DEF next
<1> QED
  BY <1>1, <1>4, AcceptClosed

LEMMA AlterOrderHeld ==
  ASSUME Held(bid), NEW source, NEW override, AlterOrder(source, override)
  PROVE  Held(bid')
<1> DEFINE order   == [i \in DOMAIN bid.order |->
                         IF i \in Editable THEN bid.order[source[i]] ELSE bid.order[i]]
           told    == [bid EXCEPT !.order = order]
           altered == CloseReview(told, override)
           next    == IF override \/ Editable # Remaining
                      THEN Advance(altered, bid.cursor)
                      ELSE [altered EXCEPT !.bidder = order[bid.cursor].member]
<1>1. (override \/ bid.review = None) /\ Accept(next, override, None)
  BY DEF AlterOrder
<1> HIDE DEF order
<1>2. Alike(bid, told)
  BY DEF Held, Fields, Alike
<1> HIDE DEF told
<1>3. Closed(altered)
  BY <1>1, <1>2, CloseReviewCloses DEF Alike
<1> HIDE DEF altered
<1>4. Closed([altered EXCEPT !.bidder = order[bid.cursor].member])
  BY <1>3 DEF Closed, Fields
<1>5. Closed(next)
  BY <1>3, <1>4, AdvanceClosed
<1> HIDE DEF next
<1> QED
  BY <1>1, <1>5, AcceptClosed

LEMMA SequencingHeld ==
  ASSUME Held(bid), Sequencing
  PROVE  Held(bid')
<1>1. ASSUME Pause PROVE Held(bid')
  BY <1>1 DEF Pause, Held, Fields, Executing
<1>2. ASSUME Resume PROVE Held(bid')
  BY <1>2 DEF Resume, Held, Fields, Executing
<1>3. ASSUME CompleteSession PROVE Held(bid')
  <2>1. Alike(bid, [bid EXCEPT !.sealed = TRUE, !.returning = None])
    BY DEF Held, Fields, Alike
  <2> QED
    BY <1>3, <2>1, AcceptAlike DEF CompleteSession
<1> QED
  BY <1>1, <1>2, <1>3, TransitionHeld, AlterOrderHeld DEF Sequencing

LEMMA DispositionHeld ==
  ASSUME Held(bid), NEW d, Disposition(d)
  PROVE  Held(bid')
<1> DEFINE m    == IF bid.returning # None THEN bid.returning ELSE bid.bidder
           told == [bid EXCEPT !.disposition[m] = d,
                               !.unresolved = IF d = "UNREACHABLE" THEN @ \cup {m} ELSE @]
           next == IF ~Rules[d].advances THEN told
                   ELSE IF bid.returning = None THEN Advance(told, bid.cursor + 1)
                   ELSE SettleReturned(told, m)
<1>1. bid.review = None /\ Accept(next, FALSE, None)
  BY DEF Disposition, AcceptOrdinary
<1> HIDE DEF m
<1>2. Closed(told)
  BY <1>1 DEF Held, Closed, Fields
<1> HIDE DEF told
<1>3. Closed(SettleReturned(told, m))
  BY <1>2, SettlingAlike, AlikeHeld, ClosedHeld DEF Closed
<1>4. Closed(next)
  BY <1>2, <1>3, AdvanceClosed
<1> HIDE DEF next
<1> QED
  BY <1>1, <1>4, AcceptClosed

LEMMA OverrideDeferHeld ==
  ASSUME Held(bid), NEW named, NEW ofStage, OverrideDefer(named, ofStage)
  PROVE  Held(bid')
<1>1. \A m : Fields(SettleReturned(bid, m))
  BY SettlingAlike DEF Held, Alike
<1>2. ASSUME NEW s, Fields(s), NEW o, NEW u, NEW d
      PROVE  Closed([s EXCEPT !.order = o, !.unresolved = u, !.disposition = d,
                              !.review = None])
  BY <1>2 DEF Closed, Fields
<1>3. PICK m, o, u, d :
        Accept(Advance([SettleReturned(bid, m) EXCEPT
                          !.order = o, !.unresolved = u, !.disposition = d,
                          !.review = None], bid.cursor), TRUE, named)
  BY DEF OverrideDefer
<1> DEFINE moved == [SettleReturned(bid, m) EXCEPT
                       !.order = o, !.unresolved = u, !.disposition = d, !.review = None]
<1>4. Closed(moved)
  BY <1>1, <1>2
<1>5. Accept(Advance(moved, bid.cursor), TRUE, named)
  BY <1>3
<1> HIDE DEF moved
<1> QED
  BY <1>4, <1>5, AdvanceClosed, AcceptClosed

LEMMA ActingHeld ==
  ASSUME Held(bid), NEW m, NEW override,
         AssignActing(m, override) \/ ReleaseActing(m, override)
  PROVE  Held(bid')
<1> DEFINE duty(a)     == [bid EXCEPT !.acting = a]
           settled(a)  == SettleSelected(duty(a), m)
           done(a)     == CloseReview(settled(a), override)
           returned(a) == [done(a) EXCEPT !.returning = m]
<1>1. override \/ bid.review = None
  BY DEF AssignActing, ReleaseActing, MayAssign, Held
<1>2. \A a : Alike(bid, duty(a))
  BY DEF Held, Fields, Alike
<1>3. \E a, named : \/ Accept(done(a), override, named)
                    \/ Accept(returned(a), override, named)
                    \/ Accept(Advance(done(a), bid.cursor + 1), override, named)
  BY DEF AssignActing, ReleaseActing
<1> HIDE DEF duty
<1>4. \A a : Alike(duty(a), settled(a))
  BY <1>2, SettlingAlike DEF Alike
<1> HIDE DEF settled
<1>5. \A a : Closed(done(a))
  BY <1>1, <1>2, <1>4, CloseReviewCloses DEF Alike
<1> HIDE DEF done
<1>6. \A a : Closed(returned(a))
  BY <1>5 DEF Closed, Fields
<1> HIDE DEF returned
<1> QED
  BY <1>3, <1>5, <1>6, AdvanceClosed, AcceptClosed

LEMMA ContactingHeld ==
  ASSUME Held(bid), Contacting
  PROVE  Held(bid')
<1>1. ASSUME NEW m, ContactAttempt(m) PROVE Held(bid')
  <2>1. \A a : Alike(bid, [bid EXCEPT !.attempts = a])
    BY DEF Held, Fields, Alike
  <2>2. PICK a : AcceptOrdinary([bid EXCEPT !.attempts = a])
    BY <1>1 DEF ContactAttempt
  <2> QED
    BY <2>1, <2>2, AcceptAlike
<1>2. ASSUME NEW m, DeclareUnreachable(m) PROVE Held(bid')
  <2>1. \A u : Alike(bid, [bid EXCEPT !.unresolved = u])
    BY DEF Held, Fields, Alike
  <2> QED
    BY <1>2, <2>1, AcceptAlike DEF DeclareUnreachable
<1>3. ASSUME NEW m, ReturnAtCurrentSequence(m) PROVE Held(bid')
  <2>1. \A u : Alike(bid, [bid EXCEPT !.unresolved = u, !.returning = m])
    BY DEF Held, Fields, Alike
  <2> QED
    BY <1>3, <2>1, AcceptAlike DEF ReturnAtCurrentSequence
<1> QED
  BY <1>1, <1>2, <1>3, DispositionHeld, OverrideDeferHeld, ActingHeld DEF Contacting

\* The adjudication itself: the suspended bidder stays the one it began with.
LEMMA NextCandidateHeld ==
  ASSUME Held(bid), bid.review # None
  PROVE  NextCandidate # None =>
           /\ "suspended" \in DOMAIN NextCandidate
           /\ NextCandidate.suspended = bid.review.suspended
BY DEF Held, NextCandidate

LEMMA AdjudicatingHeld ==
  ASSUME Held(bid), Adjudicating
  PROVE  Held(bid')
<1> DEFINE Same(v) == v # None => /\ "suspended" \in DOMAIN v
                                  /\ v.suspended = bid.bidder
                                  /\ Executing(bid) = "position_bid"
<1>1. ASSUME NEW p, StartSpecialty(p) PROVE Held(bid')
  <2>1. \A c : LET v == [seat |-> p, suspended |-> bid.bidder, candidates |-> c, at |-> 1]
               IN  Held([bid EXCEPT !.review = v])
    BY <1>1 DEF StartSpecialty, Held, Fields, Executing
  <2>2. PICK c : AcceptOrdinary([bid EXCEPT !.review =
                   [seat |-> p, suspended |-> bid.bidder, candidates |-> c, at |-> 1]])
    BY <1>1 DEF StartSpecialty
  <2> QED
    BY <2>1, <2>2, AcceptHeld DEF AcceptOrdinary
<1>2. ASSUME NEW d, RespondSpecialty(d) PROVE Held(bid')
  <2>1. \A r : \A v : Same(v) => Held([bid EXCEPT !.review = v, !.responses = r])
    BY DEF Held, Fields, Executing
  <2>2. Same(NextCandidate)
    BY <1>2, NextCandidateHeld DEF RespondSpecialty, Held
  <2>3. PICK r : AcceptOrdinary([bid EXCEPT !.review = NextCandidate, !.responses = r])
    BY <1>2 DEF RespondSpecialty
  <2> QED
    BY <2>1, <2>2, <2>3, AcceptHeld DEF AcceptOrdinary
<1>3. ASSUME NEW p, AcceptSpecialty(p) PROVE Held(bid')
  <2>1. \A f, l, o, v :
          Same(v) => Held([bid EXCEPT !.fills = f, !.last = l, !.order = o, !.review = v])
    BY DEF Held, Fields, Executing
  <2>2. Same(NextCandidate) /\ Same(None)
    BY <1>3, NextCandidateHeld DEF AcceptSpecialty, Held
  <2>3. PICK f, l, o, v :
          /\ v \in {NextCandidate, None}
          /\ AcceptOrdinary([bid EXCEPT !.fills = f, !.last = l, !.order = o, !.review = v])
    BY <1>3 DEF AcceptSpecialty
  <2> QED
    BY <2>1, <2>2, <2>3, AcceptHeld DEF AcceptOrdinary
<1>4. ASSUME CloseSpecialty PROVE Held(bid')
  <2>1. Closed([bid EXCEPT !.review = None])
    BY DEF Held, Closed, Fields
  <2> QED
    BY <1>4, <2>1, AcceptClosed DEF CloseSpecialty, AcceptOrdinary
<1> QED
  BY <1>1, <1>2, <1>3, <1>4 DEF Adjudicating

\* While a specialty is adjudicated the suspended bidder has the turn, a position
\* turn, also during a pause: whatever would move it is barred or closes the review.
THEOREM SuspendedTurnHeld == Spec => []ReviewHoldsTurn
<1> DEFINE Inv == Held(bid)
<1>1. Init => Inv
  BY DEF Init, Held, Fields
<1>2. Inv /\ [Next]_bid => Inv'
  BY SelectingHeld, PickingADayHeld, CorrectingHeld, SequencingHeld, ContactingHeld,
     AdjudicatingHeld DEF Next
<1>3. Inv => ReviewHoldsTurn
  BY DEF Held, ReviewHoldsTurn
<1> QED
  BY <1>1, <1>2, <1>3, PTL DEF Spec

=============================================================================
