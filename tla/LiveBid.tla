------------------------------ MODULE LiveBid ------------------------------
(***************************************************************************)
(* The live command reducer: what one accepted command does to the         *)
(* canonical state of a running bid.  CanonicalCommand decides whether and *)
(* when a command is accepted, and stores the state as one document; here  *)
(* that document is the variable bid, and each action is one command: the  *)
(* guards the command service and the reducer apply, the new document, and *)
(* the A-Day evaluation by which the service concludes every command.      *)
(*                                                                         *)
(* A command may carry an acknowledged administrator override: that is     *)
(* the parameter override of the actions that allow one.  Verdicts about   *)
(* people and capacities (eligibility, pools, A-Day groups, the hard       *)
(* contact minimum) can only reject, so they are the freedom not to take   *)
(* an enabled action.                                                      *)
(***************************************************************************)
EXTENDS Naturals, Sequences, FiniteSets, Functions

CONSTANTS
  Members, Positions,
  Stages,       \* the frozen stages by order: [members, seats, days]
  Turns,        \* the frozen bid order: [member, stage]
  Deferred,     \* the positions whose A-Day is selected after the position
  Specialty,    \* the interrupting specialty: [seats, ranking]
  Rules,        \* disposition -> [advances, terminal, retains]
  Granted,      \* the actions that actionPermissions grants to anyone
  Fallback,     \* whether fallbackPolicies are configured
  MinAttempts,  \* contact.minimumAttempts
  MaxTurns,     \* bound on the bid order and the cursor
  None          \* null and undefined

StageIds     == DOMAIN Stages
Dispositions == DOMAIN Rules
Participants == UNION {Stages[i].members : i \in StageIds}
Biddable     == UNION {Stages[i].seats : i \in StageIds}
Ranked       == {Specialty.ranking[i] : i \in DOMAIN Specialty.ranking}
Phases       == {"position_bid", "a_day_bid", "complete", "paused"}
Turn         == [member : Members, stage : StageIds]

ASSUME BidPolicy ==
  /\ Turns \in Seq(Turn) /\ Turns # <<>> /\ Len(Turns) <= MaxTurns
  /\ \A i \in DOMAIN Turns : Turns[i].member \in Stages[Turns[i].stage].members
  /\ Stages \in Seq([members : SUBSET Members, seats : SUBSET Positions, days : BOOLEAN])
  /\ Deferred \subseteq Positions
  /\ Specialty.seats \subseteq Biddable
  /\ Specialty.ranking \in Seq(Members)
  /\ "DEFER" \in Dispositions
  /\ MinAttempts \in Nat /\ MaxTurns \in Nat /\ Fallback \in BOOLEAN
  /\ None \notin Members \cup Positions \cup Dispositions \cup Phases

VARIABLE
  bid  \* BidSessionState: see Init

First(S) == CHOOSE i \in S : \A j \in S : i <= j

\* Array.filter: the entries of s that are in T
Among(s, T) ==
  LET kept[i \in 0 .. Len(s)] ==
        IF i = 0 THEN <<>>
        ELSE IF s[i] \in T THEN Append(kept[i - 1], s[i]) ELSE kept[i - 1]
  IN kept[Len(s)]

Larger(i, j) == IF i < j THEN j ELSE i

\* A Fill: whose it is, whether it carries the A-Day, and the position for
\* which an override put the A-Day off (aDayDeferral.positionId).
Award(m, aDay, deferral) == [member |-> m, aDay |-> aDay, deferral |-> deferral]

Revocation(p, settled) == [position |-> p, settled |-> settled]

ASSUME NullIsNoRecord ==
  \A m \in Members, p \in Positions, d \in Positions \cup {None}, b \in BOOLEAN :
    Award(m, b, d) # None /\ Revocation(p, b) # None

Init ==
  bid = [phase |-> "position_bid", held |-> None,  \* currentPhase, pausedPhase
         cursor |-> 1, bidder |-> Turns[1].member, order |-> Turns,
         fills |-> [p \in Positions |-> None],
         last |-> None,                            \* position of lastSelectionBidId
         revoked |-> [m \in Members |-> None],     \* corrections not yet replaced
         picks |-> {}, owing |-> <<>>,             \* aDay.picks, unpicked aDay.bidOrder
         incomplete |-> TRUE,                      \* aDay.allocationIncomplete
         completed |-> {}, withdrawn |-> {},       \* stages, positions
         acting |-> {},                            \* exceptionalAssignments
         review |-> None, responses |-> {},        \* specialty, specialtyResponses
         disposition |-> [m \in Members |-> None], \* the latest of each member
         unresolved |-> {}, returning |-> None,
         attempts |-> [m \in Members |-> 0],
         sealed |-> FALSE]                         \* annual.completion

-----------------------------------------------------------------------------
(* What the queue is decided from.                                         *)

Filled(s)  == {p \in Positions : s.fills[p] # None}
Awarded(s) == {s.fills[p].member : p \in Filled(s)}
Seat(s, m) == CHOOSE p \in Filled(s) : s.fills[p].member = m

TurnsOf(s, m) == {i \in DOMAIN s.order : s.order[i].member = m}
TurnIsCompleted(s, t) == t.stage \in s.completed

HasOpenTurn(s, m) ==
  TurnsOf(s, m) # {} =>
    \E i \in TurnsOf(s, m) : ~TurnIsCompleted(s, s.order[i])

DefersADay(s, m) ==
  /\ HasOpenTurn(s, m)
  /\ \E p \in Filled(s) :
       /\ s.fills[p].member = m /\ ~s.fills[p].aDay
       /\ p \in Deferred \/ s.fills[p].deferral = p

OwesADay(s, m) == DefersADay(s, m) /\ m \notin s.picks

\* A Days entry brings the A-Day forward only for a Days seat.
BelongsToTurn(s, t) ==
  Stages[t.stage].days =>
    /\ t.member \in Awarded(s)
    /\ \E i \in StageIds : Stages[i].days /\ Seat(s, t.member) \in Stages[i].seats

OffersADay(s, t) ==
  /\ ~TurnIsCompleted(s, t)
  /\ OwesADay(s, t.member)
  /\ BelongsToTurn(s, t)

\* Mutant: members who hold a seat are not skipped.
OffersAnyone(s, t) == ~TurnIsCompleted(s, t) /\ t.member \notin s.acting

\* Mutant: members on acting duty are not skipped.
OffersActing(s, t) ==
  /\ ~TurnIsCompleted(s, t)
  /\ t.member \notin Awarded(s) \/ OffersADay(s, t)

\* What stops the loop of nextAvailableFrom at an entry of the order.
Offers(s, t) ==
  /\ ~TurnIsCompleted(s, t)
  /\ t.member \notin s.acting
  /\ t.member \notin Awarded(s) \/ OffersADay(s, t)

\* The first entry at or after from that offers a turn; behind the last entry,
\* where from may lie already, the first member who owes an A-Day.
TurnAt(cursor, bidder, phase) == [cursor |-> cursor, bidder |-> bidder, phase |-> phase]

TurnAtEntry(s, i) ==
  TurnAt(i, s.order[i].member,
         IF s.order[i].member \in Awarded(s) THEN "a_day_bid" ELSE "position_bid")

TurnFound(s, open, past, owed) ==
  IF open # {} THEN TurnAtEntry(s, First(open))
  ELSE IF owed # {} THEN TurnAt(past, s.order[First(owed)].member, "a_day_bid")
                    ELSE TurnAt(past, None, "complete")

NextAvailable(s, from) ==
  TurnFound(s, {i \in from .. Len(s.order) : Offers(s, s.order[i])},
            Larger(from, Len(s.order) + 1),
            {i \in DOMAIN s.order : OffersADay(s, s.order[i])})

\* The state with another turn; a paused session stays paused and resumes there.
\* Mutant: an override during a pause resumes the session.
TurnedResuming(s, turn) ==
  [s EXCEPT !.cursor = turn.cursor, !.bidder = turn.bidder, !.phase = turn.phase]

Turned(s, turn) ==
  [s EXCEPT !.cursor = turn.cursor, !.bidder = turn.bidder,
            !.phase = IF s.phase = "paused" THEN @ ELSE turn.phase,
            !.held  = IF s.phase = "paused" THEN turn.phase ELSE @]

Advance(s, from) == Turned(s, NextAvailable(s, from))

CurrentStage(s) == s.order[IF s.cursor \in DOMAIN s.order THEN s.cursor
                                                          ELSE Len(s.order)].stage

Executing(s) == IF s.phase = "paused" THEN s.held ELSE s.phase

IsOrdinaryADayTurn(s) ==
  /\ s.phase = "a_day_bid" /\ s.bidder # None
  /\ s.cursor \in DOMAIN s.order /\ s.order[s.cursor].member = s.bidder
  /\ DefersADay(s, s.bidder)

SettleReturned(s, m) == IF s.returning = m THEN [s EXCEPT !.returning = None] ELSE s

\* Mutant: an award leaves the member unresolved.
SettleReturnOnly(s, m) == SettleReturned(s, m)

SettleSelected(s, m) ==
  [SettleReturned(s, m) EXCEPT !.unresolved = @ \ {m}]

\* Mutant: an override leaves the adjudication open.
KeepReview(s, override) == s

CloseReview(s, override) == IF override THEN [s EXCEPT !.review = None] ELSE s

-----------------------------------------------------------------------------
(* How the command service concludes every command but pause and resume.   *)

\* evaluateFrozenADays: the A-Days of the awards, the earlier picks of awards
\* that carry none, and in bid order the members who still have to pick.
\* The member an override names may pick even after all turns are completed.
Given(s) == {s.fills[p].member : p \in {q \in Filled(s) : s.fills[q].aDay}}

WithPicks(s) == [s EXCEPT !.picks = (@ \cap Awarded(s)) \cup Given(s),
                          !.incomplete = s.phase # "complete"]

WithOwing(s, waiting) == [s EXCEPT !.owing = [i \in DOMAIN waiting |-> waiting[i].member]]

ADaysOwed(s, named) ==
  LET waiting == {m \in Awarded(s) \ s.picks : HasOpenTurn(s, m) \/ m = named}
  IN WithOwing(s, Among(s.order, {t \in Turn : t.member \in waiting}))

ADaysEvaluated(s, named) == ADaysOwed(WithPicks(s), named)

\* A_DAY_ASSIGNMENT_INVALID, A_DAY_REQUIRED_WITH_SELECTION
Evaluable(s) ==
  \A p \in Filled(s) :
    /\ \A q \in Filled(s) : s.fills[p].member = s.fills[q].member => p = q
    /\ s.fills[p].aDay \/ p \in Deferred \/ s.fills[p].deferral = p

\* An override that answers the active A-Day turn moves on.
Resolved(s, override) ==
  IF override /\ Executing(bid) = "a_day_bid" /\ bid.bidder \in s.picks
  THEN Advance(s, s.cursor + 1) ELSE s

\* When all seats are selected the first member who owes an A-Day gets a turn.
\* Mutant: only the queue gives turns.
PromptedInQueue(s) == s

Prompted(s) ==
  IF s.phase = "complete" /\ s.owing # <<>>
  THEN [s EXCEPT !.phase = "a_day_bid", !.bidder = Head(s.owing)] ELSE s

Concluded(s, override, named) == Prompted(Resolved(ADaysEvaluated(s, named), override))

\* The cursor can run away from the end of the order; MaxTurns bounds it.
Becomes(s) == s.cursor <= MaxTurns + 1 /\ bid' = s

Accept(s, override, named) == Evaluable(s) /\ Becomes(Concluded(s, override, named))

AcceptOrdinary(s) == Accept(s, FALSE, None)
AcceptDirected(s, m) == Accept(s, TRUE, m)

Permitted(action) == ~bid.sealed /\ action \in Granted
OpenSeat(p) == bid.fills[p] = None /\ p \notin bid.withdrawn

\* validateUnreachableContact, less the clock
Contacted(m) == bid.attempts[m] >= MinAttempts

-----------------------------------------------------------------------------
(* Interrupting specialties: who comes before the requester for a seat.    *)

RuleOf(m) == IF bid.disposition[m] \in Dispositions THEN {Rules[bid.disposition[m]]} ELSE {}

\* endedLiveSelectionRights
RightsEnded(m) ==
  \/ ~HasOpenTurn(bid, m)
  \/ m # bid.returning /\ \E rule \in RuleOf(m) : rule.terminal

Rank(m) == CHOOSE i \in DOMAIN Specialty.ranking : Specialty.ranking[i] = m

HoldsAnotherSeat(m, p) == \E q \in Filled(bid) \ {p} : bid.fills[q].member = m

\* The candidates above m for p, best first, who have not answered requester.
\* Mutant: an answer counts for every requester and seat.
AheadIgnoringRequest(m, p, requester) ==
  Among(Specialty.ranking,
        {c \in Ranked :
           /\ Rank(c) < Rank(m)
           /\ ~HoldsAnotherSeat(c, p) /\ c \notin bid.acting /\ ~RightsEnded(c)
           /\ ~\E r \in bid.responses : r.member = c})

Ahead(m, p, requester) ==
  Among(Specialty.ranking,
        {c \in Ranked :
           /\ Rank(c) < Rank(m)
           /\ ~HoldsAnotherSeat(c, p) /\ c \notin bid.acting /\ ~RightsEnded(c)
           /\ [seat |-> p, requester |-> requester, member |-> c] \notin bid.responses})

Requester(m, p) ==
  IF bid.review # None /\ bid.review.seat = p THEN bid.review.suspended ELSE m

\* What the service checks of each award of a command without fallback tier.
RankedFor(m, p) == p \in Specialty.seats => m \in Ranked
MayBeAwarded(m, p, requester) ==
  /\ m \notin bid.acting
  /\ RankedFor(m, p)
  /\ p \in Specialty.seats => Ahead(m, p, requester) = <<>>

-----------------------------------------------------------------------------
(* Selections.                                                             *)

\* Mutant: a selection out of turn ends the waiting turn.
SelectedAdvancing(m, p, aDay, override) ==
  LET deferral == IF override /\ ~aDay THEN p ELSE None
      awarded  == [bid EXCEPT !.fills[p] = Award(m, aDay, deferral), !.last = p]
  IN CloseReview(SettleSelected(Advance(awarded, bid.cursor + 1), m), override)

\* The award, the next turn if it was the bidder's, and the settled contact.
Selected(m, p, aDay, override) ==
  LET deferral == IF override /\ ~aDay THEN p ELSE None
      awarded  == [bid EXCEPT !.fills[p] = Award(m, aDay, deferral), !.last = p]
      moved    == IF m = bid.bidder THEN Advance(awarded, bid.cursor + 1) ELSE awarded
  IN CloseReview(SettleSelected(moved, m), override)

Selectable(m, p) ==
  /\ OpenSeat(p)
  /\ m \notin Awarded(bid) /\ bid.revoked[m] = None /\ TurnsOf(bid, m) # {}

\* A returned member has the rights of the stages reached, others of this one.
SelectionStages(m) ==
  IF m = bid.returning
  THEN {i \in StageIds : i <= CurrentStage(bid) /\ i \notin bid.completed}
  ELSE {CurrentStage(bid)}

\* live.record_selection in the member's own turn; it carries the A-Day
RecordSelection(m, p) ==
  /\ Permitted("record_selection") /\ bid.review = None
  /\ \/ bid.phase = "position_bid" /\ m \in {bid.bidder, bid.returning}
     \/ bid.phase \in {"a_day_bid", "complete"} /\ m = bid.returning
  /\ Selectable(m, p) /\ MayBeAwarded(m, p, Requester(m, p))
  /\ \E i \in SelectionStages(m) : m \in Stages[i].members /\ p \in Stages[i].seats
  /\ AcceptOrdinary(Selected(m, p, TRUE, FALSE))

\* live.force_selection where no fallback policy is configured; a deferred
\* A-Day comes with the member's own turn only
ForceSelection(m, p) ==
  /\ Permitted("force") /\ ~Fallback /\ bid.review = None
  /\ bid.phase = "position_bid"
  /\ Selectable(m, p) /\ MayBeAwarded(m, p, Requester(m, p))
  /\ m \in Stages[CurrentStage(bid)].members /\ p \in Stages[CurrentStage(bid)].seats
  /\ AcceptOrdinary(Selected(m, p, p \notin Deferred \/ m = bid.bidder, FALSE))

\* Either command under a fallback tier: evaluateBidFallback answers for the
\* member and the seat, the stage counts for a returned member only, a specialty
\* not at all
FallbackSelection(m, p, forced) ==
  /\ Permitted(IF forced THEN "force" ELSE "record_selection")
  /\ Fallback /\ bid.review = None
  /\ \/ bid.phase \in {"position_bid", "complete"}
     \/ bid.phase = "a_day_bid" /\ ~forced /\ m = bid.returning
  /\ Selectable(m, p) /\ HasOpenTurn(bid, m) /\ m \notin bid.acting
  /\ ~forced /\ m = bid.returning =>
       \E i \in SelectionStages(m) : m \in Stages[i].members /\ p \in Stages[i].seats
  /\ LET ownTurn == m = bid.bidder \/ (~forced /\ m = bid.returning)
     IN AcceptOrdinary(Selected(m, p, p \notin Deferred \/ ownTurn, FALSE))

\* live.record_selection with an override: any phase, any order, any stage
DirectSelection(m, p, aDay) ==
  /\ Permitted("force")
  /\ Selectable(m, p) /\ RankedFor(m, p)
  /\ m \in Participants /\ p \in Biddable
  /\ AcceptDirected(Selected(m, p, aDay, TRUE), m)

\* live.record_a_day in an A-Day turn
RecordADay(m) ==
  /\ Permitted("record_selection")
  /\ bid.phase = "a_day_bid" /\ bid.bidder = m
  /\ m \in Awarded(bid) \ bid.picks
  /\ LET rest   == Among(bid.owing, Members \ {m})
         picked == SettleSelected([bid EXCEPT !.picks = @ \cup {m}], m)
     IN AcceptOrdinary(
          IF IsOrdinaryADayTurn(bid) THEN Advance(picked, bid.cursor + 1)
          ELSE IF rest = <<>>
          THEN [picked EXCEPT !.phase = "complete", !.bidder = None]
          ELSE [picked EXCEPT !.bidder = Head(rest)])

\* live.record_a_day with an override: at any time, also in place of another
DirectADay(m) ==
  /\ Permitted("force")
  /\ m \in Awarded(bid)
  /\ LET chosen == [bid EXCEPT !.fills[Seat(bid, m)] = Award(m, TRUE, None),
                               !.picks = @ \ {m}, !.review = None]
     IN AcceptDirected(SettleSelected(chosen, m), m)

-----------------------------------------------------------------------------
(* The clock, the stages and the order.                                    *)

\* live.pause, live.resume: no A-Day evaluation
Pause ==
  /\ Permitted("pause_resume") /\ bid.phase # "paused"
  /\ bid' = [bid EXCEPT !.held = bid.phase, !.phase = "paused"]

Resume ==
  /\ Permitted("pause_resume") /\ bid.phase = "paused"
  /\ bid' = [bid EXCEPT !.phase = bid.held, !.held = None]

StageStart(st) == First({i \in DOMAIN bid.order : bid.order[i].stage = st})

TransitionCursor(st) ==
  IF st = CurrentStage(bid) THEN bid.cursor ELSE Larger(bid.cursor, StageStart(st))

ClearReturned(s) ==
  IF s.returning # None /\ ~HasOpenTurn(s, s.returning)
  THEN [s EXCEPT !.returning = None] ELSE s

\* live.transition_stage: to this or a later stage, the current one completed;
\* an override may also complete all earlier ones, withdraw and restore seats
TransitionStage(st, override, prior, withdraw, restore) ==
  /\ Permitted("approve_transition") /\ bid.review = None
  /\ st >= CurrentStage(bid) /\ st \notin bid.completed
  /\ prior \/ withdraw # {} \/ restore # {} => override
  /\ withdraw \cup restore \subseteq Biddable \ Filled(bid)
  /\ withdraw \cap bid.withdrawn = {} /\ restore \subseteq bid.withdrawn
  /\ \E i \in DOMAIN bid.order : bid.order[i].stage = st
  /\ LET here       == st = CurrentStage(bid)
         closing    == (IF here THEN {} ELSE {CurrentStage(bid)})
                         \cup (IF prior THEN 1 .. st - 1 ELSE {})
         configured == ClearReturned(
           [bid EXCEPT !.completed = @ \cup closing,
                       !.withdrawn = (@ \cup withdraw) \ restore])
         stays      == here /\ closing \subseteq bid.completed
     IN /\ ~(stays /\ withdraw = {} /\ restore = {})
        /\ Accept(IF stays THEN configured
                  ELSE Advance(configured, TransitionCursor(st)),
                  override, None)

\* The entries alter_order may permute: not completed, at or after the cursor.
Remaining == bid.cursor .. Len(bid.order)
Editable  == {i \in Remaining : ~TurnIsCompleted(bid, bid.order[i])}

\* live.alter_order: source[i] is the present place of the entry put at place i
AlterOrder(source, override) ==
  LET order   == [i \in DOMAIN bid.order |->
                    IF i \in Editable THEN bid.order[source[i]] ELSE bid.order[i]]
      altered == CloseReview([bid EXCEPT !.order = order], override)
  IN /\ Permitted(IF override THEN "force" ELSE "alter_order")
     /\ Editable # {}
     /\ IF override THEN bid.bidder # None
        ELSE /\ bid.phase = "position_bid" /\ bid.review = None
             /\ \A i, j \in Editable : i < j => order[i].stage <= order[j].stage
     /\ Accept(IF override \/ Editable # Remaining
               THEN Advance(altered, bid.cursor)
               ELSE [altered EXCEPT !.bidder = order[bid.cursor].member],
               override, None)

-----------------------------------------------------------------------------
(* Acting duty (live.set_exceptional_assignment).                          *)

MayAssign(m, override) ==
  /\ Permitted("force")
  /\ ~override => bid.phase # "paused" /\ bid.review = None /\ m \notin Awarded(bid)

AssignActing(m, override) ==
  /\ MayAssign(m, override)
  /\ m \in Participants \ bid.acting
  /\ LET assigned == CloseReview(
           SettleSelected([bid EXCEPT !.acting = @ \cup {m}], m), override)
     IN Accept(IF m = bid.bidder THEN Advance(assigned, bid.cursor + 1) ELSE assigned,
               override, IF override THEN m ELSE None)

\* A member whose rank turn has passed returns at the current sequence.
ReleaseActing(m, override) ==
  /\ MayAssign(m, override)
  /\ m \in bid.acting /\ TurnsOf(bid, m) # {}
  /\ LET released == CloseReview(
           SettleSelected([bid EXCEPT !.acting = @ \ {m}], m), override)
         ordinary == \E i \in TurnsOf(bid, m) :
                       i >= bid.cursor /\ ~Stages[bid.order[i].stage].days
         returns  == m \notin Awarded(bid) /\ (~ordinary \/ bid.phase = "complete")
     IN /\ returns => released.returning = None
        /\ Accept(IF returns THEN [released EXCEPT !.returning = m] ELSE released,
                  override, IF override THEN m ELSE None)

-----------------------------------------------------------------------------
(* Specialty adjudication.                                                 *)

StartSpecialty(p) ==
  /\ Permitted("approve_transition")
  /\ bid.phase = "position_bid" /\ bid.bidder # None /\ bid.review = None
  /\ p \in Specialty.seats /\ OpenSeat(p) /\ bid.bidder \in Ranked
  /\ Ahead(bid.bidder, p, bid.bidder) # <<>>
  /\ AcceptOrdinary([bid EXCEPT !.review =
       [seat |-> p, suspended |-> bid.bidder,
        candidates |-> Ahead(bid.bidder, p, bid.bidder), at |-> 1]])

Candidate == bid.review.candidates[bid.review.at]

\* Mutant: the review goes on behind its last candidate.
NextCandidateUnbounded == [bid.review EXCEPT !.at = @ + 1]

NextCandidate ==
  IF bid.review.at < Len(bid.review.candidates)
  THEN [bid.review EXCEPT !.at = @ + 1] ELSE None

\* live.resolve_specialty_candidate, DECLINE, PASS and UNREACHABLE
RespondSpecialty(d) ==
  /\ Permitted("approve_transition") /\ bid.review # None
  /\ d \in Dispositions \cap {"DECLINED", "PASS", "UNREACHABLE"}
  /\ d = "UNREACHABLE" => Contacted(Candidate)
  /\ AcceptOrdinary(
       [bid EXCEPT !.review = NextCandidate,
                   !.responses = @ \cup {[seat      |-> bid.review.seat,
                                          requester |-> bid.review.suspended,
                                          member    |-> Candidate]}])

\* Mutant: also a candidate whose turn is over leaves the order.
LeavesOrderAnyway(p) == Candidate \notin Awarded(bid) /\ p \notin Deferred

\* A first award with its A-Day, before the candidate's first turn.
LeavesOrder(p) ==
  /\ Candidate \notin Awarded(bid) /\ p \notin Deferred
  /\ TurnsOf(bid, Candidate) # {}
  /\ First(TurnsOf(bid, Candidate)) >= bid.cursor

\* live.resolve_specialty_candidate, ACCEPT: any seat of the specialty, in any
\* phase
AcceptSpecialty(p) ==
  /\ Permitted("approve_transition") /\ bid.review # None
  /\ p \in Specialty.seats /\ OpenSeat(p)
  /\ bid.revoked[Candidate] = None
  /\ MayBeAwarded(Candidate, p, bid.review.suspended)
  /\ LET others == {t \in Turn : t.member # Candidate}
         fills  == [q \in Positions |->
                       IF q = p THEN Award(Candidate, p \notin Deferred, None)
                       ELSE IF q \in Filled(bid) /\ bid.fills[q].member = Candidate
                       THEN None ELSE bid.fills[q]]
         goesOn == \E q \in Specialty.seats : fills[q] = None /\ q \notin bid.withdrawn
     IN AcceptOrdinary(
          [bid EXCEPT !.fills = fills,
                      !.last = IF @ # None /\ fills[@] = None THEN None ELSE @,
                      !.order = IF LeavesOrder(p) THEN Among(@, others) ELSE @,
                      !.review = IF goesOn THEN NextCandidate ELSE None])

CloseSpecialty ==
  /\ Permitted("approve_transition") /\ bid.review # None
  /\ AcceptOrdinary([bid EXCEPT !.review = None])

-----------------------------------------------------------------------------
(* Contact, dispositions and the end of the session.                       *)

\* live.record_contact_attempt, counted up to MinAttempts
ContactAttempt(m) ==
  /\ Permitted("mark_unreachable") /\ ~Contacted(m)
  /\ AcceptOrdinary([bid EXCEPT !.attempts[m] = @ + 1])

MayBeUnreachable(m) == Contacted(m) /\ m \notin bid.unresolved

DeclareUnreachable(m) ==
  /\ Permitted("mark_unreachable")
  /\ m \in Awarded(bid) => OwesADay(bid, m)
  /\ MayBeUnreachable(m)
  /\ AcceptOrdinary([bid EXCEPT !.unresolved = @ \cup {m}])

ReturnAtCurrentSequence(m) ==
  /\ Permitted("skip_defer")
  /\ m \notin Awarded(bid) /\ bid.returning = None
  /\ m \in bid.unresolved \/ \E rule \in RuleOf(m) : rule.retains
  /\ AcceptOrdinary([bid EXCEPT !.unresolved = @ \ {m}, !.returning = m])

\* live.disposition: of the returned member, else of the bidder, whose turn ends
\* if the frozen rule says so
Disposition(d) ==
  LET m == IF bid.returning # None THEN bid.returning ELSE bid.bidder
      told == [bid EXCEPT !.disposition[m] = d,
                          !.unresolved = IF d = "UNREACHABLE" THEN @ \cup {m} ELSE @]
  IN /\ Permitted(IF d = "UNREACHABLE" THEN "mark_unreachable" ELSE "skip_defer")
     /\ bid.review = None /\ m # None
     /\ \/ bid.phase = "position_bid" \/ IsOrdinaryADayTurn(bid)
        \/ bid.returning # None /\ bid.phase \in {"a_day_bid", "complete"}
     /\ d = "UNREACHABLE" => MayBeUnreachable(m)
     /\ AcceptOrdinary(IF ~Rules[d].advances THEN told
                       ELSE IF bid.returning = None THEN Advance(told, bid.cursor + 1)
                       ELSE SettleReturned(told, m))

\* The entries an override postpones: the remaining ones of the current stage or
\* of a member; a member without one gets the first entry again.
Moving(m, ofStage) ==
  {t \in Turn : IF ofStage THEN t.stage = CurrentStage(bid) ELSE t.member = m}

Postponed(m, ofStage) ==
  LET own == Among(SubSeq(bid.order, bid.cursor, Len(bid.order)), Moving(m, ofStage))
  IN IF own = <<>> /\ ~ofStage THEN <<bid.order[First(TurnsOf(bid, m))]>> ELSE own

\* Mutant: the entries before the cursor move as well.
ReorderedWhole(m, ofStage) ==
  Among(bid.order, Turn \ Moving(m, ofStage)) \o Postponed(m, ofStage)

Reordered(m, ofStage) ==
  LET committed == [i \in (1 .. bid.cursor - 1) \cap DOMAIN bid.order |-> bid.order[i]]
      remaining == SubSeq(bid.order, bid.cursor, Len(bid.order))
  IN committed \o Among(remaining, Turn \ Moving(m, ofStage)) \o Postponed(m, ofStage)

\* live.disposition with an override, DEFER or SKIP: the entries move to the end
OverrideDefer(named, ofStage) ==
  LET m == IF named # None THEN named
           ELSE IF bid.returning # None THEN bid.returning ELSE bid.bidder
      last == Postponed(m, ofStage)
      who  == {n \in {last[i].member : i \in DOMAIN last} :
                 n \notin Awarded(bid) \/ OwesADay(bid, n)}
      moved == [SettleReturned(bid, m) EXCEPT
                  !.order = Reordered(m, ofStage),
                  !.unresolved = @ \cup who,
                  !.disposition = [n \in Members |-> IF n \in who THEN "DEFER" ELSE @[n]],
                  !.review = None]
  IN /\ Permitted("force")
     /\ named = None => bid.bidder # None
     /\ m \in Participants /\ (~ofStage => TurnsOf(bid, m) # {})
     /\ who # {} /\ Len(moved.order) <= MaxTurns
     /\ Accept(Advance(moved, bid.cursor), TRUE, named)

\* participantCoverageGaps
Gaps ==
  {m \in Participants \ (bid.acting \cup Awarded(bid)) :
     /\ HasOpenTurn(bid, m)
     /\ \/ m = bid.returning \/ m \in bid.unresolved
        \/ bid.disposition[m] \notin Dispositions
        \/ \E rule \in RuleOf(m) : ~rule.terminal /\ rule.retains}

\* live.complete_session: the evaluation with finalize wants no A-Day pending
CompleteSession ==
  /\ Permitted("approve_final_results") /\ bid.phase = "complete"
  /\ \A m \in Members : bid.revoked[m] = None
  /\ bid.unresolved = {} /\ Gaps = {}
  /\ ADaysEvaluated(bid, None).owing = <<>>
  /\ AcceptOrdinary([bid EXCEPT !.sealed = TRUE, !.returning = None])

-----------------------------------------------------------------------------
(* Corrections.                                                            *)

PositionOf(m)  == IF m \in Awarded(bid) THEN Seat(bid, m) ELSE bid.revoked[m].position
HasADay(m) == IF m \in Awarded(bid) THEN bid.fills[Seat(bid, m)].aDay \/ m \in bid.picks
              ELSE bid.revoked[m].settled
Vacated(m) == [p \in Positions |->
                 IF p \in Filled(bid) /\ bid.fills[p].member = m THEN None ELSE bid.fills[p]]

AcceptCorrection(s, m, override) ==
  /\ Permitted(IF override THEN "force" ELSE "amend_selection")
  /\ override \/ bid.review = None
  /\ Accept(CloseReview(s, override), override, IF override THEN m ELSE None)

\* live.correct_bid, REVOKE
CorrectRevoke(m, override) ==
  /\ m \in Awarded(bid)
  /\ AcceptCorrection(
       [bid EXCEPT !.fills = Vacated(m), !.picks = @ \ {m},
                   !.last = IF @ = Seat(bid, m) THEN None ELSE @,
                   !.revoked[m] = Revocation(Seat(bid, m), HasADay(m))],
       m, override)

\* The A-Day a replacement may and must carry without an override.
OwesEarlyADay(m) ==
  /\ PositionOf(m) \in Deferred /\ ~HasADay(m)
  /\ TurnsOf(bid, m) # {} /\ First(TurnsOf(bid, m)) >= bid.cursor

\* Mutant: a replacement may leave out the A-Day.
ReplacementADayFree(m, p, aDay) == OwesEarlyADay(m) => ~aDay /\ p \in Deferred

ReplacementADay(m, p, aDay) ==
  /\ OwesEarlyADay(m) => ~aDay /\ p \in Deferred
  /\ HasADay(m) => aDay

\* live.correct_bid, REPLACE; also a record_selection for a member whose award
\* is revoked.  Which specialty answers still count is decided from the command
\* log, so the priority verdict is only the freedom not to take the action.
CorrectReplace(m, p, aDay, override) ==
  LET deferral == IF override /\ ~aDay THEN p ELSE None
      replaced == [bid EXCEPT
                     !.fills = [Vacated(m) EXCEPT ![p] = Award(m, aDay, deferral)],
                     !.picks = @ \ {m}, !.last = p, !.revoked[m] = None]
      stages == {i \in StageIds : p \in Stages[i].seats}
  IN /\ m \in Awarded(bid) \/ bid.revoked[m] # None
     /\ Vacated(m)[p] = None /\ p \notin bid.withdrawn
     /\ RankedFor(m, p)
     /\ IF override THEN stages # {}
        ELSE /\ m \notin bid.acting /\ ReplacementADay(m, p, aDay)
             /\ \E i \in stages : m \in Stages[i].members /\ i <= CurrentStage(bid)
     /\ AcceptCorrection(IF override THEN SettleSelected(replaced, m) ELSE replaced,
                         m, override)

\* live.amend_selection: another seat of its stage for the last selection
Amend(p, aDay) ==
  /\ Permitted("amend_selection") /\ bid.last # None
  /\ p # bid.last /\ OpenSeat(p)
  /\ p \in Stages[First({i \in StageIds : bid.last \in Stages[i].seats})].seats
  /\ LET prior == bid.fills[bid.last]
     IN /\ MayBeAwarded(prior.member, p, Requester(prior.member, p))
        /\ AcceptOrdinary(
             [bid EXCEPT !.fills = [@ EXCEPT ![bid.last] = None,
                                             ![p] = [prior EXCEPT !.aDay = @ \/ aDay]],
                         !.last = p])

-----------------------------------------------------------------------------
Selecting ==
  \E m \in Members, p \in Positions :
    \/ RecordSelection(m, p)
    \/ ForceSelection(m, p)
    \/ \E forced \in BOOLEAN : FallbackSelection(m, p, forced)
    \/ \E aDay \in BOOLEAN : DirectSelection(m, p, aDay)

PickingADay == \E m \in Members : RecordADay(m) \/ DirectADay(m)

Correcting ==
  \/ \E m \in Members, override \in BOOLEAN :
       \/ CorrectRevoke(m, override)
       \/ \E p \in Positions, aDay \in BOOLEAN : CorrectReplace(m, p, aDay, override)
  \/ \E p \in Positions, aDay \in BOOLEAN : Amend(p, aDay)

Sequencing ==
  \/ Pause
  \/ Resume
  \/ \E st \in StageIds, override, prior \in BOOLEAN, withdraw, restore \in SUBSET Biddable :
       TransitionStage(st, override, prior, withdraw, restore)
  \/ \E source \in Bijection(Editable, Editable), override \in BOOLEAN : AlterOrder(source, override)
  \/ CompleteSession

Contacting ==
  \/ \E m \in Members :
       ContactAttempt(m) \/ DeclareUnreachable(m) \/ ReturnAtCurrentSequence(m)
  \/ \E d \in Dispositions : Disposition(d)
  \/ \E named \in Participants \cup {None}, ofStage \in BOOLEAN : OverrideDefer(named, ofStage)
  \/ \E m \in Members, override \in BOOLEAN :
       AssignActing(m, override) \/ ReleaseActing(m, override)

Adjudicating ==
  \/ \E p \in Positions : StartSpecialty(p) \/ AcceptSpecialty(p)
  \/ \E d \in Dispositions : RespondSpecialty(d)
  \/ CloseSpecialty

Next ==
  Selecting \/ PickingADay \/ Correcting \/ Sequencing \/ Contacting \/ Adjudicating

Spec == Init /\ [][Next]_bid

-----------------------------------------------------------------------------
(* What holds of the running bid.                                          *)

\* The document keeps the shape of BidSessionState.
Sequenced(s) == s \in Seq(Turn) /\ Len(s) <= MaxTurns
Opt(S) == S \cup {None}

TypeOK ==
  /\ bid.phase \in Phases /\ bid.held \in Opt(Phases \ {"paused"})
  /\ (bid.held # None) <=> (bid.phase = "paused")
  /\ bid.cursor \in 1 .. MaxTurns + 1 /\ bid.bidder \in Opt(Members)
  /\ Sequenced(bid.order) /\ bid.owing \in Seq(Members)
  /\ bid.fills \in [Positions -> Opt([member : Members, aDay : BOOLEAN,
                                     deferral : Opt(Positions)])]
  /\ bid.last \in Opt(Positions)
  /\ bid.revoked \in [Members -> Opt([position : Positions, settled : BOOLEAN])]
  /\ bid.picks \subseteq Members /\ bid.acting \subseteq Members
  /\ bid.completed \subseteq StageIds /\ bid.withdrawn \subseteq Positions
  /\ bid.review # None =>
       /\ bid.review.seat \in Positions /\ bid.review.suspended \in Members
       /\ bid.review.candidates \in Seq(Members)
       /\ bid.review.at \in DOMAIN bid.review.candidates
  /\ bid.responses \subseteq [seat : Positions, requester : Members, member : Members]
  /\ bid.disposition \in [Members -> Opt(Dispositions)]
  /\ bid.unresolved \subseteq Members /\ bid.returning \in Opt(Members)
  /\ bid.attempts \in [Members -> Nat] /\ bid.sealed \in BOOLEAN
  /\ bid.incomplete \in BOOLEAN

\* A turn that its bidder can answer.
Usable(s) ==
  CASE Executing(s) = "position_bid" ->
         /\ s.cursor \in DOMAIN s.order
         /\ s.bidder = s.order[s.cursor].member
         /\ s.bidder \notin Awarded(s) \cup s.acting
         /\ ~TurnIsCompleted(s, s.order[s.cursor])
    [] Executing(s) = "a_day_bid" -> s.bidder \in Awarded(s) \ s.picks
    [] OTHER -> s.bidder = None

\* Whatever moves the turn (selections, dispositions, acting duty, transitions,
\* overrides during a pause) moves it to a member who can answer it.
TurnsGivenAreUsable ==
  [][<<Executing(bid)', bid'.cursor, bid'.bidder>> # <<Executing(bid), bid.cursor, bid.bidder>>
       => Usable(bid')]_bid

\* No command goes back to a passed turn or rewrites the passed part of the order,
\* by which the cursor would point to another turn.
NeverRewinds ==
  [][/\ bid'.cursor >= bid.cursor
     /\ \A i \in DOMAIN bid.order :
          i < bid.cursor => i \in DOMAIN bid'.order /\ bid'.order[i] = bid.order[i]]_bid

\* While a specialty is adjudicated the suspended bidder keeps the turn: every
\* other way to move it is barred or closes the adjudication.
ReviewHoldsTurn ==
  bid.review # None =>
    bid.bidder = bid.review.suspended /\ Executing(bid) = "position_bid"

\* An award with its A-Day resolves the contact: nobody is left unresolved or
\* returning who has nothing more to select, which would block completion.
ContactSettled ==
  \A m \in Awarded(bid) :
    ~OwesADay(bid, m) => m \notin bid.unresolved /\ m # bid.returning

\* Selections are over only when no A-Day is left to prompt for, however the
\* last seat or turn went: but for resume, which evaluates nothing.
ADaysPrompted ==
  [][bid.phase # "paused" /\ bid'.phase = "complete"
       => \A m \in Members : ~OwesADay(bid', m)]_bid

\* A returned member is served beside the queue: the waiting turn stays.
ReturnKeepsTurn ==
  [][/\ bid.returning \notin {None, bid.bidder} /\ bid'.returning = None
     /\ bid'.completed = bid.completed /\ bid.bidder # None
     => bid'.cursor = bid.cursor /\ bid'.bidder = bid.bidder]_bid

\* Nobody with a right to the seat is passed over: whoever is ranked before the
\* member who got a specialty seat has a seat, has been given a disposition, has
\* no turn left, or answered for this seat, and for this member's request or
\* that of a member ranked below.
Answered(c, p, m) ==
  \E r \in bid.responses :
    r.seat = p /\ r.member = c /\ (r.requester = m \/ Rank(m) < Rank(r.requester))

PriorityRespected ==
  \A p \in Specialty.seats \cap Filled(bid) :
    LET m == bid.fills[p].member IN
    \A c \in Ranked \ Awarded(bid) :
      Rank(c) < Rank(m) =>
        bid.disposition[c] # None \/ ~HasOpenTurn(bid, c) \/ Answered(c, p, m)

\* When the selections are over every participant has had a chance: a seat, a
\* duty, a disposition, a contact case or a revocation to be replaced.
EveryoneAsked ==
  bid.phase = "complete" =>
    \A m \in Participants :
      HasOpenTurn(bid, m) =>
        \/ m \in Awarded(bid) \cup bid.acting \cup bid.unresolved \cup {bid.returning}
        \/ bid.disposition[m] # None \/ bid.revoked[m] # None

\* An A-Day once chosen follows its member through amendments and corrections,
\* also from a revocation to the replacement.
Chosen(m) == (m \in Awarded(bid) \/ bid.revoked[m] # None) /\ HasADay(m)
ADayKept ==
  [][\A m \in Members :
       Chosen(m) => \/ Chosen(m)'
                    \/ m \in Awarded(bid') /\ bid'.fills[Seat(bid', m)].deferral # None]_bid

\* A pause ends by resume only, which gives back the turn as it was held.
StaysPaused ==
  [][bid.phase = "paused" /\ bid'.phase # "paused"
       => bid' = [bid EXCEPT !.phase = bid.held, !.held = None]]_bid

=============================================================================
