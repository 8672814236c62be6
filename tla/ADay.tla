-------------------------------- MODULE ADay --------------------------------
(***************************************************************************)
(* The A-Days of a running bid: which day off each member chose, and the   *)
(* engine that every accepted command runs over all of them.  LiveBid      *)
(* knows only whether an award carries an A-Day; here each command also    *)
(* names the day, the engine replays all picks from an empty allocation    *)
(* under the frozen capacities, and its verdict can reject the command.    *)
(*                                                                         *)
(* Each action is the action of LiveBid together with the evaluation       *)
(* (evaluateFrozenADays) by which the service concludes it.  Contact,      *)
(* acting duty, stages and specialties carry no day of their own: the      *)
(* commands here are those that choose, move or drop a day, and those that *)
(* move the bid between its phases.                                        *)
(***************************************************************************)
EXTENDS LiveBid, SequencesExt

CONSTANTS
  Officers,      \* members of an officer rank
  ShiftOf,       \* position -> its shift, "D" or a combat shift
  CombatShifts, Groups, Weekdays,
  Enabled,       \* aDay.combatGroups
  Minimum, Maximum,
  Exact,         \* execution.officersPerGroup, or None
  Scoped         \* frozenADayConstraints: [members, seats, shifts, maximum]

Days   == Groups \cup Weekdays
Shifts == CombatShifts \cup {"D"}

ASSUME ADayPolicy ==
  /\ Officers \subseteq Members
  /\ ShiftOf \in [Positions -> Shifts] /\ "D" \notin CombatShifts
  /\ Enabled \subseteq Groups /\ Enabled # {} /\ Groups \cap Weekdays = {}
  /\ IsFiniteSet(Groups) /\ IsFiniteSet(Members)
  /\ Minimum \in Nat /\ Maximum \in Nat /\ Exact \in Nat \cup {None}
  /\ \A c \in Scoped : /\ c.members \subseteq Members /\ c.seats \subseteq Positions
                       /\ c.shifts \subseteq Shifts /\ c.maximum \in Nat
  /\ None \notin Days \cup Nat

VARIABLE
  alloc  \* [day: fill.aDay, approved: fill.aDayOverride, picks: aDay.picks by time]

vars == <<bid, alloc>>

PickOf(m, shift, day) == [member |-> m, shift |-> shift, day |-> day]

\* Fill.aDayOverride
Approval(p, day, officers) == [seat |-> p, day |-> day, officers |-> officers]

ASSUME NullIsNoApproval ==
  \A p \in Positions, day \in Days, officers \in BOOLEAN : Approval(p, day, officers) # None

ADayInit ==
  /\ Init
  /\ alloc = [day      |-> [m \in Members |-> None],
              approved |-> [m \in Members |-> None],
              picks    |-> <<>>]

-----------------------------------------------------------------------------
(* canPick: what stands against a pick.  An engine is the document with the *)
(* picks made so far, the order of those who pick after their position, and *)
(* whether later awards will still bring picks (allocationIncomplete).      *)

Engine(s, order, incomplete, picks) ==
  [doc |-> s, order |-> order, incomplete |-> incomplete, picks |-> picks]

SeatShift(s, m) == ShiftOf[Seat(s, m)]
ValidADay(shift, day) == day \in IF shift = "D" THEN Weekdays ELSE Groups

OnDay(picks, shift, day) == {k \in picks : k.shift = shift /\ k.day = day}
OfficersOn(picks, shift, day) == {k \in OnDay(picks, shift, day) : k.member \in Officers}

\* A group that is not available this year has room for nobody.
GroupFull(e, shift, day) ==
  /\ shift # "D"
  /\ Cardinality(OnDay(e.picks, shift, day)) >= (IF day \in Enabled THEN Maximum ELSE 0)

InScope(s, c, m) == m \in c.members \/ (m \in Awarded(s) /\ Seat(s, m) \in c.seats)

ScopeFull(e, m, shift, day) ==
  \E c \in Scoped :
    /\ shift \in c.shifts /\ InScope(e.doc, c, m)
    /\ Cardinality({k \in OnDay(e.picks, shift, day) : InScope(e.doc, c, k.member)})
         >= c.maximum

Required(group) == IF group \in Enabled THEN Exact ELSE 0

OfficersAfter(e, m, shift, day, group) ==
  Cardinality(OfficersOn(e.picks, shift, group))
    + (IF group = day /\ m \in Officers THEN 1 ELSE 0)

\* The officers of the shift from the first open place of the order on, those
\* among them who have picked already included.
OfficersRemaining(e, m, shift) ==
  LET Open(j) == \A k \in e.picks : k.member # e.order[j]
  IN Cardinality({i \in DOMAIN e.order :
       /\ \E j \in 1 .. i : Open(j)
       /\ e.order[i] # m /\ e.order[i] \in Officers
       /\ SeatShift(e.doc, e.order[i]) = shift})

OfficerShortfall(e, m, shift) ==
  Exact * Cardinality(Enabled)
    - Cardinality({k \in e.picks : k.shift = shift /\ k.member \in Officers})
    - (IF m \in Officers THEN 1 ELSE 0)

\* validateOfficerInvariant
OfficersInfeasible(e, m, shift, day) ==
  /\ Exact # None /\ shift # "D" /\ day \in Enabled
  /\ \/ \E g \in Groups : OfficersAfter(e, m, shift, day, g) > Required(g)
     \/ ~e.incomplete /\ OfficerShortfall(e, m, shift) > OfficersRemaining(e, m, shift)

Objections(e, m, day) ==
  LET shift == SeatShift(e.doc, m)
  IN (IF GroupFull(e, shift, day)             THEN {"GROUP_FULL"}  ELSE {})
     \cup (IF ScopeFull(e, m, shift, day)          THEN {"SCOPED_A_DAY_MAXIMUM"} ELSE {})
     \cup (IF OfficersInfeasible(e, m, shift, day) THEN {"OFFICER_INVARIANT_VIOLATED"}
                                                   ELSE {})

CanPick(e, m, day) == ValidADay(SeatShift(e.doc, m), day) /\ Objections(e, m, day) = {}

-----------------------------------------------------------------------------
(* evaluateFrozenADays: all picks again, from an empty allocation.          *)

PickersOf(picks) == {picks[i].member : i \in DOMAIN picks}

\* phase2BidOrder: the awards whose A-Day was put off.
Phase2Order(s, a) ==
  LET waiting == {m \in Awarded(s) : a.day[m] = None /\ m \in s.picks \cup Range(s.owing)}
      entries == Among(s.order, {t \in Turn : t.member \in waiting})
  IN [i \in DOMAIN entries |-> entries[i].member]

\* An award that carries its A-Day keeps the time of the same pick; a pick
\* made after the position stays as it was made.
Carrying(s, a)   == {m \in Awarded(s) : a.day[m] # None}
Carried(s, a, m) == PickOf(m, SeatShift(s, m), a.day[m])

Staying(s, a) ==
  {k \in Range(a.picks) : /\ k.member \in Awarded(s)
                          /\ k.member \in Carrying(s, a) => k = Carried(s, a, k.member)}

Retimed(s, a) ==
  LET kept  == Among(a.picks, Staying(s, a))
      added == {Carried(s, a, m) : m \in Carrying(s, a) \ PickersOf(kept)}
  IN kept \o SetToSeq(added)

\* approvedCapacityDeparture: an override approved this day on this seat.
Approved(s, a, k) ==
  a.approved[k.member] # None /\ a.approved[k.member].seat = Seat(s, k.member)
                              /\ a.approved[k.member].day = k.day

\* Ordinary picks before approved departures, the pick of this command last.
OrdinaryFirst(s, a, picks, selects) ==
  LET proposed  == {k \in Range(picks) : k.member = selects}
      departing == {k \in Range(picks) \ proposed : Approved(s, a, k)}
      ordinary  == Range(picks) \ (proposed \cup departing)
  IN Among(picks, ordinary) \o Among(picks, departing) \o Among(picks, proposed)

ReplayOrder(s, a, selects) == OrdinaryFirst(s, a, Retimed(s, a), selects)

EngineAt(s, a, replay, i) ==
  Engine(s, Phase2Order(s, a), s.incomplete, {replay[j] : j \in 1 .. i - 1})

NotEnabled(k) == k.shift # "D" /\ k.day \notin Enabled

\* The pick of the member an override names, and an approved one, may go against
\* the capacities but not on a day its shift does not have.
\* Mutant: an approval excuses all picks.
PassesExcused(s, a, replay, named, i) ==
  ValidADay(SeatShift(s, replay[i].member), replay[i].day)

Passes(s, a, replay, named, i) ==
  LET k == replay[i]
  IN /\ ValidADay(SeatShift(s, k.member), k.day)
     /\ \/ k.member = named \/ Approved(s, a, k)
        \/ /\ ~NotEnabled(k)
           /\ Objections(EngineAt(s, a, replay, i), k.member, k.day) = {}

Allocates(s, a, named, selects) ==
  LET replay == ReplayOrder(s, a, selects)
  IN \A i \in DOMAIN replay : Passes(s, a, replay, named, i)

\* Officer totals are met, or exceeded by approved officers only.
OfficerTotalMet(s, a, shift, group) ==
  LET chosen  == OfficersOn({a.picks[i] : i \in DOMAIN a.picks}, shift, group)
      excused == {k \in chosen : Approved(s, a, k) /\ a.approved[k.member].officers}
  IN \/ Cardinality(chosen) = Exact
     \/ /\ Cardinality(chosen) > Exact
        /\ Cardinality(excused) >= Cardinality(chosen) - Exact

\* What completion asks of every group of every combat shift.
Final(s, a) ==
  \A shift \in CombatShifts, group \in Groups :
    /\ Cardinality(OnDay({a.picks[i] : i \in DOMAIN a.picks}, shift, group)) >= Minimum
    /\ Exact # None => OfficerTotalMet(s, a, shift, group)

-----------------------------------------------------------------------------
(* What an override stamps on the award whose A-Day it lets through.        *)

Exceeds(e, k) ==
  /\ Exact # None /\ k.shift # "D"
  /\ OfficersAfter(e, k.member, k.shift, k.day, k.day) > Exact

\* Mutant: the approval is not kept with the award.
StampedNever(s, a, named, selects) == a.approved

StampedOn(s, a, named, replay, place) ==
  LET k == replay[place]
      e == EngineAt(s, a, replay, place)
      met     == Objections(e, named, k.day)
      exceeds == Exceeds(e, k) \/ met = {"OFFICER_INVARIANT_VIOLATED"}
  IN IF met = {} /\ ~exceeds /\ ~NotEnabled(k) THEN a.approved
     ELSE [a.approved EXCEPT ![named] = Approval(Seat(s, named), k.day, exceeds)]

Stamped(s, a, named, selects) ==
  IF named \notin PickersOf(Retimed(s, a)) THEN a.approved
  ELSE LET replay == ReplayOrder(s, a, selects)
       IN StampedOn(s, a, named, replay,
                    CHOOSE i \in DOMAIN replay : replay[i].member = named)

\* Mutant: a correction leaves the pick it replaces in aDay.picks.
KeepsAll(m, drops) == alloc.picks

Keeps(m, drops) ==
  IF drops THEN Among(alloc.picks, {k \in Range(alloc.picks) : k.member # m})
           ELSE alloc.picks

\* The awards after a command that gave m the day, or its award without one.
Recorded(m, day, drops) ==
  [day |-> [n \in Members |->
              IF n # m THEN alloc.day[n]
              ELSE IF n \notin Awarded(bid') THEN None
              ELSE IF day # None THEN day
              ELSE IF bid'.fills[Seat(bid', n)].aDay THEN alloc.day[n] ELSE None],
   approved |-> IF m = None THEN alloc.approved ELSE [alloc.approved EXCEPT ![m] = None],
   picks |-> Keeps(m, drops)]

Evaluated(a, named, selects) ==
  /\ Allocates(bid', a, named, selects)
  /\ alloc' = [day      |-> a.day,
               approved |-> Stamped(bid', a, named, selects),
               picks    |-> Retimed(bid', a)]

-----------------------------------------------------------------------------
(* The commands: LiveBid's action, the day it names, and the evaluation.    *)

Overriding(m, override) == IF override THEN m ELSE None

Select(m, p, day) ==
  /\ RecordSelection(m, p) /\ day # None
  /\ Evaluated(Recorded(m, day, FALSE), None, m)

ForceAward(m, p, day) ==
  /\ ForceSelection(m, p) /\ (day # None <=> bid'.fills[p].aDay)
  /\ Evaluated(Recorded(m, day, FALSE), None, m)

Direct(m, p, day) ==
  /\ DirectSelection(m, p, day # None)
  /\ Evaluated(Recorded(m, day, FALSE), m, m)

\* handleSubmitADayPick, on the allocation that the last evaluation left
MayPickNow(m, day) ==
  CanPick(Engine(bid, Phase2Order(bid, alloc), bid.incomplete,
                 {alloc.picks[i] : i \in DOMAIN alloc.picks}), m, day)

PickLater(m, day) ==
  /\ RecordADay(m) /\ day # None
  /\ MayPickNow(m, day)
  /\ Evaluated([alloc EXCEPT !.picks = Append(@, PickOf(m, SeatShift(bid, m), day))],
               None, m)

DirectDay(m, day) ==
  /\ DirectADay(m) /\ day # None
  /\ Evaluated(Recorded(m, day, TRUE), m, m)

Revoke(m, override) ==
  /\ CorrectRevoke(m, override)
  /\ Evaluated(Recorded(m, None, TRUE), Overriding(m, override), m)

Replace(m, p, day, override) ==
  /\ CorrectReplace(m, p, day # None, override)
  /\ Evaluated(Recorded(m, day, TRUE), Overriding(m, override), m)

\* An amendment leaves a pick made after the position as it is.
Amending(p, day) ==
  /\ Amend(p, day # None)
  /\ LET m == bid.fills[bid.last].member
     IN Evaluated(Recorded(m, day, FALSE), None, m)

\* Commands that name no day: the evaluation can still reject them.
Answer(d) == Disposition(d) /\ Evaluated(alloc, None, None)

\* Neither pausing nor resuming evaluates anything.
Interrupt == (Pause \/ Resume) /\ UNCHANGED alloc

Complete ==
  /\ CompleteSession
  /\ Evaluated(alloc, None, None)
  /\ Final(bid', alloc')

ADayNext ==
  \/ \E m \in Members, p \in Positions, day \in Days \cup {None} :
       \/ Select(m, p, day) \/ ForceAward(m, p, day) \/ Direct(m, p, day)
       \/ \E override \in BOOLEAN : Replace(m, p, day, override)
  \/ \E m \in Members, day \in Days : PickLater(m, day) \/ DirectDay(m, day)
  \/ \E m \in Members, override \in BOOLEAN : Revoke(m, override)
  \/ \E p \in Positions, day \in Days \cup {None} : Amending(p, day)
  \/ \E d \in Dispositions : Answer(d)
  \/ Interrupt
  \/ Complete

ADaySpec == ADayInit /\ [][ADayNext]_vars

-----------------------------------------------------------------------------
Picks == {alloc.picks[i] : i \in DOMAIN alloc.picks}
Unapproved == {k \in Picks : ~Approved(bid, alloc, k)}

\* What LiveBid keeps of the A-Days is what they are.
DocumentsAgree ==
  /\ PickersOf(alloc.picks) = bid.picks
  /\ \A p \in Filled(bid) : bid.fills[p].aDay <=> alloc.day[bid.fills[p].member] # None
  /\ \A m \in Members \ Awarded(bid) : alloc.day[m] = None /\ m \notin bid.picks
  /\ \A i, j \in DOMAIN alloc.picks : alloc.picks[i].member = alloc.picks[j].member => i = j

OnSeatShift(P, shift, day) ==
  {k \in P : SeatShift(bid, k.member) = shift /\ k.day = day}

\* The ordinary members off on one day of their shift never exceed the frozen
\* limits, whatever overrides, corrections and amendments happened in between.
\* Days have a scope's maximum only, combat shifts those of the group as well.
CapacityKept ==
  \A shift \in Shifts, day \in Days :
    LET there == OnSeatShift(Unapproved, shift, day)
    IN /\ shift # "D" =>
            /\ Cardinality(there) <= IF day \in Enabled THEN Maximum ELSE 0
            /\ Exact # None => Cardinality({k \in there : k.member \in Officers}) <= Exact
       /\ \A c \in Scoped :
            shift \in c.shifts =>
              Cardinality({k \in there : InScope(bid, c, k.member)}) <= c.maximum

\* The allocation that was accepted is accepted again.
Replayable == Allocates(bid, alloc, None, None)

=============================================================================
