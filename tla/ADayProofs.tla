------------------------------ MODULE ADayProofs ------------------------------
(***************************************************************************)
(* Proofs about the A-Days of a running bid.                               *)
(*                                                                         *)
(* First of LiveBid: no command loses a chosen A-Day, nobody is forgotten  *)
(* who owes one, and returns are served beside the queue.  They rest on    *)
(* what every command leaves of the awards (OthersKept, AwardIs).          *)
(*                                                                         *)
(* Then of ADay: its commands are commands of LiveBid, so what is proved   *)
(* there holds here; the awards, the allocation and the picks of the       *)
(* document agree (Agree); the ordinary picks keep within the limits,      *)
(* because each was let through on top of those before it in the replay;   *)
(* and what was accepted is accepted again, because ordinary picks meet    *)
(* ordinary picks only: nothing but the officer look-ahead refuses one.    *)
(***************************************************************************)
EXTENDS ADay, LiveTurnsProofs, FiniteSetTheorems

-----------------------------------------------------------------------------
(* What a command hands to the service: awards, picks and order.           *)

AwardFields == {"fills", "revoked", "picks", "order", "completed"}

\* t is s but for fields that say nothing of awards, picks and entries.
SameAwards(s, t) ==
  /\ AwardFields \subseteq DOMAIN t
  /\ t.fills = s.fills /\ t.revoked = s.revoked /\ t.picks = s.picks
  /\ t.order = s.order /\ t.completed = s.completed

LEMMA SameAwardsTransitive ==
  ASSUME NEW s, NEW t, NEW u, SameAwards(s, t), SameAwards(t, u)
  PROVE  SameAwards(s, u)
  BY DEF SameAwards

LEMMA SameAwardsMeans ==
  ASSUME NEW s, NEW t, SameAwards(s, t)
  PROVE  /\ Filled(t) = Filled(s) /\ Awarded(t) = Awarded(s) /\ Given(t) = Given(s)
         /\ \A m : TurnsOf(t, m) = TurnsOf(s, m) /\ Seat(t, m) = Seat(s, m)
  BY DEF SameAwards, Filled, Awarded, Given, TurnsOf, Seat

LEMMA TurnSameAwards ==
  ASSUME NEW s, AwardFields \subseteq DOMAIN s, NEW turn, NEW from
  PROVE  SameAwards(s, Turned(s, turn)) /\ SameAwards(s, Advance(s, from))
  <1>1. ASSUME NEW x PROVE SameAwards(s, Turned(s, x))
    BY DEF SameAwards, Turned, AwardFields
  <1>2. QED
    BY <1>1 DEF Advance

LEMMA SettlingSameAwards ==
  ASSUME NEW s, AwardFields \subseteq DOMAIN s, NEW m, NEW override
  PROVE  /\ SameAwards(s, SettleReturned(s, m))
         /\ SameAwards(s, SettleSelected(s, m))
         /\ SameAwards(s, ClearReturned(s))
         /\ SameAwards(s, CloseReview(s, override))
  BY DEF SameAwards, AwardFields, SettleReturned, SettleSelected, ClearReturned, CloseReview

\* What the service makes of the document s that a command hands to it.
Evaluates(s) ==
  /\ bid'.fills = s.fills /\ bid'.revoked = s.revoked
  /\ bid'.order = s.order /\ bid'.completed = s.completed
  /\ bid'.picks = (s.picks \cap Awarded(s)) \cup Given(s)
  /\ Filled(bid') = Filled(s) /\ Awarded(bid') = Awarded(s) /\ Given(bid') = Given(s)
  /\ \A m : TurnsOf(bid', m) = TurnsOf(s, m)

\* A bid whose selections are over owes an A-Day to nobody who has an entry.
PromptedAll ==
  bid'.order \in Seq(Turn) /\ bid'.phase = "complete" =>
    \A m : OwesADay(bid', m) => TurnsOf(bid', m) = {}

LEMMA OwedPrompted ==
  ASSUME NEW s, AwardFields \cup {"phase", "bidder", "owing", "incomplete"} \subseteq DOMAIN s,
         NEW override, NEW named, NEW t, t = Concluded(s, override, named),
         t.order \in Seq(Turn), t.phase = "complete", NEW m, OwesADay(t, m)
  PROVE  TurnsOf(t, m) = {}
  <1> DEFINE paid     == WithPicks(s)
             waiting  == {n \in Awarded(paid) \ paid.picks : HasOpenTurn(paid, n) \/ n = named}
             entries  == Among(paid.order, {e \in Turn : e.member \in waiting})
             owed     == WithOwing(paid, entries)
             resolved == Resolved(owed, override)
  <1>1. t = Prompted(resolved)
    BY DEF Concluded, ADaysEvaluated, ADaysOwed
  <1>2. AwardFields \cup {"phase", "bidder", "owing", "incomplete"} \subseteq DOMAIN paid
    BY DEF WithPicks, AwardFields
  <1> HIDE DEF paid, entries
  <1>3. /\ AwardFields \cup {"phase", "bidder", "owing"} \subseteq DOMAIN owed
        /\ SameAwards(paid, owed) /\ owed.owing = [i \in DOMAIN entries |-> entries[i].member]
    BY <1>2 DEF WithOwing, SameAwards, AwardFields
  <1> HIDE DEF owed
  <1>4. /\ AwardFields \cup {"phase", "bidder", "owing"} \subseteq DOMAIN resolved
        /\ SameAwards(owed, resolved) /\ resolved.owing = owed.owing
    <2>1. ASSUME NEW turn PROVE /\ "owing" \in DOMAIN Turned(owed, turn)
                               /\ {"phase", "bidder"} \subseteq DOMAIN Turned(owed, turn)
                               /\ Turned(owed, turn).owing = owed.owing
      BY <1>3 DEF Turned
    <2>2. AwardFields \subseteq DOMAIN resolved /\ SameAwards(owed, resolved)
      BY <1>3, TurnSameAwards DEF Resolved, SameAwards
    <2>3. QED
      BY <1>3, <2>1, <2>2 DEF Resolved, Advance
  <1> HIDE DEF resolved
  <1>5. t = resolved /\ owed.owing = <<>>
    BY <1>1, <1>4 DEF Prompted
  <1>6. /\ t.order = paid.order /\ t.picks = paid.picks /\ SameAwards(paid, t)
    BY <1>3, <1>4, <1>5, SameAwardsTransitive DEF SameAwards
  <1>7. /\ Awarded(t) = Awarded(paid) /\ TurnsOf(t, m) = TurnsOf(paid, m)
        /\ HasOpenTurn(t, m) = HasOpenTurn(paid, m)
    <2>1. Awarded(t) = Awarded(paid) /\ TurnsOf(t, m) = TurnsOf(paid, m)
      BY <1>6, SameAwardsMeans
    <2>2. QED
      BY <1>6, <2>1 DEF HasOpenTurn, TurnIsCompleted, SameAwards
  <1>8. m \in waiting
    BY <1>6, <1>7 DEF OwesADay, DefersADay, Awarded
  <1> HIDE DEF waiting
  <1>9. entries = <<>>
    <2>1. Filtered(paid.order, Turn, {e \in Turn : e.member \in waiting}, Len(paid.order), entries)
      BY <1>6, AmongFilters DEF entries
    <2>2. entries \in Seq(Turn)
      BY <2>1 DEF Filtered
    <2>3. DOMAIN entries = {}
      BY <1>3, <1>5
    <2>4. QED
      BY <2>2, <2>3
  <1>10. ASSUME NEW i \in TurnsOf(paid, m)
         PROVE  FALSE
    <2>1. /\ i \in DOMAIN paid.order /\ paid.order[i].member = m /\ paid.order[i] \in Turn
      BY <1>6, <1>10, OrderTyped DEF TurnsOf
    <2>2. i \in 1 .. Len(paid.order) /\ Len(paid.order) \in Nat
      BY <1>6, <2>1, OrderTyped
    <2>3. Filtered(paid.order, Turn, {e \in Turn : e.member \in waiting}, Len(paid.order), entries)
      BY <1>6, AmongFilters DEF entries
    <2>4. QED
      BY <1>8, <1>9, <2>1, <2>2, <2>3 DEF Filtered
  <1>11. QED
    BY <1>7, <1>10

LEMMA Accepted ==
  ASSUME NEW s, AwardFields \cup {"phase", "bidder", "owing", "incomplete"} \subseteq DOMAIN s,
         NEW override, NEW named,
         Accept(s, override, named)
  PROVE  Evaluates(s) /\ Evaluable(s) /\ PromptedAll
  <1> DEFINE paid     == WithPicks(s)
             owed     == ADaysEvaluated(s, named)
             resolved == Resolved(owed, override)
  <1>1. bid' = Prompted(resolved) /\ Evaluable(s)
    BY DEF Accept, Becomes, Concluded
  <1>2. /\ AwardFields \subseteq DOMAIN paid
        /\ paid.fills = s.fills /\ paid.revoked = s.revoked
        /\ paid.order = s.order /\ paid.completed = s.completed
        /\ paid.picks = (s.picks \cap Awarded(s)) \cup Given(s)
    BY DEF WithPicks, AwardFields
  <1> HIDE DEF paid
  <1>3. SameAwards(paid, owed)
    <2>1. ASSUME NEW waiting PROVE SameAwards(paid, WithOwing(paid, waiting))
      BY <1>2 DEF WithOwing, SameAwards, AwardFields
    <2>2. QED
      BY <2>1 DEF ADaysEvaluated, ADaysOwed, paid
  <1> HIDE DEF owed
  <1>4. SameAwards(owed, resolved)
    BY <1>3, TurnSameAwards DEF Resolved, SameAwards
  <1> HIDE DEF resolved
  <1>5. SameAwards(resolved, Prompted(resolved))
    BY <1>4 DEF Prompted, SameAwards, AwardFields
  <1>6. SameAwards(paid, bid')
    BY <1>1, <1>3, <1>4, <1>5, SameAwardsTransitive
  <1>7. Filled(paid) = Filled(s) /\ Awarded(paid) = Awarded(s) /\ Given(paid) = Given(s)
        /\ \A m : TurnsOf(paid, m) = TurnsOf(s, m)
    BY <1>2 DEF Filled, Awarded, Given, TurnsOf
  <1>8. QED
    <2>1. PromptedAll
      BY OwedPrompted DEF PromptedAll, Accept, Becomes
    <2>2. QED
      BY <1>1, <1>2, <1>6, <1>7, <2>1, SameAwardsMeans DEF Evaluates, SameAwards

-----------------------------------------------------------------------------
(* The commands that change an award: whose award it is, and what it says.  *)

OfAnother(s, q, m) == q \in Filled(s) /\ s.fills[q].member # m

\* s says of everybody but m what bid says.
OthersKept(s, m) ==
  \A n \in Members \ {m} :
    /\ \A q : (q \in Filled(s) /\ s.fills[q].member = n)
                <=> (q \in Filled(bid) /\ bid.fills[q].member = n)
    /\ n \in Awarded(s) <=> n \in Awarded(bid)
    /\ n \in Given(s) <=> n \in Given(bid)
    /\ n \in s.picks <=> n \in bid.picks
    /\ s.revoked[n] = bid.revoked[n]

AwardIs(s, m, p, aDay) ==
  p \in Filled(s) /\ s.fills[p].member = m /\ (s.fills[p].aDay <=> aDay)

LEMMA SeatOfAward ==
  ASSUME NEW s, Evaluable(s), NEW m, NEW p, NEW aDay, AwardIs(s, m, p, aDay)
  PROVE  Seat(s, m) = p /\ m \in Awarded(s) /\ (m \in Given(s) <=> aDay)
  <1>1. \A q \in Filled(s) : s.fills[q].member = m => q = p
    BY DEF AwardIs, Evaluable
  <1>2. QED
    BY <1>1 DEF AwardIs, Seat, Awarded, Given

LEMMA AwardsOfOthers ==
  ASSUME NEW s, NEW m, s.picks \ {m} = bid.picks \ {m},
         \A n \in Members \ {m} : s.revoked[n] = bid.revoked[n],
         \A q \in Positions : OfAnother(bid, q, m) \/ OfAnother(s, q, m)
                                => s.fills[q] = bid.fills[q]
  PROVE  OthersKept(s, m)
  <1>1. ASSUME NEW n \in Members \ {m}, NEW q
        PROVE  /\ (q \in Filled(s) /\ s.fills[q].member = n)
                    <=> (q \in Filled(bid) /\ bid.fills[q].member = n)
               /\ q \in Filled(s) /\ s.fills[q].member = n => s.fills[q] = bid.fills[q]
    BY DEF OfAnother, Filled
  <1>2. ASSUME NEW n \in Members \ {m}
        PROVE  /\ n \in Awarded(s) <=> n \in Awarded(bid)
               /\ n \in Given(s) <=> n \in Given(bid)
    BY <1>1 DEF Awarded, Given
  <1>3. QED
    BY <1>1, <1>2 DEF OthersKept

\* The evaluation changes nothing of it.
LEMMA OthersEvaluated ==
  ASSUME Live(bid), NEW s, NEW m, OthersKept(s, m), Evaluates(s)
  PROVE  OthersKept(bid', m)
  <1>1. bid.picks \subseteq Awarded(bid) /\ Given(bid) \subseteq bid.picks
    BY DEF Live, Paid
  <1>2. ASSUME NEW n \in Members \ {m}
        PROVE  n \in bid'.picks <=> n \in bid.picks
    BY <1>1 DEF OthersKept, Evaluates
  <1>3. Filled(bid') = Filled(s) /\ bid'.fills = s.fills
    BY DEF Evaluates
  <1>4. QED
    BY <1>2, <1>3 DEF OthersKept, Evaluates

LEMMA AwardEvaluated ==
  ASSUME NEW s, Evaluates(s), NEW m, NEW p, NEW aDay, AwardIs(s, m, p, aDay)
  PROVE  AwardIs(bid', m, p, aDay)
  BY DEF Evaluates, AwardIs

LEMMA DocumentFields ==
  ASSUME Live(bid)
  PROVE  /\ AwardFields \cup {"phase", "bidder", "owing", "incomplete"} \subseteq DOMAIN bid
         /\ bid.fills \in [Positions -> Opt(Awards)] /\ bid.picks \subseteq Members
         /\ bid.revoked \in [Members -> Opt(Revocations)]
         /\ DOMAIN bid.fills = Positions
  BY DEF Live, Shape, Documents, AwardFields

NeededFields == AwardFields \cup {"phase", "bidder", "owing", "incomplete"}

LEMMA TurnNeeded ==
  ASSUME NEW s, NeededFields \subseteq DOMAIN s, NEW from, NEW m, NEW override
  PROVE  /\ NeededFields \subseteq DOMAIN Advance(s, from)
         /\ NeededFields \subseteq DOMAIN SettleReturned(s, m)
         /\ NeededFields \subseteq DOMAIN SettleSelected(s, m)
         /\ NeededFields \subseteq DOMAIN ClearReturned(s)
         /\ NeededFields \subseteq DOMAIN CloseReview(s, override)
  <1>1. ASSUME NEW x PROVE NeededFields \subseteq DOMAIN Turned(s, x)
    BY DEF Turned
  <1>2. QED
    BY <1>1 DEF Advance, SettleReturned, SettleSelected, ClearReturned, CloseReview

LEMMA SelectionAwards ==
  ASSUME Live(bid), NEW m \in Members, NEW p \in Positions, NEW aDay \in BOOLEAN,
         NEW override \in BOOLEAN, NEW named, bid.fills[p] = None,
         Accept(Selected(m, p, aDay, override), override, named)
  PROVE  /\ OthersKept(bid', m) /\ AwardIs(bid', m, p, aDay) /\ bid'.order = bid.order
         /\ bid'.revoked = bid.revoked /\ bid'.completed = bid.completed /\ PromptedAll
         /\ m \in bid'.picks => m \in bid.picks \cup Given(bid')
  <1> DEFINE deferral == IF override /\ ~aDay THEN p ELSE None
             award    == Award(m, aDay, deferral)
             awarded  == [bid EXCEPT !.fills[p] = award, !.last = p]
             moved    == IF m = bid.bidder THEN Advance(awarded, bid.cursor + 1) ELSE awarded
             settled  == SettleSelected(moved, m)
             s        == CloseReview(settled, override)
  <1>1. Accept(s, override, named)
    BY DEF Selected
  <1>2. award.member = m /\ award.aDay = aDay /\ award # None
    BY NullIsNoRecord DEF Award
  <1> HIDE DEF award
  <1>3. /\ NeededFields \subseteq DOMAIN awarded
        /\ awarded.fills = [bid.fills EXCEPT ![p] = award]
        /\ awarded.revoked = bid.revoked /\ awarded.picks = bid.picks
        /\ awarded.order = bid.order /\ awarded.completed = bid.completed
    BY DocumentFields DEF NeededFields, AwardFields
  <1> HIDE DEF awarded
  <1>4. NeededFields \subseteq DOMAIN moved /\ SameAwards(awarded, moved)
    BY <1>3, TurnNeeded, TurnSameAwards DEF SameAwards, NeededFields
  <1> HIDE DEF moved
  <1>5. NeededFields \subseteq DOMAIN settled /\ SameAwards(moved, settled)
    BY <1>4, TurnNeeded, SettlingSameAwards DEF NeededFields
  <1> HIDE DEF settled
  <1>6. NeededFields \subseteq DOMAIN s /\ SameAwards(settled, s)
    BY <1>5, TurnNeeded, SettlingSameAwards DEF NeededFields
  <1> HIDE DEF s
  <1>7. SameAwards(awarded, s)
    BY <1>4, <1>5, <1>6, SameAwardsTransitive
  <1>8. Evaluates(s) /\ PromptedAll
    BY <1>1, <1>6, Accepted DEF NeededFields
  <1>9. /\ s.fills = [bid.fills EXCEPT ![p] = award] /\ s.revoked = bid.revoked
        /\ s.picks = bid.picks /\ s.order = bid.order /\ s.completed = bid.completed
    BY <1>3, <1>7 DEF SameAwards
  <1>10. AwardIs(s, m, p, aDay)
    BY <1>2, <1>9, DocumentFields DEF AwardIs, Filled
  <1>11. \A q \in Positions : OfAnother(bid, q, m) \/ OfAnother(s, q, m)
                                => s.fills[q] = bid.fills[q]
    BY <1>2, <1>9, DocumentFields DEF OfAnother, Filled
  <1>12. OthersKept(s, m)
    BY <1>9, <1>11, AwardsOfOthers
  <1>13. QED
    BY <1>8, <1>9, <1>10, <1>12, OthersEvaluated, AwardEvaluated DEF Evaluates

LEMMA DirectADayAwards ==
  ASSUME Live(bid), NEW m \in Members, DirectADay(m)
  PROVE  /\ OthersKept(bid', m) /\ AwardIs(bid', m, Seat(bid, m), TRUE)
         /\ bid'.revoked = bid.revoked /\ bid'.order = bid.order /\ PromptedAll
         /\ m \in Awarded(bid)
  <1> DEFINE award  == Award(m, TRUE, None)
             chosen == [bid EXCEPT !.fills[Seat(bid, m)] = award,
                                   !.picks = @ \ {m}, !.review = None]
             s      == SettleSelected(chosen, m)
  <1>1. Accept(s, TRUE, m) /\ m \in Awarded(bid)
    BY DEF DirectADay, AcceptDirected
  <1>2. /\ Seat(bid, m) \in Filled(bid) /\ bid.fills[Seat(bid, m)].member = m
        /\ Seat(bid, m) \in Positions
    BY <1>1, MembersTyped DEF Filled
  <1>3. award.member = m /\ award.aDay = TRUE /\ award # None
    BY <1>2, NullIsNoRecord DEF Award
  <1> HIDE DEF award
  <1>4. /\ NeededFields \subseteq DOMAIN chosen
        /\ chosen.fills = [bid.fills EXCEPT ![Seat(bid, m)] = award]
        /\ chosen.revoked = bid.revoked /\ chosen.picks = bid.picks \ {m}
        /\ chosen.order = bid.order
    BY DocumentFields DEF NeededFields, AwardFields
  <1> HIDE DEF chosen
  <1>5. NeededFields \subseteq DOMAIN s /\ SameAwards(chosen, s)
    BY <1>4, TurnNeeded, SettlingSameAwards DEF NeededFields
  <1>6. /\ s.fills = [bid.fills EXCEPT ![Seat(bid, m)] = award] /\ s.revoked = bid.revoked
        /\ s.picks = bid.picks \ {m} /\ s.order = bid.order
    BY <1>4, <1>5 DEF SameAwards
  <1> HIDE DEF s
  <1>7. Evaluates(s) /\ PromptedAll
    BY <1>1, <1>5, Accepted DEF NeededFields
  <1>8. AwardIs(s, m, Seat(bid, m), TRUE)
    BY <1>2, <1>3, <1>6, DocumentFields DEF AwardIs, Filled
  <1>9. \A q \in Positions : OfAnother(bid, q, m) \/ OfAnother(s, q, m)
                               => s.fills[q] = bid.fills[q]
    BY <1>2, <1>3, <1>6, DocumentFields DEF OfAnother, Filled
  <1>10. OthersKept(s, m)
    BY <1>6, <1>9, AwardsOfOthers, ZenonT(30)
  <1>11. QED
    BY <1>1, <1>6, <1>7, <1>8, <1>10, OthersEvaluated, AwardEvaluated DEF Evaluates

LEMMA RevokeAwards ==
  ASSUME Live(bid), NEW m \in Members, NEW override \in BOOLEAN, CorrectRevoke(m, override)
  PROVE  /\ OthersKept(bid', m) /\ m \in Awarded(bid) \ Awarded(bid')
         /\ bid'.revoked[m] # None /\ (bid'.revoked[m].settled <=> HasADay(m))
         /\ bid'.order = bid.order /\ PromptedAll
  <1> DEFINE revocation == Revocation(Seat(bid, m), HasADay(m))
             s == [bid EXCEPT !.fills = Vacated(m), !.picks = @ \ {m},
                              !.last = IF @ = Seat(bid, m) THEN None ELSE @,
                              !.revoked[m] = revocation]
             t == CloseReview(s, override)
  <1>1. PICK named : m \in Awarded(bid) /\ Accept(t, override, named)
    BY DEF CorrectRevoke, AcceptCorrection
  <1>2. Seat(bid, m) \in Positions /\ bid.fills[Seat(bid, m)] # None
    BY <1>1, MembersTyped DEF Filled
  <1>3. revocation # None /\ (revocation.settled <=> HasADay(m))
    <2>1. bid.fills[Seat(bid, m)].aDay \in BOOLEAN
      BY <1>2, DocumentFields DEF Awards, Opt
    <2>2. HasADay(m) \in BOOLEAN
      BY <1>1, <2>1 DEF HasADay
    <2>3. QED
      BY <1>2, <2>2, NullIsNoRecord DEF Revocation
  <1> HIDE DEF revocation
  <1>4. /\ NeededFields \subseteq DOMAIN s
        /\ s.fills = Vacated(m) /\ s.picks = bid.picks \ {m}
        /\ s.revoked = [bid.revoked EXCEPT ![m] = revocation] /\ s.order = bid.order
    BY DocumentFields DEF NeededFields, AwardFields
  <1> HIDE DEF s
  <1>5. NeededFields \subseteq DOMAIN t /\ SameAwards(s, t)
    BY <1>4, TurnNeeded, SettlingSameAwards DEF NeededFields
  <1>6. /\ t.fills = Vacated(m) /\ t.picks = bid.picks \ {m}
        /\ t.revoked = [bid.revoked EXCEPT ![m] = revocation] /\ t.order = bid.order
    BY <1>4, <1>5 DEF SameAwards
  <1> HIDE DEF t
  <1>7. Evaluates(t) /\ PromptedAll
    BY <1>1, <1>5, Accepted DEF NeededFields
  <1>8. m \notin Awarded(t)
    BY <1>6 DEF Awarded, Filled, Vacated
  <1>9. \A q \in Positions : OfAnother(bid, q, m) \/ OfAnother(t, q, m)
                               => t.fills[q] = bid.fills[q]
    BY <1>6 DEF OfAnother, Filled, Vacated
  <1>10. OthersKept(t, m)
    BY <1>6, <1>9, DocumentFields, AwardsOfOthers
  <1>11. t.revoked[m] = revocation
    BY <1>6, DocumentFields
  <1>12. QED
    BY <1>1, <1>3, <1>6, <1>7, <1>8, <1>10, <1>11, OthersEvaluated DEF Evaluates

LEMMA ReplaceAwards ==
  ASSUME Live(bid), NEW m \in Members, NEW p \in Positions, NEW aDay \in BOOLEAN,
         NEW override \in BOOLEAN, CorrectReplace(m, p, aDay, override)
  PROVE  /\ OthersKept(bid', m) /\ AwardIs(bid', m, p, aDay)
         /\ m \in Awarded(bid) \/ bid.revoked[m] # None
         /\ bid'.order = bid.order /\ PromptedAll
         /\ HasADay(m) => \/ aDay
                          \/ "force" \in Granted /\ bid'.fills[p].deferral # None
         /\ m \in bid'.picks => m \in Given(bid')
  <1> DEFINE deferral == IF override /\ ~aDay THEN p ELSE None
             award == Award(m, aDay, deferral)
             s == [bid EXCEPT !.fills = [Vacated(m) EXCEPT ![p] = award],
                              !.picks = @ \ {m}, !.last = p, !.revoked[m] = None]
             u == IF override THEN SettleSelected(s, m) ELSE s
             t == CloseReview(u, override)
  <1>1. PICK named : Accept(t, override, named)
    BY DEF CorrectReplace, AcceptCorrection
  <1>2. /\ award.member = m /\ award.aDay = aDay /\ award # None
        /\ HasADay(m) => aDay \/ ("force" \in Granted /\ award.deferral # None)
    <2>1. /\ ~override => ReplacementADay(m, p, aDay)
          /\ override => "force" \in Granted
      BY DEF CorrectReplace, AcceptCorrection, Permitted
    <2>2. None \notin Positions
      BY BidPolicy
    <2>3. QED
      BY <2>1, <2>2, NullIsNoRecord DEF Award, ReplacementADay
  <1> HIDE DEF award
  <1>3. /\ NeededFields \subseteq DOMAIN s
        /\ s.fills = [Vacated(m) EXCEPT ![p] = award] /\ s.picks = bid.picks \ {m}
        /\ s.revoked = [bid.revoked EXCEPT ![m] = None] /\ s.order = bid.order
    BY DocumentFields DEF NeededFields, AwardFields
  <1> HIDE DEF s
  <1>4. NeededFields \subseteq DOMAIN u /\ SameAwards(s, u)
    BY <1>3, TurnNeeded, SettlingSameAwards DEF NeededFields, SameAwards
  <1> HIDE DEF u
  <1>5. NeededFields \subseteq DOMAIN t /\ SameAwards(u, t)
    BY <1>4, TurnNeeded, SettlingSameAwards DEF NeededFields
  <1>6. /\ t.fills = [Vacated(m) EXCEPT ![p] = award] /\ t.picks = bid.picks \ {m}
        /\ t.revoked = [bid.revoked EXCEPT ![m] = None] /\ t.order = bid.order
    BY <1>3, <1>4, <1>5 DEF SameAwards
  <1> HIDE DEF t
  <1>7. Evaluates(t) /\ PromptedAll
    BY <1>1, <1>5, Accepted DEF NeededFields
  <1>8. t.fills[p] = award /\ \A q \in Positions \ {p} : t.fills[q] = Vacated(m)[q]
    BY <1>6 DEF Vacated
  <1>9. AwardIs(t, m, p, aDay)
    BY <1>2, <1>8 DEF AwardIs, Filled
  <1>10. Vacated(m)[p] = None
    BY DEF CorrectReplace
  <1>11. \A q \in Positions : OfAnother(bid, q, m) \/ OfAnother(t, q, m)
                               => t.fills[q] = bid.fills[q]
    BY <1>2, <1>8, <1>10 DEF OfAnother, Filled, Vacated
  <1>12. OthersKept(t, m)
    <2>1. /\ t.picks \ {m} = bid.picks \ {m}
          /\ \A n \in Members \ {m} : t.revoked[n] = bid.revoked[n]
      BY <1>6, DocumentFields
    <2>2. QED
      BY <1>11, <2>1, AwardsOfOthers
  <1>13. m \in Awarded(bid) \/ bid.revoked[m] # None
    BY DEF CorrectReplace
  <1>14. QED
    BY <1>2, <1>6, <1>7, <1>8, <1>9, <1>12, <1>13, OthersEvaluated, AwardEvaluated DEF Evaluates

LEMMA AmendAwards ==
  ASSUME Live(bid), NEW p \in Positions, NEW aDay \in BOOLEAN, Amend(p, aDay)
  PROVE  \E m \in Members :
           /\ m \in Awarded(bid) /\ m = bid.fills[bid.last].member
           /\ OthersKept(bid', m) /\ AwardIs(bid', m, p, m \in Given(bid) \/ aDay)
           /\ bid'.revoked = bid.revoked /\ bid'.order = bid.order /\ PromptedAll
           /\ m \in bid.picks => m \in bid'.picks
           /\ m \in bid'.picks => m \in bid.picks \cup Given(bid')
  <1> DEFINE prior == bid.fills[bid.last]
             m     == prior.member
             award == [prior EXCEPT !.aDay = @ \/ aDay]
             s     == [bid EXCEPT !.fills = [@ EXCEPT ![bid.last] = None, ![p] = award],
                                  !.last = p]
  <1>1. Accept(s, FALSE, None)
    BY DEF Amend, AcceptOrdinary
  <1>2. bid.last \in Positions /\ bid.last \in Filled(bid) /\ p # bid.last
    BY DEF Live, Shape, Documents, Amend, Opt, Filled
  <1>3. prior \in Awards
    BY <1>2, MembersTyped
  <1>4. /\ award.member = m /\ (award.aDay <=> (prior.aDay \/ aDay))
        /\ award = Award(m, prior.aDay \/ aDay, prior.deferral)
        /\ m \in Members /\ prior.deferral \in Positions \cup {None}
        /\ (prior.aDay \/ aDay) \in BOOLEAN
    BY <1>3 DEF Awards, Award, Opt
  <1>5. award # None
    BY <1>4, NullIsNoRecord
  <1>6. m \in Given(bid) <=> prior.aDay
    BY <1>2 DEF Given, Live, Evaluable
  <1>7. m \in Awarded(bid)
    BY <1>2 DEF Awarded
  <1> HIDE DEF award
  <1>8. /\ NeededFields \subseteq DOMAIN s
        /\ s.fills = [bid.fills EXCEPT ![bid.last] = None, ![p] = award]
        /\ s.revoked = bid.revoked /\ s.picks = bid.picks /\ s.order = bid.order
    BY DocumentFields DEF NeededFields, AwardFields
  <1> HIDE DEF s
  <1>9. Evaluates(s) /\ PromptedAll
    BY <1>1, <1>8, Accepted DEF NeededFields
  <1>10. /\ s.fills[p] = award /\ s.fills[bid.last] = None
         /\ \A q \in Positions \ {p, bid.last} : s.fills[q] = bid.fills[q]
    BY <1>2, <1>8, DocumentFields
  <1>11. bid.fills[p] = None
    BY DEF Amend, OpenSeat
  <1>12. AwardIs(s, m, p, m \in Given(bid) \/ aDay)
    <2>1. p \in Filled(s)
      BY <1>5, <1>10 DEF Filled
    <2>2. QED
      BY <1>4, <1>6, <1>10, <2>1 DEF AwardIs
  <1>13. \A q \in Positions : OfAnother(bid, q, m) \/ OfAnother(s, q, m)
                                => s.fills[q] = bid.fills[q]
    BY <1>4, <1>10, <1>11 DEF OfAnother, Filled
  <1>14. OthersKept(s, m)
    BY <1>8, <1>13, AwardsOfOthers
  <1>15. m \in Awarded(s)
    BY <1>12 DEF AwardIs, Awarded
  <1> HIDE DEF m
  <1>16. OthersKept(bid', m) /\ AwardIs(bid', m, p, m \in Given(bid) \/ aDay)
    BY <1>9, <1>12, <1>14, OthersEvaluated, AwardEvaluated
  <1>17. QED
    BY <1>4, <1>7, <1>8, <1>9, <1>15, <1>16 DEF Evaluates, m

LEMMA AcceptSpecialtyAwards ==
  ASSUME Live(bid), NEW p \in Positions, AcceptSpecialty(p)
  PROVE  /\ Candidate \in Members /\ OthersKept(bid', Candidate)
         /\ AwardIs(bid', Candidate, p, p \notin Deferred)
         /\ bid'.revoked = bid.revoked /\ bid.revoked[Candidate] = None
         /\ Candidate \in bid.picks => Candidate \in bid'.picks
         /\ PromptedAll /\ Candidate \in Ranked
         /\ \A i \in DOMAIN bid.order :
              bid.order[i].member # Candidate \/ p \in Deferred =>
                \E j \in DOMAIN bid'.order : bid'.order[j] = bid.order[i]
  <1> DEFINE others == {t \in Turn : t.member # Candidate}
             award  == Award(Candidate, p \notin Deferred, None)
             fills  == [q \in Positions |->
                          IF q = p THEN award
                          ELSE IF q \in Filled(bid) /\ bid.fills[q].member = Candidate
                          THEN None ELSE bid.fills[q]]
             goesOn == \E q \in Specialty.seats : fills[q] = None /\ q \notin bid.withdrawn
             order  == IF LeavesOrder(p) THEN Among(bid.order, others) ELSE bid.order
             s      == [bid EXCEPT
                          !.fills = fills,
                          !.last = IF @ # None /\ fills[@] = None THEN None ELSE @,
                          !.order = IF LeavesOrder(p) THEN Among(@, others) ELSE @,
                          !.review = IF goesOn THEN NextCandidate ELSE None]
  <1>1. Accept(s, FALSE, None) /\ bid.revoked[Candidate] = None /\ bid.fills[p] = None
    BY DEF AcceptSpecialty, AcceptOrdinary, OpenSeat
  <1>2. Candidate \in Members
    <2>1. bid.review # None
      BY DEF AcceptSpecialty
    <2>2. /\ bid.review \in Reviews /\ bid.review.at \in DOMAIN bid.review.candidates
      BY <2>1 DEF Live, Adjudicated, Shape, Documents, Opt
    <2>3. QED
      BY <2>2 DEF Candidate, Reviews
  <1>3. award.member = Candidate /\ (award.aDay <=> p \notin Deferred) /\ award # None
    BY <1>2, NullIsNoRecord DEF Award
  <1> HIDE DEF award
  <1>4. /\ NeededFields \subseteq DOMAIN s
        /\ s.fills = fills /\ s.revoked = bid.revoked /\ s.picks = bid.picks
        /\ s.order = order
    BY DocumentFields DEF NeededFields, AwardFields
  <1> HIDE DEF s
  <1>5. Evaluates(s) /\ PromptedAll
    BY <1>1, <1>4, Accepted DEF NeededFields
  <1>6. ASSUME NEW i \in DOMAIN bid.order, bid.order[i].member # Candidate \/ p \in Deferred
         PROVE  \E j \in DOMAIN bid'.order : bid'.order[j] = bid.order[i]
    <2>1. bid'.order = order
      BY <1>4, <1>5 DEF Evaluates
    <2>2. CASE ~LeavesOrder(p)
      BY <1>6, <2>1, <2>2
    <2>3. CASE LeavesOrder(p)
      <3>1. /\ bid.order \in Seq(Turn) /\ i \in 1 .. Len(bid.order) /\ Len(bid.order) \in Nat
            /\ bid.order[i] \in others
        <4>1. bid.order \in Seq(Turn)
          BY DocumentOrder DEF Live, Shape
        <4>2. bid.order[i].member # Candidate
          BY <1>6, <2>3 DEF LeavesOrder
        <4>3. QED
          BY <1>6, <4>1, <4>2, OrderTyped
      <3>2. Filtered(bid.order, Turn, others, Len(bid.order), order)
        BY <2>3, <3>1, AmongFilters
      <3>3. PICK j \in 1 .. Len(order) : order[j] = bid.order[i]
        BY <3>1, <3>2 DEF Filtered
      <3>4. order \in Seq(Turn)
        BY <3>2 DEF Filtered
      <3> HIDE DEF order
      <3>5. DOMAIN order = 1 .. Len(order)
        BY <3>4
      <3>6. QED
        BY <2>1, <3>3, <3>5
    <2>4. QED
      BY <2>2, <2>3
  <1>7. Candidate \in Ranked
    BY DEF AcceptSpecialty, MayBeAwarded, RankedFor
  <1>8. AwardIs(s, Candidate, p, p \notin Deferred)
    BY <1>3, <1>4 DEF AwardIs, Filled
  <1>9. \A q \in Positions : OfAnother(bid, q, Candidate) \/ OfAnother(s, q, Candidate)
                               => s.fills[q] = bid.fills[q]
    BY <1>1, <1>3, <1>4 DEF OfAnother, Filled
  <1>10. OthersKept(s, Candidate)
    BY <1>4, <1>9, AwardsOfOthers
  <1>11. Candidate \in Awarded(s)
    BY <1>8 DEF AwardIs, Awarded
  <1> HIDE DEF fills, order
  <1>12. QED
    BY <1>1, <1>2, <1>4, <1>5, <1>6, <1>7, <1>8, <1>10, <1>11, OthersEvaluated, AwardEvaluated
       DEF Evaluates

-----------------------------------------------------------------------------
(* The commands that change no award.                                      *)

AwardsStay == bid'.fills = bid.fills /\ bid'.revoked = bid.revoked /\ bid'.picks = bid.picks

LEMMA QuietAwards ==
  ASSUME Live(bid), NEW s, NeededFields \subseteq DOMAIN s,
         s.fills = bid.fills, s.revoked = bid.revoked, s.picks = bid.picks,
         NEW override, NEW named, Accept(s, override, named)
  PROVE  AwardsStay /\ bid'.order = s.order /\ bid'.completed = s.completed /\ PromptedAll
  <1>1. Evaluates(s) /\ PromptedAll
    BY Accepted DEF NeededFields
  <1>2. Awarded(s) = Awarded(bid) /\ Given(s) = Given(bid)
    BY DEF Awarded, Given, Filled
  <1>3. QED
    BY <1>1, <1>2, PicksKept DEF Evaluates, AwardsStay

\* A quiet document that a search for the next turn has gone over.
LEMMA QuietAdvance ==
  ASSUME Live(bid), NEW s, NeededFields \subseteq DOMAIN s,
         s.fills = bid.fills, s.revoked = bid.revoked, s.picks = bid.picks,
         NEW from, NEW t, t \in {s, Advance(s, from)},
         NEW override, NEW named, Accept(t, override, named)
  PROVE  AwardsStay /\ bid'.order = s.order /\ bid'.completed = s.completed /\ PromptedAll
  <1>1. NeededFields \subseteq DOMAIN t /\ SameAwards(s, t)
    BY TurnNeeded, TurnSameAwards DEF NeededFields, SameAwards
  <1>2. t.fills = bid.fills /\ t.revoked = bid.revoked /\ t.picks = bid.picks
        /\ t.order = s.order /\ t.completed = s.completed
    BY <1>1 DEF SameAwards
  <1>3. QED
    BY <1>1, <1>2, QuietAwards

LEMMA TransitionAwards ==
  ASSUME Live(bid), NEW st, NEW override, NEW prior, NEW withdraw, NEW restore,
         TransitionStage(st, override, prior, withdraw, restore)
  PROVE  AwardsStay /\ PromptedAll
  <1> DEFINE here       == st = CurrentStage(bid)
             closing    == (IF here THEN {} ELSE {CurrentStage(bid)})
                             \cup (IF prior THEN 1 .. st - 1 ELSE {})
             told       == [bid EXCEPT !.completed = @ \cup closing,
                                       !.withdrawn = (@ \cup withdraw) \ restore]
             configured == ClearReturned(told)
             stays      == here /\ closing \subseteq bid.completed
             next       == IF stays THEN configured
                           ELSE Advance(configured, TransitionCursor(st))
  <1>1. Accept(next, override, None)
    BY DEF TransitionStage
  <1> HIDE DEF closing
  <1>2. /\ NeededFields \subseteq DOMAIN told
        /\ told.fills = bid.fills /\ told.revoked = bid.revoked /\ told.picks = bid.picks
    BY DocumentFields DEF NeededFields, AwardFields
  <1> HIDE DEF told
  <1>3. NeededFields \subseteq DOMAIN configured /\ SameAwards(told, configured)
    BY <1>2, TurnNeeded, SettlingSameAwards DEF NeededFields
  <1> HIDE DEF configured, stays
  <1>4. next \in {configured, Advance(configured, TransitionCursor(st))}
    OBVIOUS
  <1> HIDE DEF next
  <1>5. QED
    BY <1>1, <1>2, <1>3, <1>4, QuietAdvance DEF SameAwards

LEMMA DutyAwards ==
  ASSUME Live(bid), NEW m, NEW override, AssignActing(m, override) \/ ReleaseActing(m, override)
  PROVE  AwardsStay /\ bid'.order = bid.order /\ bid'.completed = bid.completed /\ PromptedAll
  <1> DEFINE changed(acting) == [bid EXCEPT !.acting = acting]
             settled(acting) == CloseReview(SettleSelected(changed(acting), m), override)
  <1>1. PICK acting, t :
          /\ t \in {settled(acting), Advance(settled(acting), bid.cursor + 1)}
               \/ t = [settled(acting) EXCEPT !.returning = m]
          /\ Accept(t, override, IF override THEN m ELSE None)
    <2>1. CASE AssignActing(m, override)
      <3> DEFINE u == settled(bid.acting \cup {m})
                 v == IF m = bid.bidder THEN Advance(u, bid.cursor + 1) ELSE u
      <3>1. Accept(v, override, IF override THEN m ELSE None)
        BY <2>1 DEF AssignActing
      <3>2. v \in {u, Advance(u, bid.cursor + 1)}
        OBVIOUS
      <3> HIDE DEF v
      <3>3. QED
        BY <3>1, <3>2
    <2>2. CASE ReleaseActing(m, override)
      <3> DEFINE u == settled(bid.acting \ {m})
                 ordinary == \E i \in TurnsOf(bid, m) :
                               i >= bid.cursor /\ ~Stages[bid.order[i].stage].days
                 returns == m \notin Awarded(bid) /\ (~ordinary \/ bid.phase = "complete")
                 v == IF returns THEN [u EXCEPT !.returning = m] ELSE u
      <3>1. Accept(v, override, IF override THEN m ELSE None)
        BY <2>2 DEF ReleaseActing
      <3> HIDE DEF returns
      <3>2. v = u \/ v = [u EXCEPT !.returning = m]
        OBVIOUS
      <3> HIDE DEF v
      <3>3. QED
        BY <3>1, <3>2
    <2>3. QED
      BY <2>1, <2>2
  <1> DEFINE first  == changed(acting)
             second == SettleSelected(first, m)
             third  == CloseReview(second, override)
  <1>2. /\ NeededFields \subseteq DOMAIN first /\ SameAwards(bid, first)
    BY DocumentFields DEF NeededFields, SameAwards, AwardFields
  <1>3. third = settled(acting)
    OBVIOUS
  <1> HIDE DEF settled, first
  <1>4. NeededFields \subseteq DOMAIN second /\ SameAwards(first, second)
    BY <1>2, TurnNeeded, SettlingSameAwards DEF NeededFields
  <1> HIDE DEF second
  <1>5. NeededFields \subseteq DOMAIN third /\ SameAwards(second, third)
    BY <1>4, TurnNeeded, SettlingSameAwards DEF NeededFields
  <1> HIDE DEF third
  <1>6. SameAwards(bid, third)
    BY <1>2, <1>4, <1>5, SameAwardsTransitive
  <1>7. CASE t \in {third, Advance(third, bid.cursor + 1)}
    BY <1>1, <1>3, <1>5, <1>6, <1>7, QuietAdvance DEF SameAwards
  <1>8. CASE t = [third EXCEPT !.returning = m]
    <2>1. NeededFields \subseteq DOMAIN t /\ SameAwards(third, t)
      BY <1>5, <1>8 DEF NeededFields, SameAwards, AwardFields
    <2>2. QED
      BY <1>1, <1>6, <2>1, QuietAwards DEF SameAwards
  <1>9. QED
    BY <1>1, <1>3, <1>7, <1>8

LEMMA OverrideDeferAwards ==
  ASSUME Live(bid), NEW named, NEW ofStage, OverrideDefer(named, ofStage)
  PROVE  /\ AwardsStay /\ bid'.completed = bid.completed /\ PromptedAll
         /\ \E m : bid'.order = Reordered(m, ofStage) /\ m \in Participants
                   /\ (ofStage \/ TurnsOf(bid, m) # {}) /\ Postponed(m, ofStage) # <<>>
  <1> DEFINE m    == IF named # None THEN named
                     ELSE IF bid.returning # None THEN bid.returning ELSE bid.bidder
             last == Postponed(m, ofStage)
             who  == {n \in {last[i].member : i \in DOMAIN last} :
                        n \notin Awarded(bid) \/ OwesADay(bid, n)}
             back  == SettleReturned(bid, m)
             order == Reordered(m, ofStage)
             moved == [back EXCEPT
                         !.order = order,
                         !.unresolved = @ \cup who,
                         !.disposition = [n \in Members |-> IF n \in who THEN "DEFER" ELSE @[n]],
                         !.review = None]
  <1>1. /\ Accept(Advance(moved, bid.cursor), TRUE, named)
        /\ m \in Participants /\ (ofStage \/ TurnsOf(bid, m) # {}) /\ last # <<>>
    <2>1. /\ Accept(Advance(moved, bid.cursor), TRUE, named) /\ who # {}
          /\ m \in Participants /\ (ofStage \/ TurnsOf(bid, m) # {})
      BY DEF OverrideDefer
    <2>2. \E i : i \in DOMAIN last
      BY <2>1
    <2> HIDE DEF last, moved, m
    <2>3. last # <<>>
      BY <2>2
    <2>4. QED
      BY <2>1, <2>3
  <1> HIDE DEF who, order, m
  <1>2. NeededFields \subseteq DOMAIN back /\ SameAwards(bid, back)
    BY DocumentFields, TurnNeeded, SettlingSameAwards DEF NeededFields
  <1> HIDE DEF back
  <1>3. /\ NeededFields \subseteq DOMAIN moved /\ moved.order = order
        /\ moved.fills = bid.fills /\ moved.revoked = bid.revoked /\ moved.picks = bid.picks
        /\ moved.completed = bid.completed
    BY <1>2 DEF NeededFields, SameAwards, AwardFields
  <1> HIDE DEF moved
  <1>4. AwardsStay /\ bid'.order = order /\ bid'.completed = bid.completed /\ PromptedAll
    BY <1>1, <1>3, QuietAdvance
  <1>5. QED
    BY <1>1, <1>4 DEF order

LEMMA AdjudicationAwards ==
  ASSUME Live(bid), (\E p : StartSpecialty(p)) \/ (\E d : RespondSpecialty(d)) \/ CloseSpecialty
  PROVE  AwardsStay /\ bid'.order = bid.order /\ bid'.completed = bid.completed /\ PromptedAll
  <1>1. PICK review, responses :
          Accept([bid EXCEPT !.review = review, !.responses = responses], FALSE, None)
    <2>1. CASE \E p : StartSpecialty(p)
      <3>1. PICK p : StartSpecialty(p)
        BY <2>1
      <3> DEFINE review == [seat |-> p, suspended |-> bid.bidder,
                            candidates |-> Ahead(bid.bidder, p, bid.bidder), at |-> 1]
      <3>2. Accept([bid EXCEPT !.review = review], FALSE, None)
        BY <3>1 DEF StartSpecialty, AcceptOrdinary
      <3> HIDE DEF review
      <3>3. [bid EXCEPT !.review = review]
              = [bid EXCEPT !.review = review, !.responses = bid.responses]
        BY DEF Live, Shape, Documents
      <3>4. QED
        BY <3>2, <3>3
    <2>2. CASE \E d : RespondSpecialty(d)
      BY <2>2 DEF RespondSpecialty, AcceptOrdinary
    <2>3. CASE CloseSpecialty
      <3>1. Accept([bid EXCEPT !.review = None], FALSE, None)
        BY <2>3 DEF CloseSpecialty, AcceptOrdinary
      <3>2. [bid EXCEPT !.review = None]
              = [bid EXCEPT !.review = None, !.responses = bid.responses]
        BY DEF Live, Shape, Documents
      <3>3. QED
        BY <3>1, <3>2
    <2>4. QED
      BY <2>1, <2>2, <2>3
  <1> DEFINE s == [bid EXCEPT !.review = review, !.responses = responses]
  <1>2. /\ NeededFields \subseteq DOMAIN s /\ s.order = bid.order
        /\ s.fills = bid.fills /\ s.revoked = bid.revoked /\ s.picks = bid.picks
        /\ s.completed = bid.completed
    BY DocumentFields DEF NeededFields, AwardFields
  <1>3. Accept(s, FALSE, None)
    BY <1>1
  <1> HIDE DEF s
  <1>4. QED
    BY <1>2, <1>3, QuietAwards

-----------------------------------------------------------------------------
(* A chosen A-Day is kept.                                                 *)

\* m has chosen, or had chosen when the award was revoked.
HasChosen(s, m) ==
  m \in s.picks \/ (m \notin Awarded(s) /\ s.revoked[m] # None /\ s.revoked[m].settled)

LEMMA ChosenMeans ==
  ASSUME NEW s, Live(s), NEW m \in Members
  PROVE  /\ HasChosen(s, m) <=>
              /\ m \in Awarded(s) \/ s.revoked[m] # None
              /\ IF m \in Awarded(s) THEN s.fills[Seat(s, m)].aDay \/ m \in s.picks
                                     ELSE s.revoked[m].settled
         /\ Given(s) \subseteq s.picks /\ s.picks \subseteq Awarded(s)
  <1>1. Given(s) \subseteq s.picks /\ s.picks \subseteq Awarded(s)
    BY DEF Live, Paid
  <1>2. m \in Awarded(s) => Seat(s, m) \in Filled(s) /\ s.fills[Seat(s, m)].member = m
    BY DEF Awarded, Seat
  <1>3. m \in Awarded(s) => (s.fills[Seat(s, m)].aDay => m \in Given(s))
    BY <1>2 DEF Given
  <1>4. QED
    BY <1>1, <1>3 DEF HasChosen

\* The A-Day m had before is there, or an override put it off.
StillChosen(m) ==
  HasChosen(bid, m) =>
    \/ HasChosen(bid', m)
    \/ /\ "force" \in Granted
       /\ m \in Awarded(bid') /\ bid'.fills[Seat(bid', m)].deferral # None

LEMMA OthersStillChosen ==
  ASSUME NEW m, OthersKept(bid', m)
  PROVE  \A n \in Members \ {m} : StillChosen(n)
  BY DEF OthersKept, StillChosen, HasChosen

LEMMA AllStillChosen ==
  ASSUME AwardsStay
  PROVE  \A n \in Members : StillChosen(n)
  BY DEF AwardsStay, StillChosen, HasChosen, Awarded, Filled

LEMMA NextChosen ==
  ASSUME Live(bid), Live(bid'), Next
  PROVE  \A n \in Members : StillChosen(n)
  <1>1. /\ Given(bid') \subseteq bid'.picks /\ bid.picks \subseteq Awarded(bid)
        /\ Evaluable(bid')
    BY DEF Live, Paid
  <1>2. ASSUME Selecting
        PROVE  \A n \in Members : StillChosen(n)
    <2>1. PICK m \in Members, p \in Positions, aDay \in BOOLEAN, override \in BOOLEAN,
                   named \in Members \cup {None} :
            Selectable(m, p) /\ Accept(Selected(m, p, aDay, override), override, named)
      <3>1. PICK m \in Members, p \in Positions :
              \/ RecordSelection(m, p)
              \/ ForceSelection(m, p)
              \/ \E forced \in BOOLEAN : FallbackSelection(m, p, forced)
              \/ \E aDay \in BOOLEAN : DirectSelection(m, p, aDay)
        BY <1>2 DEF Selecting
      <3>2. Selectable(m, p)
        BY <3>1 DEF RecordSelection, ForceSelection, FallbackSelection, DirectSelection
      <3>3. \/ \E aDay \in BOOLEAN : AcceptOrdinary(Selected(m, p, aDay, FALSE))
            \/ \E aDay \in BOOLEAN : AcceptDirected(Selected(m, p, aDay, TRUE), m)
        BY <3>1 DEF RecordSelection, ForceSelection, FallbackSelection, DirectSelection
      <3>4. QED
        BY <3>2, <3>3 DEF AcceptOrdinary, AcceptDirected
    <2>2. bid.fills[p] = None /\ m \notin Awarded(bid) /\ bid.revoked[m] = None
      BY <2>1 DEF Selectable, OpenSeat
    <2>3. OthersKept(bid', m)
      BY <2>1, <2>2, SelectionAwards
    <2>4. ~HasChosen(bid, m)
      BY <1>1, <2>2 DEF HasChosen
    <2>5. QED
      BY <2>3, <2>4, OthersStillChosen DEF StillChosen
  <1>3. ASSUME PickingADay
        PROVE  \A n \in Members : StillChosen(n)
    <2>1. ASSUME NEW m \in Members, RecordADay(m)
          PROVE  \A n \in Members : StillChosen(n)
      <3>1. SamePeople(bid, bid') /\ bid'.picks = bid.picks \cup {m}
        BY <2>1, RecordADayStepped
      <3>2. QED
        BY <3>1 DEF StillChosen, HasChosen, SamePeople, Awarded, Filled
    <2>2. ASSUME NEW m \in Members, DirectADay(m)
          PROVE  \A n \in Members : StillChosen(n)
      <3>1. OthersKept(bid', m) /\ AwardIs(bid', m, Seat(bid, m), TRUE)
        BY <2>2, DirectADayAwards
      <3>2. HasChosen(bid', m)
        BY <1>1, <3>1 DEF AwardIs, Given, HasChosen
      <3>3. QED
        BY <3>1, <3>2, OthersStillChosen DEF StillChosen
    <2>3. QED
      BY <1>3, <2>1, <2>2 DEF PickingADay
  <1>4. ASSUME NEW m \in Members, NEW override \in BOOLEAN, CorrectRevoke(m, override)
        PROVE  \A n \in Members : StillChosen(n)
    <2>1. /\ OthersKept(bid', m) /\ m \in Awarded(bid) \ Awarded(bid')
          /\ bid'.revoked[m] # None /\ (bid'.revoked[m].settled <=> HasADay(m))
      BY <1>4, RevokeAwards
    <2>2. HasChosen(bid, m) => HasChosen(bid', m)
      BY <2>1 DEF HasChosen, HasADay
    <2>3. QED
      BY <2>1, <2>2, OthersStillChosen DEF StillChosen
  <1>5. ASSUME NEW m \in Members, NEW p \in Positions, NEW aDay \in BOOLEAN,
               NEW override \in BOOLEAN, CorrectReplace(m, p, aDay, override)
        PROVE  \A n \in Members : StillChosen(n)
    <2>1. /\ OthersKept(bid', m) /\ AwardIs(bid', m, p, aDay)
          /\ HasADay(m) => \/ aDay
                           \/ "force" \in Granted /\ bid'.fills[p].deferral # None
      BY <1>5, ReplaceAwards
    <2>2. HasChosen(bid, m) => HasADay(m)
      BY <1>1 DEF HasChosen, HasADay
    <2>3. Seat(bid', m) = p /\ m \in Awarded(bid') /\ (m \in Given(bid') <=> aDay)
      BY <1>1, <2>1, SeatOfAward
    <2>4. StillChosen(m)
      BY <1>1, <2>1, <2>2, <2>3 DEF StillChosen, HasChosen
    <2>5. QED
      BY <2>1, <2>4, OthersStillChosen
  <1>6. ASSUME NEW p \in Positions, NEW aDay \in BOOLEAN, Amend(p, aDay)
        PROVE  \A n \in Members : StillChosen(n)
    <2>1. PICK m \in Members : /\ m \in Awarded(bid) /\ OthersKept(bid', m)
                               /\ m \in bid.picks => m \in bid'.picks
      BY <1>6, AmendAwards
    <2>2. StillChosen(m)
      BY <2>1 DEF StillChosen, HasChosen
    <2>3. QED
      BY <2>1, <2>2, OthersStillChosen
  <1>7. ASSUME Sequencing
        PROVE  \A n \in Members : StillChosen(n)
    <2>1. ASSUME SamePeople(bid, bid'), bid'.picks = bid.picks
          PROVE  AwardsStay
      BY <2>1 DEF SamePeople, AwardsStay
    <2>2. AwardsStay
      BY <1>7, <2>1, PauseStepped, TransitionAwards, AlterOrderStepped, CompleteStepped
         DEF Sequencing
    <2>3. QED
      BY <2>2, AllStillChosen
  <1>8. ASSUME Contacting
        PROVE  \A n \in Members : StillChosen(n)
    <2>1. ASSUME NEW d \in Dispositions, Disposition(d)
          PROVE  AwardsStay
      BY <2>1, DispositionStepped DEF AwardsStay
    <2>2. ASSUME NEW m \in Members,
                 ContactAttempt(m) \/ DeclareUnreachable(m) \/ ReturnAtCurrentSequence(m)
          PROVE  AwardsStay
      BY <2>2, ContactStepped DEF AwardsStay, SamePeople
    <2>3. AwardsStay
      BY <1>8, <2>1, <2>2, OverrideDeferAwards, DutyAwards DEF Contacting
    <2>4. QED
      BY <2>3, AllStillChosen
  <1>9. ASSUME Adjudicating
        PROVE  \A n \in Members : StillChosen(n)
    <2>1. ASSUME NEW p \in Positions, AcceptSpecialty(p)
          PROVE  \A n \in Members : StillChosen(n)
      <3>1. /\ Candidate \in Members /\ OthersKept(bid', Candidate)
            /\ bid.revoked[Candidate] = None
            /\ Candidate \in bid.picks => Candidate \in bid'.picks
        BY <2>1, AcceptSpecialtyAwards
      <3>2. StillChosen(Candidate)
        BY <3>1 DEF StillChosen, HasChosen
      <3>3. QED
        BY <3>1, <3>2, OthersStillChosen
    <2>2. ASSUME ~\E p \in Positions : AcceptSpecialty(p)
          PROVE  AwardsStay
      BY <1>9, <2>2, AdjudicationAwards DEF Adjudicating
    <2>3. QED
      BY <2>1, <2>2, AllStillChosen
  <1>10. QED
    BY <1>2, <1>3, <1>4, <1>5, <1>6, <1>7, <1>8, <1>9 DEF Next, Correcting

LiveInvariant == Live(bid)

LEMMA AlwaysLive == Spec => []LiveInvariant
  <1>1. Init => LiveInvariant
    BY InitLive DEF LiveInvariant
  <1>2. LiveInvariant /\ [Next]_bid => LiveInvariant'
    BY NextLive DEF LiveInvariant
  <1>3. QED
    BY <1>1, <1>2, PTL DEF Spec

\* ADayKept: no amendment, correction or other command loses an A-Day that was
\* chosen, revocation and replacement included: it is still there, or an override
\* that replaced the award put it off.
THEOREM ChosenADaysKept == Spec => ADayKept
  <1>1. LiveInvariant /\ LiveInvariant' /\ [Next]_bid =>
          [\A m \in Members :
             Chosen(m) => \/ Chosen(m)'
                          \/ m \in Awarded(bid') /\ bid'.fills[Seat(bid', m)].deferral # None]_bid
    <2> SUFFICES ASSUME Live(bid), Live(bid'), Next, NEW m \in Members, Chosen(m)
                 PROVE  \/ Chosen(m)'
                        \/ m \in Awarded(bid') /\ bid'.fills[Seat(bid', m)].deferral # None
      BY DEF LiveInvariant
    <2>1. HasChosen(bid, m)
      BY ChosenMeans DEF Chosen, HasADay
    <2>2. HasChosen(bid', m) => Chosen(m)'
      BY ChosenMeans DEF Chosen, HasADay
    <2>3. StillChosen(m)
      BY NextChosen
    <2>4. QED
      BY <2>1, <2>2, <2>3 DEF StillChosen
  <1>2. QED
    BY <1>1, AlwaysLive, PTL DEF Spec, ADayKept

-----------------------------------------------------------------------------
(* Whoever owes an A-Day when the selections are over is prompted.         *)

LEMMA RecordADayPrompted ==
  ASSUME Live(bid), NEW m, RecordADay(m)
  PROVE  PromptedAll
  <1> DEFINE rest   == Among(bid.owing, Members \ {m})
             chosen == [bid EXCEPT !.picks = @ \cup {m}]
             picked == SettleSelected(chosen, m)
             next   == IF IsOrdinaryADayTurn(bid) THEN Advance(picked, bid.cursor + 1)
                       ELSE IF rest = <<>>
                       THEN [picked EXCEPT !.phase = "complete", !.bidder = None]
                       ELSE [picked EXCEPT !.bidder = Head(rest)]
  <1>1. Accept(next, FALSE, None)
    BY DEF RecordADay, AcceptOrdinary
  <1>2. NeededFields \subseteq DOMAIN chosen
    BY DocumentFields DEF NeededFields
  <1> HIDE DEF chosen
  <1>3. NeededFields \subseteq DOMAIN picked
    BY <1>2, TurnNeeded DEF NeededFields
  <1> HIDE DEF picked, rest
  <1>4. NeededFields \subseteq DOMAIN next
    BY <1>3, TurnNeeded DEF NeededFields
  <1> HIDE DEF next
  <1>5. QED
    BY <1>1, <1>4, Accepted DEF NeededFields

LEMMA AlterOrderPrompted ==
  ASSUME Live(bid), NEW source, NEW override, AlterOrder(source, override)
  PROVE  PromptedAll
  <1> DEFINE order   == [i \in DOMAIN bid.order |->
                           IF i \in Editable THEN bid.order[source[i]] ELSE bid.order[i]]
             told    == [bid EXCEPT !.order = order]
             altered == CloseReview(told, override)
             next    == IF override \/ Editable # Remaining
                        THEN Advance(altered, bid.cursor)
                        ELSE [altered EXCEPT !.bidder = order[bid.cursor].member]
  <1>1. Accept(next, override, None)
    BY DEF AlterOrder
  <1> HIDE DEF order
  <1>2. NeededFields \subseteq DOMAIN told
    BY DocumentFields DEF NeededFields
  <1> HIDE DEF told
  <1>3. NeededFields \subseteq DOMAIN altered
    BY <1>2, TurnNeeded DEF NeededFields
  <1> HIDE DEF altered
  <1>4. NeededFields \subseteq DOMAIN next
    BY <1>3, TurnNeeded DEF NeededFields
  <1> HIDE DEF next
  <1>5. QED
    BY <1>1, <1>4, Accepted DEF NeededFields

LEMMA ContactPrompted ==
  ASSUME Live(bid),
         \/ CompleteSession
         \/ \E m : ContactAttempt(m) \/ DeclareUnreachable(m) \/ ReturnAtCurrentSequence(m)
         \/ \E d : Disposition(d)
  PROVE  PromptedAll
  <1>1. ASSUME NEW s, NeededFields \subseteq DOMAIN s, AcceptOrdinary(s)
        PROVE  PromptedAll
    BY <1>1, Accepted DEF AcceptOrdinary, NeededFields
  <1>2. NeededFields \subseteq DOMAIN bid
    BY DocumentFields DEF NeededFields
  <1>3. CASE CompleteSession
    <2>1. NeededFields \subseteq DOMAIN [bid EXCEPT !.sealed = TRUE, !.returning = None]
      BY <1>2
    <2>2. QED
      BY <1>1, <1>3, <2>1 DEF CompleteSession
  <1>4. CASE \E m : ContactAttempt(m) \/ DeclareUnreachable(m) \/ ReturnAtCurrentSequence(m)
    <2>1. PICK m : ContactAttempt(m) \/ DeclareUnreachable(m) \/ ReturnAtCurrentSequence(m)
      BY <1>4
    <2>2. CASE ContactAttempt(m)
      <3>1. NeededFields \subseteq DOMAIN [bid EXCEPT !.attempts[m] = @ + 1]
        BY <1>2
      <3>2. QED
        BY <1>1, <2>2, <3>1 DEF ContactAttempt
    <2>3. CASE DeclareUnreachable(m)
      <3>1. NeededFields \subseteq DOMAIN [bid EXCEPT !.unresolved = @ \cup {m}]
        BY <1>2
      <3>2. QED
        BY <1>1, <2>3, <3>1 DEF DeclareUnreachable
    <2>4. CASE ReturnAtCurrentSequence(m)
      <3>1. NeededFields \subseteq DOMAIN [bid EXCEPT !.unresolved = @ \ {m}, !.returning = m]
        BY <1>2
      <3>2. QED
        BY <1>1, <2>4, <3>1 DEF ReturnAtCurrentSequence
    <2>5. QED
      BY <2>1, <2>2, <2>3, <2>4
  <1>5. CASE \E d : Disposition(d)
    <2>1. PICK d : Disposition(d)
      BY <1>5
    <2> DEFINE m    == IF bid.returning # None THEN bid.returning ELSE bid.bidder
               told == [bid EXCEPT !.disposition[m] = d,
                          !.unresolved = IF d = "UNREACHABLE" THEN @ \cup {m} ELSE @]
               next == IF ~Rules[d].advances THEN told
                       ELSE IF bid.returning = None THEN Advance(told, bid.cursor + 1)
                       ELSE SettleReturned(told, m)
    <2>2. AcceptOrdinary(next)
      BY <2>1 DEF Disposition
    <2>3. NeededFields \subseteq DOMAIN told
      BY <1>2
    <2> HIDE DEF told
    <2>4. NeededFields \subseteq DOMAIN next
      BY <2>3, TurnNeeded
    <2> HIDE DEF next
    <2>5. QED
      BY <1>1, <2>2, <2>4
  <1>6. QED
    BY <1>3, <1>4, <1>5

HasEntry(s, m) == \E i \in DOMAIN s.order : s.order[i].member = m

\* Who has an award, or had one that is revoked.
Concerned(s) == {m \in Members : m \in Awarded(s) \/ s.revoked[m] # None}

\* Nobody is taken out of the order, or given an award without an entry in it.
EntriesStay ==
  /\ \A m \in Members : HasEntry(bid, m) => HasEntry(bid', m)
  /\ \A m \in Concerned(bid') : m \in Concerned(bid) \/ HasEntry(bid, m)

LEMMA EntriesOfOne ==
  ASSUME NEW m, OthersKept(bid', m), bid'.order = bid.order,
         m \in Concerned(bid) \/ HasEntry(bid, m)
  PROVE  EntriesStay
  BY DEF OthersKept, EntriesStay, Concerned, HasEntry

LEMMA ReorderedKeepsEntries ==
  ASSUME Live(bid), NEW m \in Members, NEW ofStage \in BOOLEAN,
         ofStage \/ TurnsOf(bid, m) # {}, Postponed(m, ofStage) # <<>>
  PROVE  \A i \in DOMAIN bid.order :
           \E j \in DOMAIN Reordered(m, ofStage) : Reordered(m, ofStage)[j] = bid.order[i]
  <1> DEFINE order     == bid.order
             committed == [i \in (1 .. bid.cursor - 1) \cap DOMAIN order |-> order[i]]
             remaining == SubSeq(order, bid.cursor, Len(order))
             kept      == Among(remaining, Turn \ Moving(m, ofStage))
             own       == Among(remaining, Moving(m, ofStage))
             last      == Postponed(m, ofStage)
             front     == committed \o kept
             whole     == front \o last
  <1>1. bid.cursor \in Nat \ {0}
    BY DEF Live, Shape, Documents
  <1>2. order \in Seq(Turn) /\ Len(order) \in Nat /\ DOMAIN order = 1 .. Len(order)
    BY DocumentOrder, OrderTyped DEF Live, Shape
  <1>3. /\ last \in Seq(Turn) /\ whole \in Seq(Turn) /\ whole = Reordered(m, ofStage)
        /\ \A i \in DOMAIN order : i < bid.cursor => i \in DOMAIN whole /\ whole[i] = order[i]
    <2>1. whole = Reordered(m, ofStage)
      BY DEF Reordered
    <2> HIDE DEF whole
    <2>2. QED
      BY <2>1, ReorderedTyped
  <1>4. last = own \/ (own = <<>> /\ ~ofStage)
    BY DEF Postponed
  <1>5. committed \in Seq(Turn)
    <2>1. PICK n \in Nat : (1 .. bid.cursor - 1) \cap DOMAIN order = 1 .. n /\ n <= Len(order)
      <3>1. CASE bid.cursor - 1 <= Len(order)
        <4>1. (1 .. bid.cursor - 1) \cap DOMAIN order = 1 .. bid.cursor - 1
              /\ bid.cursor - 1 \in Nat
          BY <1>1, <1>2, <3>1
        <4>2. QED
          BY <3>1, <4>1
      <3>2. CASE ~(bid.cursor - 1 <= Len(order))
        <4>1. (1 .. bid.cursor - 1) \cap DOMAIN order = 1 .. Len(order)
          BY <1>1, <1>2, <3>2
        <4>2. QED
          BY <1>2, <4>1
      <3>3. QED
        BY <3>1, <3>2
    <2>2. committed = [i \in 1 .. n |-> order[i]]
      BY <2>1
    <2>3. \A i \in 1 .. n : order[i] \in Turn
      BY <1>2, <2>1
    <2> HIDE DEF committed
    <2>4. QED
      BY <2>2, <2>3
  <1> HIDE DEF order, committed, last, whole
  <1>6. /\ remaining \in Seq(Turn) /\ Len(remaining) \in Nat
        /\ \A i \in DOMAIN order : ~(i < bid.cursor) =>
             /\ i - bid.cursor + 1 \in 1 .. Len(remaining)
             /\ remaining[i - bid.cursor + 1] = order[i]
    <2>1. remaining \in Seq(Turn) /\ Len(remaining) \in Nat
      BY <1>1, <1>2
    <2>2. ASSUME NEW i \in DOMAIN order, ~(i < bid.cursor)
          PROVE  /\ i - bid.cursor + 1 \in 1 .. Len(remaining)
                 /\ remaining[i - bid.cursor + 1] = order[i]
      <3>1. bid.cursor <= Len(order) /\ i \in Nat
        BY <1>1, <1>2, <2>2
      <3>2. Len(remaining) = Len(order) - bid.cursor + 1
        BY <1>1, <1>2, <3>1
      <3>3. i - bid.cursor + 1 \in 1 .. Len(order) - bid.cursor + 1
        BY <1>1, <1>2, <2>2, <3>1
      <3>4. \A k \in 1 .. Len(order) - bid.cursor + 1 : remaining[k] = order[bid.cursor + k - 1]
        BY <1>1, <1>2, <3>1
      <3>5. bid.cursor + (i - bid.cursor + 1) - 1 = i
        BY <1>1, <3>1
      <3> HIDE DEF remaining
      <3>6. QED
        BY <3>2, <3>3, <3>4, <3>5
    <2>3. QED
      BY <2>1, <2>2
  <1> HIDE DEF remaining
  <1>7. /\ kept \in Seq(Turn) /\ own \in Seq(Turn)
        /\ \A i \in 1 .. Len(remaining) :
             /\ remaining[i] \in Turn
             /\ remaining[i] \in Moving(m, ofStage) => \E j \in 1 .. Len(own) : own[j] = remaining[i]
             /\ remaining[i] \notin Moving(m, ofStage) =>
                  \E j \in 1 .. Len(kept) : kept[j] = remaining[i]
    <2>1. /\ Filtered(remaining, Turn, Turn \ Moving(m, ofStage), Len(remaining), kept)
          /\ Filtered(remaining, Turn, Moving(m, ofStage), Len(remaining), own)
      BY <1>6, AmongFilters
    <2>2. \A i \in 1 .. Len(remaining) : remaining[i] \in Turn
      BY <1>6
    <2> HIDE DEF kept, own
    <2>3. QED
      BY <2>1, <2>2 DEF Filtered
  <1> HIDE DEF kept, own
  <1>8. /\ front \in Seq(Turn) /\ Len(front) = Len(committed) + Len(kept)
        /\ \A j \in 1 .. Len(kept) : front[Len(committed) + j] = kept[j]
    BY <1>5, <1>7
  <1> HIDE DEF front
  <1>9. /\ DOMAIN whole = 1 .. Len(front) + Len(last)
        /\ \A j \in 1 .. Len(front) : whole[j] = front[j]
        /\ \A j \in 1 .. Len(last) : whole[Len(front) + j] = last[j]
    <2>1. last \in Seq(Turn) /\ front \in Seq(Turn)
      BY <1>3, <1>8
    <2> HIDE DEF last
    <2>2. QED
      BY <2>1 DEF whole
  <1>10. /\ Len(front) \in Nat /\ Len(last) \in Nat /\ Len(committed) \in Nat
         /\ Len(kept) \in Nat /\ Len(own) \in Nat
    BY <1>3, <1>5, <1>7, <1>8
  <1>11. ASSUME NEW i \in DOMAIN order
         PROVE  \E j \in DOMAIN whole : whole[j] = order[i]
    <2>1. CASE i < bid.cursor
      BY <1>3, <2>1
    <2>2. CASE ~(i < bid.cursor)
      <3> DEFINE k == i - bid.cursor + 1
      <3>1. k \in 1 .. Len(remaining) /\ remaining[k] = order[i]
        BY <1>6, <1>11, <2>2
      <3> HIDE DEF k
      <3>2. CASE remaining[k] \in Moving(m, ofStage)
        <4>1. PICK j \in 1 .. Len(own) : own[j] = remaining[k]
          BY <1>7, <3>1, <3>2
        <4>2. last = own
          BY <1>4, <4>1
        <4>3. Len(front) + j \in DOMAIN whole /\ whole[Len(front) + j] = order[i]
          BY <1>9, <1>10, <3>1, <4>1, <4>2
        <4>4. QED
          BY <4>3
      <3>3. CASE remaining[k] \notin Moving(m, ofStage)
        <4>1. PICK j \in 1 .. Len(kept) : kept[j] = remaining[k]
          BY <1>7, <3>1, <3>3
        <4>2. Len(committed) + j \in 1 .. Len(front)
          BY <1>8, <1>10, <4>1
        <4>3. Len(committed) + j \in DOMAIN whole
          BY <1>9, <1>10, <4>2
        <4>4. whole[Len(committed) + j] = order[i]
          BY <1>8, <1>9, <3>1, <4>1, <4>2
        <4>5. QED
          BY <4>3, <4>4
      <3>4. QED
        BY <3>2, <3>3
    <2>3. QED
      BY <2>1, <2>2
  <1>12. QED
    BY <1>3, <1>11 DEF order

LEMMA SelectionEntries ==
  ASSUME Live(bid), Selecting
  PROVE  PromptedAll /\ EntriesStay
  <1>1. PICK m \in Members, p \in Positions :
          \/ RecordSelection(m, p)
          \/ ForceSelection(m, p)
          \/ \E forced \in BOOLEAN : FallbackSelection(m, p, forced)
          \/ \E aDay \in BOOLEAN : DirectSelection(m, p, aDay)
    BY DEF Selecting
  <1>2. bid.fills[p] = None /\ TurnsOf(bid, m) # {}
    BY <1>1 DEF RecordSelection, ForceSelection, FallbackSelection, DirectSelection,
                Selectable, OpenSeat
  <1>3. PICK aDay \in BOOLEAN, override \in BOOLEAN, named \in {None, m} :
          Accept(Selected(m, p, aDay, override), override, named)
    BY <1>1 DEF RecordSelection, ForceSelection, FallbackSelection, DirectSelection,
                AcceptOrdinary, AcceptDirected
  <1>4. OthersKept(bid', m) /\ bid'.order = bid.order /\ PromptedAll
    BY <1>2, <1>3, SelectionAwards
  <1>5. QED
    BY <1>2, <1>4, EntriesOfOne DEF HasEntry, TurnsOf

LEMMA CorrectingEntries ==
  ASSUME Live(bid), Correcting
  PROVE  PromptedAll /\ EntriesStay
  <1>1. PICK m \in Members :
          /\ OthersKept(bid', m) /\ (m \in Awarded(bid) \/ bid.revoked[m] # None)
          /\ bid'.order = bid.order /\ PromptedAll
    BY RevokeAwards, ReplaceAwards, AmendAwards DEF Correcting
  <1>2. QED
    BY <1>1, EntriesOfOne DEF Concerned

LEMMA PickingADayEntries ==
  ASSUME Live(bid), PickingADay
  PROVE  PromptedAll /\ EntriesStay
  <1>1. PICK m \in Members : RecordADay(m) \/ DirectADay(m)
    BY DEF PickingADay
  <1>2. CASE RecordADay(m)
    <2>1. SamePeople(bid, bid') /\ SameQueue(bid, bid')
      BY <1>2, RecordADayStepped
    <2>2. QED
      BY <1>2, <2>1, RecordADayPrompted
         DEF SamePeople, SameQueue, EntriesStay, Concerned, HasEntry, Awarded, Filled
  <1>3. CASE DirectADay(m)
    <2>1. OthersKept(bid', m) /\ m \in Awarded(bid) /\ bid'.order = bid.order /\ PromptedAll
      BY <1>3, DirectADayAwards
    <2>2. QED
      BY <2>1, EntriesOfOne DEF Concerned
  <1>4. QED
    BY <1>1, <1>2, <1>3

LEMMA OrderEntries ==
  ASSUME Live(bid),
         \A i \in DOMAIN bid.order : \E j \in DOMAIN bid'.order : bid'.order[j] = bid.order[i],
         AwardsStay
  PROVE  EntriesStay
  <1>1. \A m \in Members : HasEntry(bid, m) => HasEntry(bid', m)
    BY DEF HasEntry
  <1>2. Concerned(bid') = Concerned(bid)
    BY DEF AwardsStay, Concerned, Awarded, Filled
  <1>3. QED
    BY <1>1, <1>2 DEF EntriesStay

LEMMA SequencingEntries ==
  ASSUME Live(bid), Sequencing
  PROVE  (PromptedAll \/ Pause \/ Resume) /\ EntriesStay
  <1>1. CASE Pause \/ Resume
    <2>1. AwardsStay /\ bid'.order = bid.order
      BY <1>1, PauseStepped DEF SamePeople, AwardsStay, Waits, SameQueue
    <2>2. QED
      BY <1>1, <2>1, OrderEntries
  <1>2. ASSUME NEW st \in StageIds, NEW override \in BOOLEAN, NEW prior \in BOOLEAN,
               NEW withdraw \in SUBSET Biddable, NEW restore \in SUBSET Biddable,
               TransitionStage(st, override, prior, withdraw, restore)
        PROVE  PromptedAll /\ EntriesStay
    <2>1. AwardsStay /\ PromptedAll /\ bid'.order = bid.order
      BY <1>2, TransitionAwards, TransitionStepped
    <2>2. QED
      BY <2>1, OrderEntries
  <1>3. ASSUME NEW source \in Bijection(Editable, Editable), NEW override \in BOOLEAN,
               AlterOrder(source, override)
        PROVE  PromptedAll /\ EntriesStay
    <2>1. /\ SamePeople(bid, bid') /\ bid'.picks = bid.picks
          /\ DOMAIN bid'.order = DOMAIN bid.order
          /\ \A i \in DOMAIN bid.order :
               /\ i \notin Editable => bid'.order[i] = bid.order[i]
               /\ i \in Editable => \E j \in Editable : bid'.order[j] = bid.order[i]
      BY <1>3, AlterOrderStepped
    <2>2. Editable \subseteq DOMAIN bid.order
      <3>1. /\ DOMAIN bid.order = 1 .. Len(bid.order) /\ Len(bid.order) \in Nat
            /\ bid.cursor \in Nat \ {0}
        BY DocumentOrder, OrderTyped DEF Live, Shape, Documents
      <3>2. QED
        BY <3>1 DEF Editable, Remaining
    <2>3. QED
      BY <1>3, <2>1, <2>2, AlterOrderPrompted, OrderEntries DEF SamePeople, AwardsStay
  <1>4. CASE CompleteSession
    <2>1. AwardsStay /\ bid'.order = bid.order
      BY <1>4, CompleteStepped DEF SamePeople, AwardsStay, Waits, SameQueue
    <2>2. QED
      BY <1>4, <2>1, ContactPrompted, OrderEntries
  <1>5. QED
    BY <1>1, <1>2, <1>3, <1>4 DEF Sequencing

LEMMA ContactingEntries ==
  ASSUME Live(bid), Contacting
  PROVE  PromptedAll /\ EntriesStay
  <1>1. ASSUME NEW m \in Members,
               ContactAttempt(m) \/ DeclareUnreachable(m) \/ ReturnAtCurrentSequence(m)
        PROVE  PromptedAll /\ EntriesStay
    <2>1. AwardsStay /\ bid'.order = bid.order
      BY <1>1, ContactStepped DEF SamePeople, AwardsStay, Waits, SameQueue
    <2>2. QED
      BY <1>1, <2>1, ContactPrompted, OrderEntries
  <1>2. ASSUME NEW d \in Dispositions, Disposition(d)
        PROVE  PromptedAll /\ EntriesStay
    <2>1. AwardsStay /\ bid'.order = bid.order
      BY <1>2, DispositionStepped DEF AwardsStay, SameQueue
    <2>2. QED
      BY <1>2, <2>1, ContactPrompted, OrderEntries
  <1>3. ASSUME NEW named \in Participants \cup {None}, NEW ofStage \in BOOLEAN,
               OverrideDefer(named, ofStage)
        PROVE  PromptedAll /\ EntriesStay
    <2>1. AwardsStay /\ PromptedAll
      BY <1>3, OverrideDeferAwards
    <2>2. PICK m \in Members : /\ bid'.order = Reordered(m, ofStage)
                               /\ ofStage \/ TurnsOf(bid, m) # {}
                               /\ Postponed(m, ofStage) # <<>>
      BY <1>3, OverrideDeferAwards, ParticipantsTyped
    <2>3. QED
      BY <2>1, <2>2, ReorderedKeepsEntries, OrderEntries
  <1>4. ASSUME NEW m \in Members, NEW override \in BOOLEAN,
               AssignActing(m, override) \/ ReleaseActing(m, override)
        PROVE  PromptedAll /\ EntriesStay
    BY <1>4, DutyAwards, OrderEntries
  <1>5. QED
    BY <1>1, <1>2, <1>3, <1>4 DEF Contacting

\* Who accepts a specialty seat leaves the order with an A-Day, or stays in it.
LEMMA AcceptingEntries ==
  ASSUME Live(bid'), NEW p \in Positions, AcceptSpecialty(p), Live(bid)
  PROVE  /\ PromptedAll
         /\ \A m \in Members : HasEntry(bid, m) => HasEntry(bid', m) \/ HasChosen(bid', m)
         /\ \A m \in Concerned(bid') : m \in Concerned(bid) \cup Ranked
  <1>1. /\ OthersKept(bid', Candidate) /\ AwardIs(bid', Candidate, p, p \notin Deferred)
        /\ PromptedAll /\ Candidate \in Ranked
        /\ \A i \in DOMAIN bid.order :
             bid.order[i].member # Candidate \/ p \in Deferred =>
               \E j \in DOMAIN bid'.order : bid'.order[j] = bid.order[i]
    BY AcceptSpecialtyAwards
  <1>2. p \notin Deferred => HasChosen(bid', Candidate)
    BY <1>1 DEF Live, Paid, AwardIs, Given, HasChosen
  <1>3. QED
    BY <1>1, <1>2 DEF HasEntry, Concerned, OthersKept

LEMMA AdjudicatingEntries ==
  ASSUME Live(bid), Adjudicating, ~\E p \in Positions : AcceptSpecialty(p)
  PROVE  PromptedAll /\ EntriesStay
  <1>1. AwardsStay /\ bid'.order = bid.order /\ PromptedAll
    BY AdjudicationAwards DEF Adjudicating
  <1>2. QED
    BY <1>1, OrderEntries

LEMMA NextEntries ==
  ASSUME Live(bid), Next
  PROVE  \/ (PromptedAll \/ Pause \/ Resume) /\ EntriesStay
         \/ \E p \in Positions : AcceptSpecialty(p)
  BY SelectionEntries, PickingADayEntries, CorrectingEntries, SequencingEntries,
     ContactingEntries, AdjudicatingEntries DEF Next

\* The frozen order has an entry for everybody whom a specialty ranks.
RankedEntered == \A m \in Ranked : \E i \in DOMAIN Turns : Turns[i].member = m

\* Whoever has an award, had one or may be offered a specialty seat has an entry in
\* the order; without overrides, an A-Day that was chosen serves as well.
Provided(s) ==
  \A m \in Members :
    m \in Concerned(s) \/ (m \in Ranked /\ RankedEntered)
      => HasEntry(s, m) \/ ("force" \notin Granted /\ HasChosen(s, m))

ProvidedInvariant == Live(bid) /\ Provided(bid)

LEMMA NextProvided ==
  ASSUME Live(bid), Live(bid'), Provided(bid), Next,
         \/ Specialty.seats = {} \/ "approve_transition" \notin Granted
         \/ "force" \notin Granted /\ RankedEntered
  PROVE  (PromptedAll \/ Pause \/ Resume) /\ Provided(bid')
  <1>1. "force" \notin Granted => \A m \in Members : HasChosen(bid, m) => HasChosen(bid', m)
    BY NextChosen DEF StillChosen
  <1>2. CASE (PromptedAll \/ Pause \/ Resume) /\ EntriesStay
    BY <1>1, <1>2 DEF Provided, EntriesStay
  <1>3. CASE \E p \in Positions : AcceptSpecialty(p)
    <2>1. "force" \notin Granted /\ RankedEntered
      BY <1>3 DEF AcceptSpecialty, Permitted
    <2>2. QED
      BY <1>1, <1>3, <2>1, AcceptingEntries DEF Provided
  <1>4. QED
    BY <1>2, <1>3, NextEntries

\* ADaysPrompted: however the last seat or turn goes, selections are not over as
\* long as somebody owes an A-Day.  An accepted specialty candidate may leave the
\* order (LeavesOrder), and who has no entry is never prompted: so either no
\* candidate accepts, or no override replaces the award by one without an A-Day.
THEOREM ADaysArePrompted ==
  ASSUME \/ Specialty.seats = {} \/ "approve_transition" \notin Granted
         \/ "force" \notin Granted /\ RankedEntered
  PROVE  Spec => ADaysPrompted
  <1>1. Init => ProvidedInvariant
    <2>1. SUFFICES ASSUME Init PROVE Provided(bid)
      BY InitLive DEF ProvidedInvariant
    <2>2. /\ bid.revoked = [m \in Members |-> None] /\ bid.fills = [p \in Positions |-> None]
          /\ bid.order = Turns
      BY <2>1 DEF Init
    <2>3. Concerned(bid) = {}
      BY <2>2 DEF Concerned, Awarded, Filled
    <2>4. QED
      BY <2>2, <2>3 DEF Provided, RankedEntered, HasEntry
  <1>2. ProvidedInvariant /\ [Next]_bid => ProvidedInvariant'
    <2>1. ASSUME Live(bid), Provided(bid), Next
          PROVE  Live(bid') /\ Provided(bid')
      BY <2>1, NextLive, NextProvided
    <2>2. QED
      BY <2>1 DEF ProvidedInvariant
  <1>3. ProvidedInvariant /\ ProvidedInvariant' /\ [Next]_bid =>
          [bid.phase # "paused" /\ bid'.phase = "complete"
             => \A m \in Members : ~OwesADay(bid', m)]_bid
    <2>1. SUFFICES ASSUME Live(bid), Live(bid'), Provided(bid), Provided(bid'), Next,
                          bid.phase # "paused", bid'.phase = "complete",
                          NEW m \in Members, OwesADay(bid', m)
                   PROVE  FALSE
      BY DEF ProvidedInvariant
    <2>2. PromptedAll
      <3>1. ~Pause /\ ~Resume
        <4>1. Pause => bid'.phase = "paused"
          BY <2>1 DEF Pause, Live, Shape, Documents
        <4>2. QED
          BY <2>1, <4>1 DEF Resume
      <3>2. QED
        BY <2>1, <3>1, NextProvided
    <2>3. TurnsOf(bid', m) = {}
      BY <2>1, <2>2, DocumentOrder DEF PromptedAll, Live, Shape
    <2>4. m \in Awarded(bid') \ bid'.picks
      BY <2>1 DEF OwesADay, DefersADay, Awarded
    <2>5. HasEntry(bid', m)
      BY <2>1, <2>4 DEF Provided, Concerned, HasChosen
    <2>6. QED
      BY <2>3, <2>5 DEF HasEntry, TurnsOf
  <1>4. QED
    BY <1>1, <1>2, <1>3, PTL DEF Spec, ADaysPrompted

-----------------------------------------------------------------------------
(* A returned member is served beside the queue.                           *)

TurnFields == {"returning", "cursor", "bidder", "phase", "picks", "owing", "incomplete"}

\* Without an override the evaluation moves no turn but that of a finished bid.
LEMMA AcceptedTurn ==
  ASSUME NEW s, TurnFields \subseteq DOMAIN s, AcceptOrdinary(s)
  PROVE  /\ bid'.returning = s.returning
         /\ s.phase # "complete" => bid'.cursor = s.cursor /\ bid'.bidder = s.bidder
  <1> DEFINE t == ADaysEvaluated(s, None)
  <1>1. bid' = Prompted(t)
    BY DEF AcceptOrdinary, Accept, Becomes, Concluded, Resolved
  <1>2. /\ TurnFields \subseteq DOMAIN t /\ t.returning = s.returning
        /\ t.phase = s.phase /\ t.cursor = s.cursor /\ t.bidder = s.bidder
    BY DEF ADaysEvaluated, ADaysOwed, WithOwing, WithPicks, TurnFields
  <1> HIDE DEF t
  <1>3. QED
    BY <1>1, <1>2 DEF Prompted, TurnFields

\* While a member is returned in somebody else's turn, the end of the return
\* leaves the turn.
TurnStays ==
  (bid.returning \notin {None, bid.bidder} /\ bid'.returning = None
     /\ bid'.completed = bid.completed /\ bid.bidder # None)
  => bid'.cursor = bid.cursor /\ bid'.bidder = bid.bidder

LEMMA TurnFieldsThere ==
  ASSUME Live(bid)
  PROVE  /\ TurnFields \subseteq DOMAIN bid
         /\ bid.phase = "complete" => bid.bidder = None
  BY DEF Live, Shape, Documents, TurnFields, TurnPlaced, Executing

LEMMA SelectionTurnStays ==
  ASSUME Live(bid), NEW m \in Members, NEW p \in Positions, NEW aDay \in BOOLEAN,
         bid.review = None, bid.fills[p] = None,
         AcceptOrdinary(Selected(m, p, aDay, FALSE))
  PROVE  TurnStays
  <1> SUFFICES ASSUME bid.returning \notin {None, bid.bidder}, bid'.returning = None,
                      bid.bidder # None
               PROVE  bid'.cursor = bid.cursor /\ bid'.bidder = bid.bidder
    BY DEF TurnStays
  <1>1. m = bid.returning
    BY SelectionStepped
  <1> DEFINE award   == Award(m, aDay, None)
             awarded == [bid EXCEPT !.fills[p] = award, !.last = p]
             s       == SettleSelected(awarded, m)
  <1>2. AcceptOrdinary(s)
    <2>1. Selected(m, p, aDay, FALSE) = CloseReview(s, FALSE)
      BY <1>1 DEF Selected
    <2>2. QED
      BY <2>1 DEF CloseReview
  <1> HIDE DEF award
  <1>3. /\ TurnFields \subseteq DOMAIN awarded /\ awarded.phase = bid.phase
        /\ awarded.cursor = bid.cursor /\ awarded.bidder = bid.bidder
    BY TurnFieldsThere DEF TurnFields
  <1> HIDE DEF awarded
  <1>4. /\ TurnFields \subseteq DOMAIN s /\ s.phase = bid.phase
        /\ s.cursor = bid.cursor /\ s.bidder = bid.bidder
    BY <1>3 DEF SettleSelected, SettleReturned, TurnFields
  <1> HIDE DEF s
  <1>5. QED
    BY <1>2, <1>4, AcceptedTurn, TurnFieldsThere

LEMMA CorrectionTurnStays ==
  ASSUME Live(bid), Correcting, "force" \notin Granted
  PROVE  bid'.returning = bid.returning
  <1>1. TurnFields \subseteq DOMAIN bid
    BY TurnFieldsThere
  <1>2. ASSUME NEW s, NEW m, NEW override \in BOOLEAN, AcceptCorrection(s, m, override)
        PROVE  AcceptOrdinary(s) /\ ~override
    <2>1. override = FALSE
      BY <1>2 DEF AcceptCorrection, Permitted
    <2>2. Accept(CloseReview(s, FALSE), FALSE, None)
      BY <1>2, <2>1 DEF AcceptCorrection
    <2>3. QED
      BY <2>1, <2>2 DEF CloseReview, AcceptOrdinary
  <1>3. ASSUME NEW m, NEW override \in BOOLEAN, CorrectRevoke(m, override)
        PROVE  bid'.returning = bid.returning
    <2> DEFINE fills   == Vacated(m)
               revoked == Revocation(Seat(bid, m), HasADay(m))
               s == [bid EXCEPT !.fills = fills, !.picks = @ \ {m},
                                !.last = IF @ = Seat(bid, m) THEN None ELSE @,
                                !.revoked[m] = revoked]
    <2>1. AcceptCorrection(s, m, override)
      BY <1>3 DEF CorrectRevoke
    <2> HIDE DEF fills, revoked
    <2>2. TurnFields \subseteq DOMAIN s /\ s.returning = bid.returning
      BY <1>1 DEF TurnFields
    <2> HIDE DEF s
    <2>3. QED
      BY <1>2, <2>1, <2>2, AcceptedTurn
  <1>4. ASSUME NEW m, NEW p, NEW aDay, NEW override \in BOOLEAN,
               CorrectReplace(m, p, aDay, override)
        PROVE  bid'.returning = bid.returning
    <2> DEFINE deferral == IF override /\ ~aDay THEN p ELSE None
               fills == [Vacated(m) EXCEPT ![p] = Award(m, aDay, deferral)]
               s == [bid EXCEPT !.fills = fills,
                                !.picks = @ \ {m}, !.last = p, !.revoked[m] = None]
               t == IF override THEN SettleSelected(s, m) ELSE s
    <2>1. AcceptCorrection(t, m, override)
      BY <1>4 DEF CorrectReplace
    <2> HIDE DEF fills
    <2>2. TurnFields \subseteq DOMAIN s /\ s.returning = bid.returning
      BY <1>1 DEF TurnFields
    <2> HIDE DEF s
    <2>3. AcceptOrdinary(s)
      BY <1>2, <2>1
    <2>4. QED
      BY <2>2, <2>3, AcceptedTurn
  <1>5. ASSUME NEW p, NEW aDay, Amend(p, aDay)
        PROVE  bid'.returning = bid.returning
    <2> DEFINE prior == bid.fills[bid.last]
               award == [prior EXCEPT !.aDay = @ \/ aDay]
               s == [bid EXCEPT !.fills = [@ EXCEPT ![bid.last] = None, ![p] = award],
                                !.last = p]
    <2>1. AcceptOrdinary(s)
      BY <1>5 DEF Amend
    <2> HIDE DEF award
    <2>2. TurnFields \subseteq DOMAIN s /\ s.returning = bid.returning
      BY <1>1 DEF TurnFields
    <2> HIDE DEF s
    <2>3. QED
      BY <2>1, <2>2, AcceptedTurn
  <1>6. QED
    BY <1>3, <1>4, <1>5 DEF Correcting

LEMMA DispositionTurnStays ==
  ASSUME Live(bid), NEW d, Disposition(d)
  PROVE  TurnStays
  <1> SUFFICES ASSUME bid.returning \notin {None, bid.bidder}, bid.bidder # None,
                      bid'.returning = None
               PROVE  bid'.cursor = bid.cursor /\ bid'.bidder = bid.bidder
    BY DEF TurnStays
  <1> DEFINE m    == IF bid.returning # None THEN bid.returning ELSE bid.bidder
             told == [bid EXCEPT !.disposition[m] = d,
                        !.unresolved = IF d = "UNREACHABLE" THEN @ \cup {m} ELSE @]
             next == IF ~Rules[d].advances THEN told ELSE SettleReturned(told, m)
  <1>1. AcceptOrdinary(next)
    BY DEF Disposition
  <1>2. /\ TurnFields \subseteq DOMAIN told /\ told.phase = bid.phase
        /\ told.cursor = bid.cursor /\ told.bidder = bid.bidder
    BY TurnFieldsThere DEF TurnFields
  <1> HIDE DEF told
  <1>3. /\ TurnFields \subseteq DOMAIN next /\ next.phase = bid.phase
        /\ next.cursor = bid.cursor /\ next.bidder = bid.bidder
    BY <1>2 DEF SettleReturned, TurnFields
  <1> HIDE DEF next
  <1>4. QED
    BY <1>1, <1>3, AcceptedTurn, TurnFieldsThere

\* ReturnKeepsTurn: when a returned member has been served, the member whose turn
\* it is still has it.  Overrides and transitions may end a return and move the
\* turn by one command, so neither is granted to anyone here.
THEOREM ReturnsBesideTheQueue ==
  ASSUME "force" \notin Granted, "approve_transition" \notin Granted
  PROVE  Spec => ReturnKeepsTurn
  <1>1. ASSUME Live(bid), Next
        PROVE  TurnStays
    <2>1. ASSUME Selecting PROVE TurnStays
      <3>1. PICK m \in Members, p \in Positions, aDay \in BOOLEAN :
              /\ bid.review = None /\ bid.fills[p] = None
              /\ AcceptOrdinary(Selected(m, p, aDay, FALSE))
        BY <2>1, OrdinarySelection
      <3>2. QED
        BY <1>1, <3>1, SelectionTurnStays
    <2>2. ASSUME PickingADay PROVE TurnStays
      <3>1. PICK m \in Members : RecordADay(m)
        BY <2>2 DEF PickingADay, DirectADay, Permitted
      <3>2. /\ bid'.returning = IF bid.returning = m THEN None ELSE bid.returning
            /\ bid.bidder = m
        BY <1>1, <3>1, RecordADayStepped
      <3>3. QED
        BY <3>2 DEF TurnStays
    <2>3. ASSUME Correcting PROVE TurnStays
      BY <1>1, <2>3, CorrectionTurnStays DEF TurnStays
    <2>4. ASSUME Sequencing PROVE TurnStays
      <3>1. CASE Pause \/ Resume
        BY <1>1, <3>1, PauseStepped DEF TurnStays
      <3>2. ASSUME NEW source \in Bijection(Editable, Editable), NEW override \in BOOLEAN,
                   AlterOrder(source, override)
            PROVE  TurnStays
        BY <1>1, <3>2, AlterOrderStepped DEF TurnStays
      <3>3. CASE CompleteSession
        BY <1>1, <3>3, TurnFieldsThere DEF TurnStays, CompleteSession
      <3>4. ASSUME NEW st, NEW override, NEW prior, NEW withdraw, NEW restore,
                   TransitionStage(st, override, prior, withdraw, restore)
            PROVE  FALSE
        BY <3>4 DEF TransitionStage, Permitted
      <3>5. QED
        BY <2>4, <3>1, <3>2, <3>3, <3>4 DEF Sequencing
    <2>5. ASSUME Contacting PROVE TurnStays
      <3>1. ASSUME NEW m \in Members,
                   ContactAttempt(m) \/ DeclareUnreachable(m) \/ ReturnAtCurrentSequence(m)
            PROVE  TurnStays
        <4>1. bid'.returning \in {bid.returning, m} /\ m # None
          BY <1>1, <3>1, ContactStepped, MembersTyped
        <4>2. QED
          BY <4>1 DEF TurnStays
      <3>2. ASSUME NEW d \in Dispositions, Disposition(d)
            PROVE  TurnStays
        BY <1>1, <3>2, DispositionTurnStays
      <3>3. QED
        BY <2>5, <3>1, <3>2
           DEF Contacting, OverrideDefer, AssignActing, ReleaseActing, MayAssign, Permitted
    <2>6. ~Adjudicating
      BY DEF Adjudicating, StartSpecialty, AcceptSpecialty, RespondSpecialty, CloseSpecialty,
             Permitted
    <2>7. QED
      BY <1>1, <2>1, <2>2, <2>3, <2>4, <2>5, <2>6 DEF Next
  <1>2. LiveInvariant /\ [Next]_bid =>
          [bid.returning \notin {None, bid.bidder} /\ bid'.returning = None
             /\ bid'.completed = bid.completed /\ bid.bidder # None
           => bid'.cursor = bid.cursor /\ bid'.bidder = bid.bidder]_bid
    BY <1>1 DEF LiveInvariant, TurnStays
  <1>3. QED
    BY <1>2, AlwaysLive, PTL DEF Spec, ReturnKeepsTurn

-----------------------------------------------------------------------------
(* Lists of picks, one of each member.                                     *)

OnePickEach(s) == \A i, j \in DOMAIN s : s[i].member = s[j].member => i = j

\* q lists those of s that are in T.
Has(s, k) == \E i \in DOMAIN s : s[i] = k
Lists(q, s, T) == \A k : Has(q, k) <=> (k \in T /\ Has(s, k))

LEMMA AmongPicks ==
  ASSUME NEW S, NEW s \in Seq(S), NEW T, OnePickEach(s)
  PROVE  /\ Among(s, T) \in Seq(S) /\ OnePickEach(Among(s, T))
         /\ Lists(Among(s, T), s, T)
  <1>1. PICK f : Keeping(s, T, Len(s), f) /\ Among(s, T) = f[Len(s)]
    BY AmongKeeps
  <1> DEFINE Good(n, q) == /\ q \in Seq(S)
                           /\ \A j \in 1 .. Len(q) : q[j] \in T /\ \E i \in 1 .. n : q[j] = s[i]
                           /\ \A i \in 1 .. n : s[i] \in T => \E j \in 1 .. Len(q) : q[j] = s[i]
                           /\ \A j, k \in 1 .. Len(q) : q[j].member = q[k].member => j = k
             R == {n \in Nat : n <= Len(s) => Good(n, f[n])}
  <1>2. /\ f[0] = <<>> /\ Len(s) \in Nat /\ DOMAIN s = 1 .. Len(s)
        /\ \A n \in 1 .. Len(s) : f[n] = Grow(f[n - 1], s[n], T)
    <2>1. Len(s) \in Nat /\ DOMAIN s = 1 .. Len(s)
      OBVIOUS
    <2>2. QED
      BY <1>1, <2>1 DEF Keeping
  <1>3. 0 \in R
    <2>1. Good(0, <<>>)
      OBVIOUS
    <2> HIDE DEF Good
    <2>2. QED
      BY <1>2, <2>1
  <1>4. ASSUME NEW n \in Nat, n \in R
        PROVE  n + 1 \in R
    <2>1. SUFFICES ASSUME n + 1 <= Len(s) PROVE Good(n + 1, f[n + 1])
      OBVIOUS
    <2>2. Good(n, f[n]) /\ f[n + 1] = Grow(f[n], s[n + 1], T)
      BY <1>2, <1>4, <2>1
    <2> DEFINE q == f[n]
               x == s[n + 1]
    <2>3. x \in S /\ q \in Seq(S) /\ Len(q) \in Nat /\ n + 1 \in DOMAIN s
      BY <1>2, <2>1, <2>2
    <2>4. CASE x \notin T
      <3>1. f[n + 1] = q
        BY <2>2, <2>4 DEF Grow
      <3>2. \A i \in 1 .. n + 1 : i # n + 1 => i \in 1 .. n
        OBVIOUS
      <3> HIDE DEF q
      <3>3. QED
        BY <2>2, <2>4, <3>1, <3>2 DEF q
    <2>5. CASE x \in T
      <3> DEFINE a == Append(q, x)
      <3>1. f[n + 1] = a
        BY <2>2, <2>5 DEF Grow
      <3>2. /\ a \in Seq(S) /\ Len(a) = Len(q) + 1 /\ a[Len(q) + 1] = x
            /\ \A j \in 1 .. Len(q) : a[j] = q[j]
        BY <2>3
      <3>3. \A j \in 1 .. Len(q) : q[j].member # x.member
        <4>1. SUFFICES ASSUME NEW j \in 1 .. Len(q), q[j].member = x.member PROVE FALSE
          OBVIOUS
        <4>2. PICK i \in 1 .. n : q[j] = s[i]
          BY <2>2
        <4>3. i \in DOMAIN s /\ i # n + 1
          BY <1>2, <2>1, <4>2
        <4>4. QED
          BY <2>3, <4>1, <4>2, <4>3 DEF OnePickEach
      <3> HIDE DEF a, q, x
      <3>4. \A j \in 1 .. Len(a) : j \in 1 .. Len(q) \/ j = Len(q) + 1
        BY <2>3, <3>2
      <3>5. \A i \in 1 .. n + 1 : i \in 1 .. n \/ i = n + 1
        OBVIOUS
      <3>6. \A j \in 1 .. Len(a) : a[j] \in T /\ \E i \in 1 .. n + 1 : a[j] = s[i]
        <4>1. \A j \in 1 .. Len(q) : q[j] \in T /\ \E i \in 1 .. n + 1 : q[j] = s[i]
          BY <2>2 DEF q
        <4>2. x \in T /\ \E i \in 1 .. n + 1 : x = s[i]
          BY <2>5 DEF x
        <4>3. QED
          BY <3>2, <3>4, <4>1, <4>2
      <3>7. \A i \in 1 .. n + 1 : s[i] \in T => \E j \in 1 .. Len(a) : a[j] = s[i]
        <4>1. SUFFICES ASSUME NEW i \in 1 .. n + 1, s[i] \in T
                       PROVE  \E j \in 1 .. Len(a) : a[j] = s[i]
          OBVIOUS
        <4>2. CASE i \in 1 .. n
          <5>1. PICK j \in 1 .. Len(q) : q[j] = s[i]
            BY <2>2, <4>1, <4>2 DEF q
          <5>2. QED
            BY <2>3, <3>2, <5>1
        <4>3. CASE i = n + 1
          <5>1. Len(q) + 1 \in 1 .. Len(a) /\ a[Len(q) + 1] = s[i]
            BY <2>3, <3>2, <4>3 DEF x
          <5>2. QED
            BY <5>1
        <4>4. QED
          BY <3>5, <4>2, <4>3
      <3>8. \A j, k \in 1 .. Len(a) : a[j].member = a[k].member => j = k
        <4>1. \A j, k \in 1 .. Len(q) : q[j].member = q[k].member => j = k
          BY <2>2 DEF q
        <4>2. QED
          BY <3>2, <3>3, <3>4, <4>1
      <3>9. QED
        BY <3>1, <3>2, <3>6, <3>7, <3>8
    <2>6. QED
      BY <2>4, <2>5
  <1>5. Nat \subseteq R
    <2> HIDE DEF R
    <2>1. QED
      BY <1>3, <1>4, InductOnSets
  <1>6. Good(Len(s), Among(s, T))
    <2>1. Len(s) \in R
      BY <1>2, <1>5
    <2>2. Good(Len(s), f[Len(s)])
      BY <1>2, <2>1
    <2> HIDE DEF Good
    <2>3. QED
      BY <1>1, <2>2
  <1> DEFINE q == Among(s, T)
  <1>7. DOMAIN q = 1 .. Len(q)
    BY <1>6
  <1>8. /\ q \in Seq(S) /\ OnePickEach(q)
        /\ \A j \in DOMAIN q : q[j] \in T /\ \E i \in DOMAIN s : q[j] = s[i]
        /\ \A i \in DOMAIN s : s[i] \in T => \E j \in DOMAIN q : q[j] = s[i]
    BY <1>2, <1>6, <1>7 DEF OnePickEach
  <1> HIDE DEF q
  <1>9. \A k : (\E j \in DOMAIN q : q[j] = k) <=> (k \in T /\ \E i \in DOMAIN s : s[i] = k)
    BY <1>8
  <1>10. QED
    BY <1>8, <1>9 DEF q, Lists, Has

\* The values of a finite set in a row, each once.
LEMMA Arranged ==
  ASSUME NEW S, IsFiniteSet(S)
  PROVE  /\ SetToSeq(S) \in Seq(S)
         /\ \A x \in S : \E i \in DOMAIN SetToSeq(S) : SetToSeq(S)[i] = x
         /\ \A i, j \in DOMAIN SetToSeq(S) : SetToSeq(S)[i] = SetToSeq(S)[j] => i = j
  <1> DEFINE n == Cardinality(S)
             f == SetToSeq(S)
  <1>1. n \in Nat /\ Bijection(1 .. n, S) # {}
    BY FS_CardinalityType DEF ExistsBijection
  <1>2. PICK g \in Bijection(1 .. n, S) : TRUE
    BY <1>1
  <1>3. g \in [1 .. n -> S] /\ IsInjective(g)
    BY <1>2 DEF Bijection, Injection
  <1>4. f \in [1 .. n -> S] /\ IsInjective(f)
    BY <1>3 DEF SetToSeq
  <1> HIDE DEF f
  <1>5. f \in Injection(1 .. n, S)
    BY <1>4 DEF Injection
  <1>6. IsFiniteSet(1 .. n) /\ Cardinality(1 .. n) = n
    BY <1>1, FS_Interval
  <1>7. f \in Surjection(1 .. n, S)
    BY <1>5, <1>6, FS_Injection
  <1>8. \A x \in S : \E i \in 1 .. n : f[i] = x
    BY <1>7 DEF Surjection
  <1>9. QED
    BY <1>1, <1>4, <1>8 DEF f, IsInjective

\* Two lists that have nobody in common, one behind the other.
LEMMA PicksJoined ==
  ASSUME NEW S, NEW s \in Seq(S), NEW t \in Seq(S), OnePickEach(s), OnePickEach(t),
         \A i \in DOMAIN s, j \in DOMAIN t : s[i].member # t[j].member
  PROVE  /\ s \o t \in Seq(S) /\ OnePickEach(s \o t)
         /\ \A k : Has(s \o t, k) <=> Has(s, k) \/ Has(t, k)
  <1> DEFINE whole == s \o t
  <1>1. /\ whole \in Seq(S) /\ DOMAIN whole = 1 .. Len(s) + Len(t)
        /\ Len(s) \in Nat /\ Len(t) \in Nat
        /\ DOMAIN s = 1 .. Len(s) /\ DOMAIN t = 1 .. Len(t)
        /\ \A i \in 1 .. Len(s) : whole[i] = s[i]
        /\ \A i \in 1 .. Len(t) : whole[Len(s) + i] = t[i]
    OBVIOUS
  <1> HIDE DEF whole
  <1>2. \A i \in DOMAIN whole : \/ i \in DOMAIN s /\ whole[i] = s[i]
                                \/ i - Len(s) \in DOMAIN t /\ whole[i] = t[i - Len(s)]
    <2>1. SUFFICES ASSUME NEW i \in DOMAIN whole, i \notin DOMAIN s
                   PROVE  i - Len(s) \in DOMAIN t /\ whole[i] = t[i - Len(s)]
      BY <1>1
    <2>2. i - Len(s) \in 1 .. Len(t) /\ i = Len(s) + (i - Len(s))
      BY <1>1, <2>1
    <2>3. QED
      BY <1>1, <2>2
  <1>3. OnePickEach(whole)
    <2>1. SUFFICES ASSUME NEW i \in DOMAIN whole, NEW j \in DOMAIN whole,
                          whole[i].member = whole[j].member
                   PROVE  i = j
      BY DEF OnePickEach
    <2>2. i \in Nat /\ j \in Nat
      BY <1>1
    <2>3. QED
      BY <1>1, <1>2, <2>1, <2>2 DEF OnePickEach
  <1>4. ASSUME NEW k
        PROVE  Has(whole, k) <=> Has(s, k) \/ Has(t, k)
    <2>1. ASSUME NEW j \in DOMAIN s
          PROVE  j \in DOMAIN whole /\ whole[j] = s[j]
      BY <1>1
    <2>2. ASSUME NEW j \in DOMAIN t
          PROVE  Len(s) + j \in DOMAIN whole /\ whole[Len(s) + j] = t[j]
      BY <1>1
    <2>3. QED
      BY <1>2, <2>1, <2>2 DEF Has
  <1>5. QED
    BY <1>1, <1>3, <1>4 DEF whole

\* The last of a list that belongs to a set.
LEMMA LastInSet ==
  ASSUME NEW S, NEW s \in Seq(S), NEW T, NEW k \in T, Has(s, k)
  PROVE  \E i \in DOMAIN s : s[i] \in T /\ \A j \in DOMAIN s : s[j] \in T => j <= i
  <1> DEFINE Ends(n) == \/ \A j \in 1 .. n : s[j] \notin T
                        \/ \E i \in 1 .. n : /\ s[i] \in T
                                             /\ \A j \in 1 .. n : s[j] \in T => j <= i
             R == {n \in Nat : Ends(n)}
  <1>1. 0 \in R
    OBVIOUS
  <1>2. ASSUME NEW n \in Nat, n \in R
        PROVE  n + 1 \in R
    <2>1. \A j \in 1 .. n + 1 : j \in 1 .. n \/ j = n + 1
      OBVIOUS
    <2>2. n + 1 \in 1 .. n + 1 /\ \A j \in 1 .. n + 1 : j <= n + 1
      OBVIOUS
    <2>3. CASE s[n + 1] \in T
      BY <2>2, <2>3
    <2>4. CASE s[n + 1] \notin T
      <3>1. CASE \A j \in 1 .. n : s[j] \notin T
        BY <2>1, <2>4, <3>1
      <3>2. ASSUME NEW i \in 1 .. n, s[i] \in T, \A j \in 1 .. n : s[j] \in T => j <= i
            PROVE  n + 1 \in R
        <4>1. i \in 1 .. n + 1 /\ \A j \in 1 .. n + 1 : s[j] \in T => j <= i
          BY <2>1, <2>4, <3>2
        <4>2. QED
          BY <3>2, <4>1
      <3>3. QED
        BY <1>2, <3>1, <3>2
    <2>5. QED
      BY <2>3, <2>4
  <1>3. Nat \subseteq R
    <2> HIDE DEF R
    <2>1. QED
      BY <1>1, <1>2, InductOnSets
  <1>4. Len(s) \in Nat /\ DOMAIN s = 1 .. Len(s) /\ Ends(Len(s))
    <2>1. Len(s) \in Nat /\ DOMAIN s = 1 .. Len(s)
      OBVIOUS
    <2>2. Len(s) \in R
      BY <1>3, <2>1
    <2> HIDE DEF Ends
    <2>3. QED
      BY <2>1, <2>2
  <1>5. QED
    BY <1>4 DEF Has

PickRecords == [member : Members, shift : Shifts, day : Days]

\* The picks of an evaluation: those that stay, and those of the awards that
\* carry their A-Day.
LEMMA RetimedPicks ==
  ASSUME NEW s, Awarded(s) \subseteq Members, NEW a,
         a.picks \in Seq(PickRecords), OnePickEach(a.picks),
         a.day \in [Members -> Days \cup {None}]
  PROVE  /\ Retimed(s, a) \in Seq(PickRecords) /\ OnePickEach(Retimed(s, a))
         /\ \A m : m \in PickersOf(Retimed(s, a)) <=>
              /\ m \in Awarded(s)
              /\ m \in PickersOf(a.picks) \/ a.day[m] # None
         /\ \A k : Has(Retimed(s, a), k) =>
              \/ k \in Staying(s, a)
              \/ k.member \in Carrying(s, a) /\ k = Carried(s, a, k.member)
  <1> DEFINE carrying == Carrying(s, a)
             staying  == Staying(s, a)
             kept     == Among(a.picks, staying)
             missing  == carrying \ PickersOf(kept)
             added    == {Carried(s, a, m) : m \in missing}
             more     == SetToSeq(added)
  <1>1. Retimed(s, a) = kept \o more
    BY DEF Retimed
  <1>2. \A m \in carrying : Carried(s, a, m) \in PickRecords
    <2>1. SUFFICES ASSUME NEW m \in carrying PROVE Carried(s, a, m) \in PickRecords
      OBVIOUS
    <2>2. Seat(s, m) \in Positions
      BY <2>1 DEF Seat, Awarded, Filled, Carrying
    <2>3. SeatShift(s, m) \in Shifts
      BY <2>2, ADayPolicy DEF SeatShift
    <2>4. m \in Members /\ a.day[m] \in Days
      BY <2>1 DEF Carrying
    <2>5. QED
      BY <2>3, <2>4 DEF Carried, PickOf, PickRecords
  <1>3. \A m : Carried(s, a, m).member = m
    BY DEF Carried, PickOf
  <1>4. IsFiniteSet(added)
    <2>1. IsFiniteSet(missing)
      <3>1. missing \in SUBSET Members
        BY DEF Carrying
      <3>2. QED
        BY <3>1, ADayPolicy, FS_Subset
    <2> DEFINE f == [m \in missing |-> Carried(s, a, m)]
    <2>2. f \in Surjection(missing, added)
      BY DEF Surjection
    <2>3. QED
      BY <2>1, <2>2, FS_Surjection
  <1>5. /\ kept \in Seq(PickRecords) /\ OnePickEach(kept)
        /\ \A k : Has(kept, k) <=> (k \in staying /\ Has(a.picks, k))
    <2> HIDE DEF staying
    <2>1. kept \in Seq(PickRecords) /\ OnePickEach(kept) /\ Lists(kept, a.picks, staying)
      BY AmongPicks
    <2> HIDE DEF kept
    <2>2. QED
      BY <2>1 DEF Lists
  <1>6. /\ more \in Seq(added)
        /\ \A x \in added : \E i \in DOMAIN more : more[i] = x
        /\ \A i, j \in DOMAIN more : more[i] = more[j] => i = j
    BY <1>4, Arranged
  <1>7. \A x \in added : /\ x \in PickRecords /\ x.member \in missing
                         /\ x = Carried(s, a, x.member)
    BY <1>2, <1>3
  <1>8. \A n \in missing : \E x \in added : x.member = n
    BY <1>3
  <1>9. \A n \in missing : n \in carrying /\ \A j \in DOMAIN kept : kept[j].member # n
    BY DEF PickersOf
  <1>10. \A n \in carrying : n \in missing \/ n \in PickersOf(kept)
    OBVIOUS
  <1>11. \A k \in staying : k.member \in Awarded(s)
    BY DEF Staying
  <1>12. \A i \in DOMAIN a.picks : (a.picks[i].member \in Awarded(s) /\ a.picks[i].member \notin carrying)
            => a.picks[i] \in staying
    BY DEF Staying, Range
  <1> HIDE DEF staying, missing, added, kept, more
  <1>13. \A i \in DOMAIN more : /\ more[i] \in PickRecords /\ more[i].member \in missing
                                /\ more[i] = Carried(s, a, more[i].member)
    BY <1>6, <1>7
  <1>14. more \in Seq(PickRecords)
    BY <1>6, <1>13
  <1>15. OnePickEach(more)
    BY <1>6, <1>13 DEF OnePickEach
  <1>16. /\ kept \o more \in Seq(PickRecords) /\ OnePickEach(kept \o more)
         /\ \A k : Has(kept \o more, k) <=> Has(kept, k) \/ Has(more, k)
    BY <1>5, <1>9, <1>13, <1>14, <1>15, PicksJoined
  <1>17. \A q : \A m : m \in PickersOf(q) <=> \E k : Has(q, k) /\ k.member = m
    BY DEF PickersOf, Has
  <1>18. \A k : Has(more, k) <=> k \in added
    BY <1>6 DEF Has
  <1>19. ASSUME NEW m
         PROVE  m \in PickersOf(kept \o more) <=> (m \in PickersOf(kept) \/ m \in missing)
    BY <1>7, <1>8, <1>16, <1>17, <1>18
  <1>20. ASSUME NEW m
         PROVE  (m \in PickersOf(kept) \/ m \in missing)
                <=> (m \in Awarded(s) /\ (m \in PickersOf(a.picks) \/ a.day[m] # None))
    <2>1. m \in PickersOf(kept) => m \in Awarded(s) /\ m \in PickersOf(a.picks)
      BY <1>5, <1>11, <1>17
    <2>2. m \in missing => m \in Awarded(s) /\ a.day[m] # None
      BY <1>9 DEF Carrying
    <2>3. (m \in Awarded(s) /\ m \in PickersOf(a.picks) /\ m \notin carrying)
             => m \in PickersOf(kept)
      BY <1>5, <1>12, <1>17 DEF Has
    <2>4. QED
      BY <1>10, <2>1, <2>2, <2>3 DEF Carrying
  <1>21. ASSUME NEW k, Has(kept \o more, k)
         PROVE  \/ k \in Staying(s, a)
                \/ k.member \in Carrying(s, a) /\ k = Carried(s, a, k.member)
    BY <1>5, <1>7, <1>9, <1>16, <1>18, <1>21 DEF staying
  <1>22. QED
    BY <1>1, <1>16, <1>19, <1>20, <1>21

-----------------------------------------------------------------------------
(* The awards, the allocation and the picks of the document agree.         *)

\* An allocation of the shape that LiveBid's document is compared with.
Sound(a) ==
  /\ a.day \in [Members -> Days \cup {None}] /\ DOMAIN a.approved = Members
  /\ a.picks \in Seq(PickRecords) /\ OnePickEach(a.picks)

Agree ==
  /\ {"day", "approved", "picks"} \subseteq DOMAIN alloc
  /\ Sound(alloc)
  /\ \A m \in Members : /\ m \in PickersOf(alloc.picks) <=> m \in bid.picks
                        /\ alloc.day[m] # None <=> m \in Given(bid)

LEMMA EvaluatedAgrees ==
  ASSUME Live(bid'), NEW a, NEW named, NEW selects, Evaluated(a, named, selects),
         Sound(a),
         \A m \in Members :
           /\ a.day[m] # None <=> m \in Given(bid')
           /\ m \in bid'.picks <=> (/\ m \in Awarded(bid')
                                    /\ m \in PickersOf(a.picks) \/ m \in Given(bid'))
  PROVE  Agree'
  <1>1. /\ alloc'.day = a.day /\ alloc'.picks = Retimed(bid', a)
        /\ alloc'.approved = Stamped(bid', a, named, selects)
        /\ {"day", "approved", "picks"} \subseteq DOMAIN alloc'
    BY DEF Evaluated
  <1>2. Awarded(bid') \subseteq Members
    BY DEF Live, Shape, Documents, Awarded, Filled, Opt, Awards
  <1>3. /\ Retimed(bid', a) \in Seq(PickRecords) /\ OnePickEach(Retimed(bid', a))
        /\ \A m \in Members : m \in PickersOf(Retimed(bid', a)) <=>
              (m \in Awarded(bid') /\ (m \in PickersOf(a.picks) \/ a.day[m] # None))
    BY <1>2, RetimedPicks DEF Sound
  <1>4. DOMAIN Stamped(bid', a, named, selects) = Members
    <2>1. \A x : DOMAIN [a.approved EXCEPT ![named] = x] = Members
      BY DEF Sound
    <2>2. QED
      BY <2>1 DEF Stamped, StampedOn, Sound
  <1>5. QED
    BY <1>1, <1>3, <1>4 DEF Agree, Sound

\* The allocation with the new A-Day of m: the picks of the others stay.
LEMMA RecordedSound ==
  ASSUME Sound(alloc), NEW m \in Members, NEW day \in Days \cup {None}, NEW drops \in BOOLEAN
  PROVE  /\ Sound(Recorded(m, day, drops))
         /\ \A k : Has(Recorded(m, day, drops).picks, k)
                     <=> (Has(alloc.picks, k) /\ (drops => k.member # m))
  <1> DEFINE a == Recorded(m, day, drops)
  <1>1. a.day \in [Members -> Days \cup {None}]
    BY DEF Recorded, Sound
  <1>2. DOMAIN a.approved = Members
    BY DEF Recorded, Sound
  <1>3. /\ a.picks \in Seq(PickRecords) /\ OnePickEach(a.picks)
        /\ \A k : Has(a.picks, k) <=> (Has(alloc.picks, k) /\ (drops => k.member # m))
    <2>1. a.picks = Keeps(m, drops)
      BY DEF Recorded
    <2>2. CASE ~drops
      BY <2>1, <2>2 DEF Keeps, Sound
    <2>3. CASE drops
      <3> DEFINE others == {k \in Range(alloc.picks) : k.member # m}
      <3>1. a.picks = Among(alloc.picks, others)
        BY <2>1, <2>3 DEF Keeps
      <3>2. \A k : (k \in others /\ Has(alloc.picks, k)) <=> (Has(alloc.picks, k) /\ k.member # m)
        BY DEF Range, Has
      <3> HIDE DEF others
      <3>3. a.picks \in Seq(PickRecords) /\ OnePickEach(a.picks) /\ Lists(a.picks, alloc.picks, others)
        BY <3>1, AmongPicks DEF Sound
      <3> HIDE DEF a
      <3>4. QED
        BY <2>3, <3>2, <3>3 DEF Lists
    <2>4. QED
      BY <2>2, <2>3
  <1>4. QED
    BY <1>1, <1>2, <1>3 DEF Sound

\* A command that gives, moves or drops the A-Day of m.
LEMMA RecordedAgrees ==
  ASSUME Agree, Live(bid), Live(bid'), NEW m \in Members, NEW day \in Days \cup {None},
         NEW drops \in BOOLEAN, NEW named, NEW selects,
         Evaluated(Recorded(m, day, drops), named, selects),
         OthersKept(bid', m),
         day # None => m \in Given(bid'),
         (m \in Given(bid') /\ day = None) => m \in Given(bid),
         m \in bid'.picks <=> (\/ m \in Given(bid')
                               \/ ~drops /\ m \in bid.picks /\ m \in Awarded(bid'))
  PROVE  Agree'
  <1> DEFINE a == Recorded(m, day, drops)
  <1>1. /\ Given(bid) \subseteq bid.picks /\ bid.picks \subseteq Awarded(bid)
        /\ Given(bid') \subseteq bid'.picks /\ bid'.picks \subseteq Awarded(bid')
        /\ Evaluable(bid')
    BY DEF Live, Paid
  <1>2. a.picks = Keeps(m, drops)
        /\ \A n \in Members : a.day[n] =
             IF n # m THEN alloc.day[n]
             ELSE IF n \notin Awarded(bid') THEN None
             ELSE IF day # None THEN day
             ELSE IF bid'.fills[Seat(bid', n)].aDay THEN alloc.day[n] ELSE None
    BY DEF Recorded
  <1>3. Sound(a) /\ \A k : Has(a.picks, k) <=> (Has(alloc.picks, k) /\ (drops => k.member # m))
    BY RecordedSound DEF Agree
  <1> HIDE DEF a
  <1>4. m \in Awarded(bid') => (bid'.fills[Seat(bid', m)].aDay <=> m \in Given(bid'))
    <2>1. m \in Awarded(bid') => /\ Seat(bid', m) \in Filled(bid')
                                 /\ bid'.fills[Seat(bid', m)].member = m
      BY DEF Awarded, Seat
    <2>2. \A q \in Filled(bid') : bid'.fills[q].member = m /\ m \in Awarded(bid') => q = Seat(bid', m)
      BY <1>1, <2>1 DEF Evaluable
    <2>3. QED
      BY <2>1, <2>2 DEF Given
  <1>5. \A n \in Members : a.day[n] # None <=> n \in Given(bid')
    <2>1. ASSUME NEW n \in Members \ {m}
          PROVE  a.day[n] # None <=> n \in Given(bid')
      BY <1>2 DEF Agree, OthersKept
    <2>2. a.day[m] # None <=> m \in Given(bid')
      BY <1>1, <1>2, <1>4 DEF Agree
    <2>3. QED
      BY <2>1, <2>2
  <1>6. \A n \in Members : n \in PickersOf(a.picks) <=> (n \in bid.picks /\ (drops => n # m))
    <2>1. \A q : \A n : n \in PickersOf(q) <=> \E k : Has(q, k) /\ k.member = n
      BY DEF PickersOf, Has
    <2>2. QED
      BY <1>3, <2>1 DEF Agree
  <1>7. \A n \in Members :
          n \in bid'.picks <=> (/\ n \in Awarded(bid')
                                /\ n \in PickersOf(a.picks) \/ n \in Given(bid'))
    <2>1. ASSUME NEW n \in Members \ {m}
          PROVE  n \in bid'.picks <=> (/\ n \in Awarded(bid')
                                       /\ n \in PickersOf(a.picks) \/ n \in Given(bid'))
      BY <1>1, <1>6 DEF OthersKept
    <2>2. m \in bid'.picks <=> (/\ m \in Awarded(bid')
                                /\ m \in PickersOf(a.picks) \/ m \in Given(bid'))
      BY <1>1, <1>6
    <2>3. QED
      BY <2>1, <2>2
  <1>8. Evaluated(a, named, selects)
    BY DEF a
  <1>9. QED
    BY <1>3, <1>5, <1>6, <1>7, <1>8, EvaluatedAgrees

\* A command that leaves all awards as they are.
LEMMA QuietAgrees ==
  ASSUME Agree, Live(bid), Live(bid'), AwardsStay, NEW named, NEW selects,
         Evaluated(alloc, named, selects)
  PROVE  Agree'
  <1>1. Given(bid) \subseteq bid.picks /\ bid.picks \subseteq Awarded(bid)
    BY DEF Live, Paid
  <1>2. Given(bid') = Given(bid) /\ Awarded(bid') = Awarded(bid) /\ bid'.picks = bid.picks
    BY DEF AwardsStay, Given, Awarded, Filled
  <1>3. QED
    BY <1>1, <1>2, EvaluatedAgrees DEF Agree

\* Every command here is the command of LiveBid of that name.
LEMMA CommandsOfLiveBid ==
  ASSUME ADayNext
  PROVE  Next
  <1>1. ASSUME NEW m \in Members, NEW p \in Positions, NEW day \in Days \cup {None},
               Select(m, p, day) \/ ForceAward(m, p, day) \/ Direct(m, p, day)
        PROVE  Next
    <2>1. (day # None) \in BOOLEAN
      OBVIOUS
    <2>2. RecordSelection(m, p) \/ ForceSelection(m, p) \/ DirectSelection(m, p, day # None)
      BY <1>1 DEF Select, ForceAward, Direct
    <2>3. Selecting
      BY <2>1, <2>2 DEF Selecting
    <2>4. QED
      BY <2>3 DEF Next
  <1>2. ASSUME NEW m \in Members, NEW p \in Positions, NEW day \in Days \cup {None},
               NEW override \in BOOLEAN, Replace(m, p, day, override)
        PROVE  Next
    <2>1. CorrectReplace(m, p, day # None, override) /\ (day # None) \in BOOLEAN
      BY <1>2 DEF Replace
    <2>2. Correcting
      BY <2>1 DEF Correcting
    <2>3. QED
      BY <2>2 DEF Next
  <1>3. ASSUME NEW m \in Members, NEW day \in Days, PickLater(m, day) \/ DirectDay(m, day)
        PROVE  Next
    BY <1>3 DEF PickLater, DirectDay, PickingADay, Next
  <1>4. ASSUME NEW m \in Members, NEW override \in BOOLEAN, Revoke(m, override)
        PROVE  Next
    BY <1>4 DEF Revoke, Correcting, Next
  <1>5. ASSUME NEW p \in Positions, NEW day \in Days \cup {None}, Amending(p, day)
        PROVE  Next
    <2>1. Amend(p, day # None) /\ (day # None) \in BOOLEAN
      BY <1>5 DEF Amending
    <2>2. Correcting
      BY <2>1 DEF Correcting
    <2>3. QED
      BY <2>2 DEF Next
  <1>6. ASSUME NEW d \in Dispositions, Answer(d)
        PROVE  Next
    BY <1>6 DEF Answer, Contacting, Next
  <1>7. ASSUME Interrupt \/ Complete
        PROVE  Next
    BY <1>7 DEF Interrupt, Complete, Sequencing, Next
  <1>8. QED
    BY <1>1, <1>2, <1>3, <1>4, <1>5, <1>6, <1>7 DEF ADayNext

\* With its A-Days the bid is a bid of LiveBid: whatever is proved of LiveBid's
\* Spec holds here.
THEOREM ADaysImplementLiveBid == ADaySpec => Spec
  <1>1. ADayInit => Init
    BY DEF ADayInit
  <1>2. [ADayNext]_vars => [Next]_bid
    BY CommandsOfLiveBid DEF vars
  <1>3. QED
    BY <1>1, <1>2, PTL DEF ADaySpec, Spec

\* The commands that give a member its first award.
LEMMA SelectingAgrees ==
  ASSUME Agree, Live(bid), Live(bid'), NEW m \in Members, NEW p \in Positions,
         NEW day \in Days \cup {None},
         Select(m, p, day) \/ ForceAward(m, p, day) \/ Direct(m, p, day)
  PROVE  Agree'
  <1>1. PICK aDay \in BOOLEAN, override \in BOOLEAN, named \in {None, m} :
          Selectable(m, p) /\ Accept(Selected(m, p, aDay, override), override, named)
    <2>1. RecordSelection(m, p) \/ ForceSelection(m, p) \/ DirectSelection(m, p, day # None)
      BY DEF Select, ForceAward, Direct
    <2>2. Selectable(m, p)
      BY <2>1 DEF RecordSelection, ForceSelection, DirectSelection
    <2>3. \/ \E aDay \in BOOLEAN : AcceptOrdinary(Selected(m, p, aDay, FALSE))
          \/ \E aDay \in BOOLEAN : AcceptDirected(Selected(m, p, aDay, TRUE), m)
      BY <2>1 DEF RecordSelection, ForceSelection, DirectSelection
    <2>4. QED
      BY <2>2, <2>3 DEF AcceptOrdinary, AcceptDirected
  <1>2. bid.fills[p] = None /\ m \notin Awarded(bid)
    BY <1>1 DEF Selectable, OpenSeat
  <1>3. /\ OthersKept(bid', m) /\ AwardIs(bid', m, p, aDay)
        /\ m \in bid'.picks => m \in bid.picks \cup Given(bid')
    BY <1>1, <1>2, SelectionAwards
  <1>4. /\ Given(bid) \subseteq bid.picks /\ bid.picks \subseteq Awarded(bid)
        /\ Given(bid') \subseteq bid'.picks /\ Evaluable(bid')
    BY DEF Live, Paid
  <1>5. m \in Given(bid') <=> day # None
    <2>1. Seat(bid', m) = p /\ (m \in Given(bid') <=> aDay) /\ (bid'.fills[p].aDay <=> aDay)
      BY <1>3, <1>4, SeatOfAward DEF AwardIs
    <2>2. CASE Select(m, p, day)
      <3>1. Accept(Selected(m, p, TRUE, FALSE), FALSE, None)
        BY <2>2 DEF Select, RecordSelection, AcceptOrdinary
      <3>2. AwardIs(bid', m, p, TRUE)
        BY <1>2, <3>1, SelectionAwards
      <3>3. m \in Given(bid')
        BY <1>4, <3>2, SeatOfAward
      <3>4. QED
        BY <2>2, <3>3 DEF Select
    <2>3. CASE ForceAward(m, p, day)
      BY <2>1, <2>3 DEF ForceAward
    <2>4. CASE Direct(m, p, day)
      <3>1. Accept(Selected(m, p, day # None, TRUE), TRUE, m) /\ (day # None) \in BOOLEAN
        BY <2>4 DEF Direct, DirectSelection, AcceptDirected
      <3>2. AwardIs(bid', m, p, day # None)
        BY <1>2, <3>1, SelectionAwards
      <3>3. m \in Given(bid') <=> day # None
        BY <1>4, <3>2, SeatOfAward
      <3>4. QED
        BY <3>3
    <2>5. QED
      BY <2>2, <2>3, <2>4
  <1>6. \E n : Evaluated(Recorded(m, day, FALSE), n, m)
    BY DEF Select, ForceAward, Direct
  <1>7. m \notin bid.picks /\ (m \in bid'.picks <=> m \in Given(bid'))
    BY <1>2, <1>3, <1>4
  <1>8. QED
    BY <1>3, <1>5, <1>6, <1>7, RecordedAgrees

LEMMA PickLaterAgrees ==
  ASSUME Agree, Live(bid), Live(bid'), NEW m \in Members, NEW day \in Days, PickLater(m, day)
  PROVE  Agree'
  <1> DEFINE k == PickOf(m, SeatShift(bid, m), day)
             a == [alloc EXCEPT !.picks = Append(@, k)]
  <1>1. RecordADay(m) /\ Evaluated(a, None, m)
    BY DEF PickLater
  <1>2. /\ SamePeople(bid, bid') /\ bid'.picks = bid.picks \cup {m}
        /\ m \in Awarded(bid) /\ m \notin bid.picks
    BY <1>1, RecordADayStepped
  <1>3. k \in PickRecords /\ k.member = m
    <2>1. Seat(bid, m) \in Positions
      BY <1>2 DEF Seat, Awarded, Filled
    <2>2. SeatShift(bid, m) \in Shifts
      BY <2>1, ADayPolicy DEF SeatShift
    <2>3. QED
      BY <2>2 DEF PickOf, PickRecords
  <1>4. a.day = alloc.day /\ a.approved = alloc.approved /\ a.picks = Append(alloc.picks, k)
    BY DEF Agree
  <1> HIDE DEF k, a
  <1>5. /\ alloc.picks \in Seq(PickRecords) /\ OnePickEach(alloc.picks)
        /\ \A i \in DOMAIN alloc.picks : alloc.picks[i].member # m
    BY <1>2 DEF Agree, Sound, PickersOf
  <1>6. /\ a.picks \in Seq(PickRecords) /\ DOMAIN a.picks = 1 .. Len(alloc.picks) + 1
        /\ Len(alloc.picks) \in Nat /\ DOMAIN alloc.picks = 1 .. Len(alloc.picks)
        /\ a.picks[Len(alloc.picks) + 1] = k
        /\ \A i \in DOMAIN alloc.picks : a.picks[i] = alloc.picks[i]
    BY <1>3, <1>4, <1>5
  <1>7. \A i \in DOMAIN a.picks : i \in DOMAIN alloc.picks \/ i = Len(alloc.picks) + 1
    BY <1>6
  <1>8. OnePickEach(a.picks)
    BY <1>3, <1>5, <1>6, <1>7 DEF OnePickEach
  <1>9. \A n : n \in PickersOf(a.picks) <=> (n \in PickersOf(alloc.picks) \/ n = m)
    <2>1. \A n : (\E i \in DOMAIN a.picks : a.picks[i].member = n)
                   <=> (n = m \/ \E i \in DOMAIN alloc.picks : alloc.picks[i].member = n)
      <3>1. DOMAIN alloc.picks \subseteq DOMAIN a.picks /\ Len(alloc.picks) + 1 \in DOMAIN a.picks
        BY <1>6
      <3>2. QED
        BY <1>3, <1>6, <1>7, <3>1
    <2>2. QED
      BY <2>1 DEF PickersOf
  <1>10. /\ Given(bid) \subseteq bid.picks /\ bid.picks \subseteq Awarded(bid)
         /\ Given(bid') = Given(bid) /\ Awarded(bid') = Awarded(bid)
    BY <1>2 DEF Live, Paid, SamePeople, Given, Awarded, Filled
  <1>11. \A n \in Members :
           n \in bid'.picks <=> (/\ n \in Awarded(bid')
                                 /\ n \in PickersOf(a.picks) \/ n \in Given(bid'))
    BY <1>2, <1>9, <1>10 DEF Agree
  <1>12. /\ a.day \in [Members -> Days \cup {None}] /\ DOMAIN a.approved = Members
         /\ \A n \in Members : a.day[n] # None <=> n \in Given(bid')
    BY <1>4, <1>10 DEF Agree, Sound
  <1>13. QED
    BY <1>1, <1>6, <1>8, <1>11, <1>12, EvaluatedAgrees DEF Sound

\* The commands that change or drop the A-Day of an award there is.
LEMMA CorrectingAgrees ==
  ASSUME Agree, Live(bid), Live(bid'),
         \/ \E m \in Members, day \in Days : DirectDay(m, day)
         \/ \E m \in Members, override \in BOOLEAN : Revoke(m, override)
         \/ \E m \in Members, p \in Positions, day \in Days \cup {None}, override \in BOOLEAN :
              Replace(m, p, day, override)
         \/ \E p \in Positions, day \in Days \cup {None} : Amending(p, day)
  PROVE  Agree'
  <1>1. /\ Given(bid) \subseteq bid.picks /\ bid.picks \subseteq Awarded(bid)
        /\ Given(bid') \subseteq bid'.picks /\ bid'.picks \subseteq Awarded(bid')
        /\ Evaluable(bid')
    BY DEF Live, Paid
  <1>2. ASSUME NEW m \in Members, NEW day \in Days, DirectDay(m, day)
        PROVE  Agree'
    <2>1. OthersKept(bid', m) /\ AwardIs(bid', m, Seat(bid, m), TRUE)
      BY <1>2, DirectADayAwards DEF DirectDay
    <2>2. m \in Given(bid')
      BY <1>1, <2>1, SeatOfAward
    <2>3. Evaluated(Recorded(m, day, TRUE), m, m) /\ day # None
      BY <1>2 DEF DirectDay
    <2>4. QED
      BY <1>1, <2>1, <2>2, <2>3, RecordedAgrees
  <1>3. ASSUME NEW m \in Members, NEW override \in BOOLEAN, Revoke(m, override)
        PROVE  Agree'
    <2>1. OthersKept(bid', m) /\ m \notin Awarded(bid')
      BY <1>3, RevokeAwards DEF Revoke
    <2>2. Evaluated(Recorded(m, None, TRUE), Overriding(m, override), m)
      BY <1>3 DEF Revoke
    <2>3. m \notin bid'.picks /\ m \notin Given(bid')
      BY <1>1, <2>1
    <2>4. QED
      BY <2>1, <2>2, <2>3, RecordedAgrees
  <1>4. ASSUME NEW m \in Members, NEW p \in Positions, NEW day \in Days \cup {None},
               NEW override \in BOOLEAN, Replace(m, p, day, override)
        PROVE  Agree'
    <2>1. CorrectReplace(m, p, day # None, override) /\ (day # None) \in BOOLEAN
      BY <1>4 DEF Replace
    <2>2. /\ OthersKept(bid', m) /\ AwardIs(bid', m, p, day # None)
          /\ m \in bid'.picks => m \in Given(bid')
      BY <2>1, ReplaceAwards
    <2>3. m \in Given(bid') <=> day # None
      BY <1>1, <2>2, SeatOfAward
    <2>4. Evaluated(Recorded(m, day, TRUE), Overriding(m, override), m)
      BY <1>4 DEF Replace
    <2>5. QED
      BY <1>1, <2>2, <2>3, <2>4, RecordedAgrees
  <1>5. ASSUME NEW p \in Positions, NEW day \in Days \cup {None}, Amending(p, day)
        PROVE  Agree'
    <2>1. Amend(p, day # None) /\ (day # None) \in BOOLEAN
      BY <1>5 DEF Amending
    <2>2. PICK m \in Members :
            /\ m = bid.fills[bid.last].member
            /\ OthersKept(bid', m) /\ AwardIs(bid', m, p, m \in Given(bid) \/ day # None)
            /\ m \in bid.picks => m \in bid'.picks
            /\ m \in bid'.picks => m \in bid.picks \cup Given(bid')
      BY <2>1, AmendAwards
    <2>3. m \in Given(bid') <=> (m \in Given(bid) \/ day # None)
      BY <1>1, <2>2, SeatOfAward
    <2>4. Evaluated(Recorded(m, day, FALSE), None, m)
      BY <1>5, <2>2 DEF Amending
    <2>5. m \in bid'.picks <=> (m \in Given(bid') \/ (m \in bid.picks /\ m \in Awarded(bid')))
      BY <1>1, <2>2
    <2>6. QED
      BY <2>2, <2>3, <2>4, <2>5, RecordedAgrees
  <1>6. QED
    BY <1>2, <1>3, <1>4, <1>5

LEMMA NextAgrees ==
  ASSUME Agree, Live(bid), Live(bid'), ADayNext
  PROVE  Agree'
  <1>1. ASSUME NEW d \in Dispositions, Answer(d)
        PROVE  Agree'
    <2>1. AwardsStay
      BY <1>1, DispositionStepped DEF Answer, AwardsStay
    <2>2. QED
      BY <1>1, <2>1, QuietAgrees DEF Answer
  <1>2. ASSUME Interrupt
        PROVE  Agree'
    <2>1. AwardsStay /\ alloc' = alloc
      BY <1>2, PauseStepped DEF Interrupt, SamePeople, AwardsStay
    <2>2. Given(bid') = Given(bid)
      BY <2>1 DEF AwardsStay, Given, Filled
    <2>3. QED
      BY <2>1, <2>2 DEF Agree, AwardsStay
  <1>3. ASSUME Complete
        PROVE  Agree'
    <2>1. AwardsStay
      BY <1>3, CompleteStepped DEF Complete, SamePeople, AwardsStay
    <2>2. QED
      BY <1>3, <2>1, QuietAgrees DEF Complete
  <1>4. QED
    BY <1>1, <1>2, <1>3, SelectingAgrees, PickLaterAgrees, CorrectingAgrees DEF ADayNext

LEMMA AgreeAtFirst ==
  ASSUME ADayInit
  PROVE  Agree
  <1>1. bid.picks = {} /\ Given(bid) = {}
    BY DEF ADayInit, Init, Given, Filled
  <1>2. /\ alloc.day = [m \in Members |-> None] /\ alloc.picks = <<>>
        /\ DOMAIN alloc.approved = Members
        /\ {"day", "approved", "picks"} \subseteq DOMAIN alloc
    BY DEF ADayInit
  <1>3. PickersOf(<<>>) = {} /\ OnePickEach(<<>>)
    BY DEF PickersOf, OnePickEach
  <1>4. QED
    BY <1>1, <1>2, <1>3 DEF Agree, Sound

\* DocumentsAgree: whatever selects, corrects, amends or picks, the A-Days of the
\* awards, the picks of the allocation and what the document says of both are
\* the same, and nobody has two picks.
THEOREM AlwaysAgree == ADaySpec => []DocumentsAgree
  <1>1. ADayInit => Agree
    BY AgreeAtFirst
  <1>2. Agree /\ LiveInvariant /\ LiveInvariant' /\ [ADayNext]_vars => Agree'
    <2> SUFFICES ASSUME Agree, LiveInvariant, LiveInvariant', [ADayNext]_vars PROVE Agree'
      OBVIOUS
    <2>1. CASE ADayNext
      BY <2>1, NextAgrees DEF LiveInvariant
    <2>2. CASE UNCHANGED vars
      BY <2>2 DEF vars, Agree, Given, Filled
    <2>3. QED
      BY <2>1, <2>2
  <1>3. Agree /\ LiveInvariant => DocumentsAgree
    <2> SUFFICES ASSUME Agree, LiveInvariant PROVE DocumentsAgree
      OBVIOUS
    <2>1. /\ Given(bid) \subseteq bid.picks /\ bid.picks \subseteq Awarded(bid)
          /\ Evaluable(bid) /\ bid.picks \subseteq Members
      BY DocumentFields DEF LiveInvariant, Live, Paid
    <2>2. PickersOf(alloc.picks) \subseteq Members
      <3>1. \A i \in DOMAIN alloc.picks : alloc.picks[i].member \in Members
        <4>1. alloc.picks \in Seq(PickRecords)
          BY DEF Agree, Sound
        <4>2. \A i \in DOMAIN alloc.picks : alloc.picks[i] \in PickRecords
          BY <4>1
        <4>3. QED
          BY <4>2 DEF PickRecords
      <3>2. QED
        BY <3>1 DEF PickersOf
    <2>3. PickersOf(alloc.picks) = bid.picks
      BY <2>1, <2>2 DEF Agree
    <2>4. \A p \in Filled(bid) : bid.fills[p].member \in Members
      BY DEF LiveInvariant, Live, Shape, Documents, Filled, Opt, Awards
    <2>5. \A p \in Filled(bid) : bid.fills[p].aDay <=> bid.fills[p].member \in Given(bid)
      BY <2>1 DEF Given, Evaluable
    <2>6. QED
      BY <2>1, <2>3, <2>4, <2>5 DEF Agree, Sound, DocumentsAgree, OnePickEach
  <1>4. ADaySpec => []LiveInvariant
    BY ADaysImplementLiveBid, AlwaysLive, PTL
  <1>5. QED
    BY <1>1, <1>2, <1>3, <1>4, PTL DEF ADaySpec

-----------------------------------------------------------------------------
(* The limits: each pick was let through on top of those before it.        *)

LEMMA ReplayHolds ==
  ASSUME NEW s, NEW a, NEW selects,
         Retimed(s, a) \in Seq(PickRecords), OnePickEach(Retimed(s, a))
  PROVE  /\ ReplayOrder(s, a, selects) \in Seq(PickRecords)
         /\ OnePickEach(ReplayOrder(s, a, selects))
         /\ \A k : Has(ReplayOrder(s, a, selects), k) <=> Has(Retimed(s, a), k)
  <1> DEFINE picks     == Retimed(s, a)
             proposed  == {k \in Range(picks) : k.member = selects}
             departing == {k \in Range(picks) \ proposed : Approved(s, a, k)}
             ordinary  == Range(picks) \ (proposed \cup departing)
             first     == Among(picks, ordinary)
             second    == Among(picks, departing)
             last      == Among(picks, proposed)
  <1>1. ReplayOrder(s, a, selects) = (first \o second) \o last
    BY DEF ReplayOrder, OrdinaryFirst
  <1>2. \A k, l : Has(picks, k) /\ Has(picks, l) /\ k.member = l.member => k = l
    BY DEF Has, OnePickEach
  <1>3. \A k : k \in Range(picks) <=> Has(picks, k)
    BY DEF Range, Has
  <1>4. /\ ordinary \cap departing = {} /\ (ordinary \cup departing) \cap proposed = {}
        /\ \A k : Has(picks, k) => k \in (ordinary \cup departing) \cup proposed
    BY <1>3
  <1>5. picks \in Seq(PickRecords) /\ OnePickEach(picks)
    OBVIOUS
  <1> HIDE DEF ordinary, departing, proposed, picks
  <1>6. /\ first \in Seq(PickRecords) /\ OnePickEach(first) /\ Lists(first, picks, ordinary)
        /\ second \in Seq(PickRecords) /\ OnePickEach(second) /\ Lists(second, picks, departing)
        /\ last \in Seq(PickRecords) /\ OnePickEach(last) /\ Lists(last, picks, proposed)
    BY <1>5, AmongPicks
  <1> HIDE DEF first, second, last
  <1>7. \A q : \A i \in DOMAIN q : Has(q, q[i])
    BY DEF Has
  <1>8. /\ first \o second \in Seq(PickRecords) /\ OnePickEach(first \o second)
        /\ \A k : Has(first \o second, k) <=> Has(first, k) \/ Has(second, k)
    <2>1. \A i \in DOMAIN first, j \in DOMAIN second : first[i].member # second[j].member
      BY <1>2, <1>4, <1>6, <1>7 DEF Lists
    <2>2. QED
      BY <1>6, <2>1, PicksJoined
  <1> DEFINE both == first \o second
  <1>9. \A k : Has(both, k) <=> (k \in ordinary \cup departing /\ Has(picks, k))
    BY <1>6, <1>8 DEF Lists
  <1> HIDE DEF both
  <1>10. \A i \in DOMAIN both, j \in DOMAIN last : both[i].member # last[j].member
    BY <1>2, <1>4, <1>6, <1>7, <1>9 DEF Lists
  <1>11. /\ both \o last \in Seq(PickRecords) /\ OnePickEach(both \o last)
         /\ \A k : Has(both \o last, k) <=> Has(both, k) \/ Has(last, k)
    BY <1>6, <1>8, <1>10, PicksJoined DEF both
  <1>12. \A k : Has(both \o last, k) <=> Has(picks, k)
    BY <1>4, <1>6, <1>9, <1>11 DEF Lists
  <1>13. QED
    BY <1>1, <1>11, <1>12 DEF both, picks

\* Nothing stands against the pick at place i of the replay.
Fine(s, a, replay, i) ==
  /\ ~NotEnabled(replay[i])
  /\ Objections(EngineAt(s, a, replay, i), replay[i].member, replay[i].day) = {}

\* What is not approved afterwards was not excused.
LEMMA UnapprovedFine ==
  ASSUME NEW s, Awarded(s) \subseteq Members, NEW a, Sound(a), NEW named, NEW selects,
         Allocates(s, a, named, selects), NEW b, b.approved = Stamped(s, a, named, selects),
         NEW i \in DOMAIN ReplayOrder(s, a, selects),
         ~Approved(s, b, ReplayOrder(s, a, selects)[i])
  PROVE  Fine(s, a, ReplayOrder(s, a, selects), i)
  <1> DEFINE replay == ReplayOrder(s, a, selects)
             k      == replay[i]
  <1>1. /\ Retimed(s, a) \in Seq(PickRecords) /\ OnePickEach(Retimed(s, a))
        /\ \A m \in PickersOf(Retimed(s, a)) : m \in Awarded(s)
    BY RetimedPicks DEF Sound
  <1>2. /\ replay \in Seq(PickRecords) /\ OnePickEach(replay)
        /\ \A l : Has(replay, l) <=> Has(Retimed(s, a), l)
    BY <1>1, ReplayHolds
  <1>3. Passes(s, a, replay, named, i)
    BY DEF Allocates
  <1>4. Has(replay, k)
    BY DEF Has
  <1>5. k \in PickRecords /\ k.member \in PickersOf(Retimed(s, a)) /\ k.member \in Members
    <2>1. k \in PickRecords
      BY <1>2
    <2>2. Has(Retimed(s, a), k)
      BY <1>2, <1>4
    <2>3. QED
      BY <2>1, <2>2 DEF Has, PickersOf, PickRecords
  <1>0. i \in DOMAIN replay
    OBVIOUS
  <1> HIDE DEF replay
  <1>6. CASE k.member = named
    <2> DEFINE place   == CHOOSE j \in DOMAIN replay : replay[j].member = named
               e       == EngineAt(s, a, replay, place)
               met     == Objections(e, named, replay[place].day)
               exceeds == Exceeds(e, replay[place]) \/ met = {"OFFICER_INVARIANT_VIOLATED"}
    <2>1. place \in DOMAIN replay /\ replay[place].member = named
      BY <1>0, <1>6
    <2>2. place = i
      BY <1>0, <1>2, <1>6, <2>1 DEF OnePickEach
    <2>3. b.approved = IF met = {} /\ ~exceeds /\ ~NotEnabled(replay[place]) THEN a.approved
                       ELSE [a.approved EXCEPT ![named] =
                               Approval(Seat(s, named), replay[place].day, exceeds)]
      BY <1>5, <1>6 DEF Stamped, StampedOn, replay
    <2>4. Seat(s, named) \in Positions /\ k.day \in Days /\ exceeds \in BOOLEAN
      <3>1. named \in Awarded(s)
        BY <1>1, <1>5, <1>6
      <3>2. QED
        BY <1>5, <3>1 DEF Seat, Awarded, Filled, PickRecords, Exceeds
    <2> HIDE DEF place, exceeds, met
    <2>5. ~(met = {} /\ ~exceeds /\ ~NotEnabled(replay[place])) => Approved(s, b, k)
      <3>1. SUFFICES ASSUME b.approved = [a.approved EXCEPT ![named] =
                                            Approval(Seat(s, named), k.day, exceeds)]
                     PROVE  Approved(s, b, k)
        BY <2>2, <2>3
      <3>2. b.approved[named] = Approval(Seat(s, named), k.day, exceeds)
        BY <1>5, <1>6, <3>1 DEF Sound
      <3>3. b.approved[named] # None
        BY <2>4, <3>2, NullIsNoApproval
      <3>4. QED
        BY <1>6, <3>2, <3>3 DEF Approved, Approval
    <2>6. met = {} /\ ~NotEnabled(replay[place])
      BY <2>5 DEF replay
    <2>7. QED
      BY <1>6, <2>2, <2>6 DEF Fine, met, replay
  <1>7. CASE k.member # named
    <2>1. b.approved[k.member] = a.approved[k.member]
      <3>1. \A x : [a.approved EXCEPT ![named] = x][k.member] = a.approved[k.member]
        BY <1>5, <1>7 DEF Sound
      <3>2. QED
        BY <3>1 DEF Stamped, StampedOn
    <2>2. ~Approved(s, a, k)
      BY <2>1 DEF Approved, replay
    <2>3. QED
      BY <1>3, <1>7, <2>2 DEF Passes, Fine, replay
  <1>8. QED
    BY <1>6, <1>7

LEMMA AtMost ==
  ASSUME NEW B, IsFiniteSet(B), NEW T, NEW k \in T, T \ {k} \subseteq B,
         NEW n \in Nat, Cardinality(B) + 1 <= n
  PROVE  Cardinality(T) <= n
  <1> DEFINE R == T \ {k}
  <1>1. IsFiniteSet(R) /\ Cardinality(R) <= Cardinality(B)
    BY FS_Subset
  <1>2. T = R \cup {k} /\ k \notin R
    OBVIOUS
  <1> HIDE DEF R
  <1>3. Cardinality(T) = Cardinality(R) + 1
    BY <1>1, <1>2, FS_AddElement
  <1>4. Cardinality(R) \in Nat /\ Cardinality(B) \in Nat
    BY <1>1, FS_CardinalityType
  <1>5. QED
    BY <1>1, <1>3, <1>4

\* Of some picks of a replay, the last one came after all the others.
LEMMA LastAfterOthers ==
  ASSUME NEW S, NEW replay \in Seq(S), NEW T, T # {}, \A k \in T : Has(replay, k)
  PROVE  \E i \in DOMAIN replay :
           /\ replay[i] \in T
           /\ IsFiniteSet({replay[j] : j \in 1 .. i - 1})
           /\ T \ {replay[i]} \subseteq {replay[j] : j \in 1 .. i - 1}
  <1>1. PICK k : k \in T
    OBVIOUS
  <1>2. Has(replay, k)
    BY <1>1
  <1>3. PICK i \in DOMAIN replay : /\ replay[i] \in T
                                   /\ \A j \in DOMAIN replay : replay[j] \in T => j <= i
    BY <1>1, <1>2, LastInSet
  <1>4. i \in Nat /\ \A j \in DOMAIN replay : j \in Nat /\ j >= 1
    OBVIOUS
  <1> DEFINE before == {replay[j] : j \in 1 .. i - 1}
  <1>5. T \ {replay[i]} \subseteq before
    <2>1. SUFFICES ASSUME NEW l \in T, l # replay[i] PROVE l \in before
      OBVIOUS
    <2>2. PICK j \in DOMAIN replay : replay[j] = l
      BY DEF Has
    <2>3. j <= i /\ j # i
      BY <1>3, <2>1, <2>2
    <2>4. j \in 1 .. i - 1
      BY <1>4, <2>3
    <2>5. QED
      BY <2>2, <2>4
  <1>6. IsFiniteSet(before)
    <2> DEFINE f == [j \in 1 .. i - 1 |-> replay[j]]
    <2>1. f \in Surjection(1 .. i - 1, before)
      BY DEF Surjection
    <2>2. 1 \in Int /\ i - 1 \in Int
      BY <1>4
    <2>3. IsFiniteSet(1 .. i - 1)
      BY <2>2, FS_Interval
    <2>4. QED
      BY <2>1, <2>3, FS_Surjection
  <1>7. QED
    BY <1>3, <1>5, <1>6

\* Every pick counts on the shift of its member's seat.
SeatedOn(s, picks) == \A k : Has(picks, k) => k.shift = SeatShift(s, k.member)

LEMMA RetimedSeated ==
  ASSUME NEW s, Awarded(s) \subseteq Members, NEW a, Sound(a),
         \A k : Has(a.picks, k) /\ k.member \in Awarded(s) /\ k.member \notin Carrying(s, a)
                  => k.shift = SeatShift(s, k.member)
  PROVE  SeatedOn(s, Retimed(s, a))
  <1>1. SUFFICES ASSUME NEW k, Has(Retimed(s, a), k)
                 PROVE  k.shift = SeatShift(s, k.member)
    BY DEF SeatedOn
  <1>2. \/ k \in Staying(s, a)
        \/ k.member \in Carrying(s, a) /\ k = Carried(s, a, k.member)
    BY <1>1, RetimedPicks DEF Sound
  <1>3. \A m : Carried(s, a, m).shift = SeatShift(s, m)
    BY DEF Carried, PickOf
  <1>4. CASE k.member \in Carrying(s, a)
    BY <1>2, <1>3, <1>4 DEF Staying
  <1>5. CASE k.member \notin Carrying(s, a)
    <2>1. k \in Range(a.picks) /\ k.member \in Awarded(s)
      BY <1>2, <1>5 DEF Staying
    <2>2. Has(a.picks, k)
      BY <2>1 DEF Range, Has
    <2>3. QED
      BY <1>5, <2>1, <2>2
  <1>6. QED
    BY <1>4, <1>5

\* The ordinary picks of an evaluation keep within the limits.
WithinLimits(s, a, P) ==
  \A shift \in Shifts, g \in Days :
    LET there == {k \in P : SeatShift(s, k.member) = shift /\ k.day = g}
    IN /\ shift # "D" =>
            /\ Cardinality(there) <= IF g \in Enabled THEN Maximum ELSE 0
            /\ Exact # None => Cardinality({k \in there : k.member \in Officers}) <= Exact
       /\ \A c \in Scoped :
            shift \in c.shifts =>
              Cardinality({k \in there : InScope(s, c, k.member)}) <= c.maximum

LEMMA FineKeepsLimits ==
  ASSUME NEW s, NEW a, NEW replay \in Seq(PickRecords), SeatedOn(s, replay), NEW P,
         \A k \in P : Has(replay, k),
         \A i \in DOMAIN replay : replay[i] \in P => Fine(s, a, replay, i)
  PROVE  WithinLimits(s, a, P)
  <1>1. SUFFICES ASSUME NEW shift \in Shifts, NEW g \in Days
                 PROVE  LET there == {k \in P : SeatShift(s, k.member) = shift /\ k.day = g}
                        IN /\ shift # "D" =>
                                /\ Cardinality(there) <= IF g \in Enabled THEN Maximum ELSE 0
                                /\ Exact # None =>
                                     Cardinality({k \in there : k.member \in Officers}) <= Exact
                           /\ \A c \in Scoped :
                                shift \in c.shifts =>
                                  Cardinality({k \in there : InScope(s, c, k.member)}) <= c.maximum
    BY DEF WithinLimits
  <1> DEFINE there     == {k \in P : SeatShift(s, k.member) = shift /\ k.day = g}
             before(i) == {replay[j] : j \in 1 .. i - 1}
  <1>3. ASSUME NEW T, T \subseteq there, T # {}
        PROVE  \E i \in DOMAIN replay :
                 /\ replay[i] \in T /\ IsFiniteSet(OnDay(before(i), shift, g))
                 /\ T \ {replay[i]} \subseteq OnDay(before(i), shift, g)
                 /\ replay[i].day = g /\ (shift # "D" => g \in Enabled)
                 /\ Objections(EngineAt(s, a, replay, i), replay[i].member, g) = {}
                 /\ SeatShift(s, replay[i].member) = shift
    <2>1. \A k \in T : Has(replay, k) /\ k.shift = shift /\ k.day = g
      BY <1>3 DEF SeatedOn
    <2>2. PICK i \in DOMAIN replay : /\ replay[i] \in T /\ IsFiniteSet(before(i))
                                     /\ T \ {replay[i]} \subseteq before(i)
      BY <1>3, <2>1, LastAfterOthers
    <2>3. Fine(s, a, replay, i)
      BY <1>3, <2>2
    <2>4. T \ {replay[i]} \subseteq OnDay(before(i), shift, g)
      BY <2>1, <2>2 DEF OnDay
    <2>5. OnDay(before(i), shift, g) \subseteq before(i)
      BY DEF OnDay
    <2>6. IsFiniteSet(OnDay(before(i), shift, g))
      BY <2>2, <2>5, FS_Subset
    <2>7. replay[i].shift = shift /\ replay[i].day = g
      BY <2>1, <2>2
    <2>8. /\ shift # "D" => g \in Enabled
          /\ Objections(EngineAt(s, a, replay, i), replay[i].member, g) = {}
      BY <2>3, <2>7 DEF Fine, NotEnabled
    <2>9. SeatShift(s, replay[i].member) = shift
      BY <1>3, <2>2
    <2>10. QED
      BY <2>2, <2>4, <2>6, <2>7, <2>8, <2>9
  <1>4. ASSUME NEW i \in DOMAIN replay, SeatShift(s, replay[i].member) = shift,
               Objections(EngineAt(s, a, replay, i), replay[i].member, g) = {}
        PROVE  LET e == EngineAt(s, a, replay, i)
               IN /\ ~GroupFull(e, shift, g) /\ ~ScopeFull(e, replay[i].member, shift, g)
                  /\ ~OfficersInfeasible(e, replay[i].member, shift, g)
                  /\ e.picks = before(i) /\ e.doc = s
    <2>1. EngineAt(s, a, replay, i).doc = s /\ EngineAt(s, a, replay, i).picks = before(i)
      BY DEF EngineAt, Engine
    <2>2. QED
      BY <1>4, <2>1 DEF Objections
  <1> HIDE DEF there, before
  <1>5. Cardinality({}) = 0
    BY FS_EmptySet
  <1>6. ASSUME shift # "D"
        PROVE  Cardinality(there) <= IF g \in Enabled THEN Maximum ELSE 0
    <2>1. CASE there = {}
      BY <1>5, <2>1, ADayPolicy
    <2>2. CASE there # {}
      <3>1. PICK i \in DOMAIN replay :
              /\ replay[i] \in there /\ IsFiniteSet(OnDay(before(i), shift, g))
              /\ there \ {replay[i]} \subseteq OnDay(before(i), shift, g)
              /\ replay[i].day = g /\ (shift # "D" => g \in Enabled)
              /\ Objections(EngineAt(s, a, replay, i), replay[i].member, g) = {}
              /\ SeatShift(s, replay[i].member) = shift
        BY <1>3, <2>2
      <3>2. ~(Cardinality(OnDay(before(i), shift, g)) >= Maximum)
        BY <1>4, <1>6, <3>1 DEF GroupFull
      <3>3. Cardinality(OnDay(before(i), shift, g)) \in Nat /\ Maximum \in Nat
        BY <3>1, ADayPolicy, FS_CardinalityType
      <3>4. Cardinality(OnDay(before(i), shift, g)) + 1 <= Maximum
        BY <3>2, <3>3
      <3>5. Cardinality(there) <= Maximum
        BY <3>1, <3>3, <3>4, AtMost
      <3>6. QED
        BY <1>6, <3>1, <3>5
    <2>3. QED
      BY <2>1, <2>2
  <1>7. ASSUME shift # "D", Exact # None
        PROVE  Cardinality({k \in there : k.member \in Officers}) <= Exact
    <2> DEFINE officers == {k \in there : k.member \in Officers}
    <2>1. Exact \in Nat
      BY <1>7, ADayPolicy
    <2>2. CASE officers = {}
      <3> HIDE DEF officers
      <3>1. Cardinality(officers) <= Exact
        BY <1>5, <2>1, <2>2
      <3>2. QED
        BY <3>1 DEF officers
    <2>3. CASE officers # {}
      <3>1. officers \subseteq there
        OBVIOUS
      <3>2. PICK i \in DOMAIN replay :
              /\ replay[i] \in officers /\ IsFiniteSet(OnDay(before(i), shift, g))
              /\ officers \ {replay[i]} \subseteq OnDay(before(i), shift, g)
              /\ replay[i].day = g /\ (shift # "D" => g \in Enabled)
              /\ Objections(EngineAt(s, a, replay, i), replay[i].member, g) = {}
              /\ SeatShift(s, replay[i].member) = shift
        BY <1>3, <2>3, <3>1
      <3> DEFINE B == OfficersOn(before(i), shift, g)
      <3>3. B \subseteq OnDay(before(i), shift, g) /\ officers \ {replay[i]} \subseteq B
        BY <3>2 DEF OfficersOn
      <3>4. IsFiniteSet(B)
        BY <3>2, <3>3, FS_Subset
      <3>5. Cardinality(B) \in Nat
        BY <3>4, FS_CardinalityType
      <3>6. ~OfficersInfeasible(EngineAt(s, a, replay, i), replay[i].member, shift, g)
            /\ EngineAt(s, a, replay, i).picks = before(i)
        BY <1>4, <3>2
      <3>7. ~(OfficersAfter(EngineAt(s, a, replay, i), replay[i].member, shift, g, g) > Exact)
        BY <1>7, <3>2, <3>6, ADayPolicy DEF OfficersInfeasible, Required
      <3>8. OfficersAfter(EngineAt(s, a, replay, i), replay[i].member, shift, g, g)
              = Cardinality(B) + 1
        BY <3>2, <3>6 DEF OfficersAfter
      <3> HIDE DEF B, officers
      <3>9. Cardinality(B) + 1 <= Exact
        BY <2>1, <3>5, <3>7, <3>8
      <3>10. Cardinality(officers) <= Exact
        BY <2>1, <3>2, <3>3, <3>4, <3>9, AtMost
      <3>11. QED
        BY <3>10 DEF officers
    <2>4. QED
      BY <2>2, <2>3
  <1>8. ASSUME NEW c \in Scoped, shift \in c.shifts
        PROVE  Cardinality({k \in there : InScope(s, c, k.member)}) <= c.maximum
    <2> DEFINE covered == {k \in there : InScope(s, c, k.member)}
    <2>1. c.maximum \in Nat
      BY ADayPolicy
    <2>2. CASE covered = {}
      <3> HIDE DEF covered
      <3>1. Cardinality(covered) <= c.maximum
        BY <1>5, <2>1, <2>2
      <3>2. QED
        BY <3>1 DEF covered
    <2>3. CASE covered # {}
      <3>1. covered \subseteq there
        OBVIOUS
      <3>2. PICK i \in DOMAIN replay :
              /\ replay[i] \in covered /\ IsFiniteSet(OnDay(before(i), shift, g))
              /\ covered \ {replay[i]} \subseteq OnDay(before(i), shift, g)
              /\ replay[i].day = g /\ (shift # "D" => g \in Enabled)
              /\ Objections(EngineAt(s, a, replay, i), replay[i].member, g) = {}
              /\ SeatShift(s, replay[i].member) = shift
        BY <1>3, <2>3, <3>1
      <3> DEFINE B == {k \in OnDay(before(i), shift, g) : InScope(s, c, k.member)}
      <3>3. B \subseteq OnDay(before(i), shift, g) /\ covered \ {replay[i]} \subseteq B
        BY <3>2
      <3>4. IsFiniteSet(B)
        BY <3>2, <3>3, FS_Subset
      <3>5. Cardinality(B) \in Nat
        BY <3>4, FS_CardinalityType
      <3>6. ~(Cardinality(B) >= c.maximum)
        BY <1>4, <1>8, <3>2 DEF ScopeFull
      <3> HIDE DEF B, covered
      <3>7. Cardinality(B) + 1 <= c.maximum
        BY <2>1, <3>5, <3>6
      <3>8. Cardinality(covered) <= c.maximum
        BY <2>1, <3>2, <3>3, <3>4, <3>7, AtMost
      <3>9. QED
        BY <3>8 DEF covered
    <2>4. QED
      BY <2>2, <2>3
  <1>9. QED
    BY <1>6, <1>7, <1>8 DEF there

-----------------------------------------------------------------------------
(* The shift of a pick, and the limits in every reachable state.           *)

Seated == SeatedOn(bid, alloc.picks)

\* An award that carries its A-Day has the pick of that day.
Current ==
  \A k : Has(alloc.picks, k) /\ k.member \in Carrying(bid, alloc)
           => k = Carried(bid, alloc, k.member)

\* A pick is of a day that the shift of its member has.
OnValidDays == \A k : Has(alloc.picks, k) => ValidADay(SeatShift(bid, k.member), k.day)

\* With Agree, what the evaluation of the next command needs of the last one.
Kept == Seated /\ CapacityKept /\ Current /\ OnValidDays

LEMMA EvaluatedKeepsLimits ==
  ASSUME Live(bid'), NEW a, NEW named, NEW selects, Evaluated(a, named, selects),
         Sound(a), SeatedOn(bid', Retimed(bid', a))
  PROVE  Kept'
  <1> DEFINE replay == ReplayOrder(bid', a, selects)
             P      == Unapproved'
  <1>1. /\ alloc'.picks = Retimed(bid', a) /\ Allocates(bid', a, named, selects)
        /\ alloc'.approved = Stamped(bid', a, named, selects)
    BY DEF Evaluated
  <1>2. Awarded(bid') \subseteq Members
    BY DEF Live, Shape, Documents, Awarded, Filled, Opt, Awards
  <1>3. Retimed(bid', a) \in Seq(PickRecords) /\ OnePickEach(Retimed(bid', a))
    BY <1>2, RetimedPicks DEF Sound
  <1>4. replay \in Seq(PickRecords) /\ \A k : Has(replay, k) <=> Has(Retimed(bid', a), k)
    BY <1>3, ReplayHolds
  <1>5. SeatedOn(bid', replay)
    <2> HIDE DEF replay
    <2>1. QED
      BY <1>4 DEF SeatedOn
  <1>6. \A k \in P : Has(replay, k) /\ ~Approved(bid', alloc', k)
    <2>1. \A k \in P : Has(alloc'.picks, k) /\ ~Approved(bid', alloc', k)
      BY DEF Unapproved, Picks, Has
    <2> HIDE DEF P, replay
    <2>2. QED
      BY <1>1, <1>4, <2>1
  <1>7. \A i \in DOMAIN replay : replay[i] \in P => Fine(bid', a, replay, i)
    <2>1. SUFFICES ASSUME NEW i \in DOMAIN replay, replay[i] \in P
                   PROVE  Fine(bid', a, replay, i)
      OBVIOUS
    <2>2. ~Approved(bid', alloc', replay[i])
      BY <1>6, <2>1
    <2>3. QED
      BY <1>1, <1>2, <2>1, <2>2, UnapprovedFine
  <1>8. WithinLimits(bid', a, P)
    <2> HIDE DEF P, replay
    <2>1. QED
      BY <1>4, <1>5, <1>6, <1>7, FineKeepsLimits
  <1>9. CapacityKept'
    BY <1>8 DEF WithinLimits, CapacityKept, OnSeatShift
  <1>10. Seated'
    BY <1>1 DEF Seated
  <1>11. Current'
    <2>1. /\ Carrying(bid', alloc') = Carrying(bid', a)
          /\ \A m : Carried(bid', alloc', m) = Carried(bid', a, m)
      BY DEF Evaluated, Carrying, Carried
    <2>2. ASSUME NEW k, Has(alloc'.picks, k), k.member \in Carrying(bid', a)
          PROVE  k = Carried(bid', a, k.member)
      <3>1. \/ k \in Staying(bid', a)
            \/ k = Carried(bid', a, k.member)
        BY <1>1, <1>2, <2>2, RetimedPicks DEF Sound
      <3>2. QED
        BY <2>2, <3>1 DEF Staying
    <2>3. QED
      BY <2>1, <2>2 DEF Current
  <1>12. OnValidDays'
    <2>1. \A i \in DOMAIN replay : ValidADay(SeatShift(bid', replay[i].member), replay[i].day)
      BY <1>1 DEF Allocates, Passes
    <2> HIDE DEF replay
    <2>2. \A k : Has(replay, k) => ValidADay(SeatShift(bid', k.member), k.day)
      BY <2>1 DEF Has
    <2>3. QED
      BY <1>1, <1>4, <2>2 DEF OnValidDays
  <1>13. QED
    BY <1>9, <1>10, <1>11, <1>12 DEF Kept

LEMMA SeatOfOthers ==
  ASSUME NEW m, OthersKept(bid', m), Evaluable(bid), Evaluable(bid'),
         NEW n \in Members \ {m}, n \in Awarded(bid')
  PROVE  n \in Awarded(bid) /\ SeatShift(bid', n) = SeatShift(bid, n)
  <1>1. PICK q : q \in Filled(bid') /\ bid'.fills[q].member = n
    BY DEF Awarded
  <1>2. q \in Filled(bid) /\ bid.fills[q].member = n
    BY <1>1 DEF OthersKept
  <1>3. Seat(bid', n) = q
    BY <1>1 DEF Seat, Evaluable
  <1>4. Seat(bid, n) = q
    BY <1>2 DEF Seat, Evaluable
  <1>5. QED
    BY <1>2, <1>3, <1>4 DEF SeatShift, Awarded

\* A command that gives, moves or drops the A-Day of m.
LEMMA RecordedSeated ==
  ASSUME Agree, Seated, Live(bid), Live(bid'), NEW m \in Members, NEW day \in Days \cup {None},
         NEW drops \in BOOLEAN, OthersKept(bid', m),
         \/ drops
         \/ m \notin bid.picks
         \/ m \in Carrying(bid', Recorded(m, day, drops))
         \/ SeatShift(bid', m) = SeatShift(bid, m),
         NEW named, NEW selects, Evaluated(Recorded(m, day, drops), named, selects)
  PROVE  Kept'
  <1> DEFINE a == Recorded(m, day, drops)
  <1>1. Sound(a) /\ \A k : Has(a.picks, k) <=> (Has(alloc.picks, k) /\ (drops => k.member # m))
    BY RecordedSound DEF Agree
  <1>2. Awarded(bid') \subseteq Members /\ Evaluable(bid) /\ Evaluable(bid')
    BY DEF Live, Shape, Documents, Awarded, Filled, Opt, Awards
  <1> HIDE DEF a
  <1>3. ASSUME NEW k, Has(a.picks, k), k.member \in Awarded(bid'), k.member \notin Carrying(bid', a)
        PROVE  k.shift = SeatShift(bid', k.member)
    <2>1. Has(alloc.picks, k) /\ (drops => k.member # m)
      BY <1>1, <1>3
    <2>2. k.shift = SeatShift(bid, k.member)
      BY <2>1 DEF Seated, SeatedOn
    <2>3. CASE k.member = m
      <3>1. m \in PickersOf(alloc.picks)
        BY <2>1, <2>3 DEF Has, PickersOf
      <3>2. m \in bid.picks
        BY <3>1 DEF Agree
      <3>3. SeatShift(bid', m) = SeatShift(bid, m)
        BY <1>3, <2>1, <2>3, <3>2 DEF a
      <3>4. QED
        BY <2>2, <2>3, <3>3
    <2>4. CASE k.member # m
      <3>1. SeatShift(bid', k.member) = SeatShift(bid, k.member)
        BY <1>2, <1>3, <2>4, SeatOfOthers
      <3>2. QED
        BY <2>2, <3>1
    <2>5. QED
      BY <2>3, <2>4
  <1>4. SeatedOn(bid', Retimed(bid', a))
    BY <1>1, <1>2, <1>3, RetimedSeated
  <1>5. Evaluated(a, named, selects)
    BY DEF a
  <1>6. QED
    BY <1>1, <1>4, <1>5, EvaluatedKeepsLimits

LEMMA QuietSeated ==
  ASSUME Agree, Seated, Live(bid'), bid'.fills = bid.fills, NEW named, NEW selects,
         Evaluated(alloc, named, selects)
  PROVE  Kept'
  <1>1. Awarded(bid') \subseteq Members /\ \A m : SeatShift(bid', m) = SeatShift(bid, m)
    BY DEF Live, Shape, Documents, Awarded, Filled, Opt, Awards, SeatShift, Seat
  <1>2. SeatedOn(bid', Retimed(bid', alloc))
    BY <1>1, RetimedSeated DEF Agree, Seated, SeatedOn
  <1>3. QED
    BY <1>2, EvaluatedKeepsLimits DEF Agree

LEMMA PickLaterSeated ==
  ASSUME Agree, Seated, Live(bid), Live(bid'), NEW m \in Members, NEW day \in Days,
         PickLater(m, day)
  PROVE  Kept'
  <1> DEFINE k == PickOf(m, SeatShift(bid, m), day)
             a == [alloc EXCEPT !.picks = Append(@, k)]
  <1>1. RecordADay(m) /\ Evaluated(a, None, m)
    BY DEF PickLater
  <1>2. SamePeople(bid, bid') /\ m \in Awarded(bid) /\ m \notin bid.picks
    BY <1>1, RecordADayStepped
  <1>3. Awarded(bid') \subseteq Members /\ \A n : SeatShift(bid', n) = SeatShift(bid, n)
    BY <1>2 DEF Live, Shape, Documents, Awarded, Filled, Opt, Awards, SeatShift, Seat, SamePeople
  <1>4. k \in PickRecords /\ k.member = m /\ k.shift = SeatShift(bid, m)
    <2>1. Seat(bid, m) \in Positions
      BY <1>2 DEF Seat, Awarded, Filled
    <2>2. SeatShift(bid, m) \in Shifts
      BY <2>1, ADayPolicy DEF SeatShift
    <2>3. QED
      BY <2>2 DEF PickOf, PickRecords
  <1>5. a.day = alloc.day /\ a.approved = alloc.approved /\ a.picks = Append(alloc.picks, k)
    BY DEF Agree
  <1> HIDE DEF k, a
  <1>6. /\ alloc.picks \in Seq(PickRecords) /\ OnePickEach(alloc.picks)
        /\ \A i \in DOMAIN alloc.picks : alloc.picks[i].member # m
    BY <1>2 DEF Agree, Sound, PickersOf
  <1>7. /\ a.picks \in Seq(PickRecords) /\ DOMAIN a.picks = 1 .. Len(alloc.picks) + 1
        /\ Len(alloc.picks) \in Nat /\ DOMAIN alloc.picks = 1 .. Len(alloc.picks)
        /\ a.picks[Len(alloc.picks) + 1] = k
        /\ \A i \in DOMAIN alloc.picks : a.picks[i] = alloc.picks[i]
    BY <1>4, <1>5, <1>6
  <1>8. \A i \in DOMAIN a.picks : i \in DOMAIN alloc.picks \/ i = Len(alloc.picks) + 1
    BY <1>7
  <1>9. OnePickEach(a.picks)
    BY <1>4, <1>6, <1>7, <1>8 DEF OnePickEach
  <1>10. Sound(a)
    BY <1>5, <1>7, <1>9 DEF Agree, Sound
  <1>11. \A l : Has(a.picks, l) => l = k \/ Has(alloc.picks, l)
    BY <1>7, <1>8 DEF Has
  <1>12. SeatedOn(bid', Retimed(bid', a))
    <2>1. \A l : Has(a.picks, l) => l.shift = SeatShift(bid', l.member)
      BY <1>3, <1>4, <1>11 DEF Seated, SeatedOn
    <2>2. QED
      BY <1>3, <1>10, <2>1, RetimedSeated
  <1>13. QED
    BY <1>1, <1>10, <1>12, EvaluatedKeepsLimits

LEMMA SelectingSeated ==
  ASSUME Agree, Seated, Live(bid), Live(bid'), NEW m \in Members, NEW p \in Positions,
         NEW day \in Days \cup {None},
         Select(m, p, day) \/ ForceAward(m, p, day) \/ Direct(m, p, day)
  PROVE  Kept'
  <1>1. PICK aDay \in BOOLEAN, override \in BOOLEAN, named \in {None, m} :
          Selectable(m, p) /\ Accept(Selected(m, p, aDay, override), override, named)
    <2>1. RecordSelection(m, p) \/ ForceSelection(m, p) \/ DirectSelection(m, p, day # None)
      BY DEF Select, ForceAward, Direct
    <2>2. QED
      BY <2>1 DEF RecordSelection, ForceSelection, DirectSelection, AcceptOrdinary, AcceptDirected
  <1>2. bid.fills[p] = None /\ m \notin Awarded(bid)
    BY <1>1 DEF Selectable, OpenSeat
  <1>3. OthersKept(bid', m)
    BY <1>1, <1>2, SelectionAwards
  <1>4. m \notin bid.picks
    BY <1>2 DEF Live, Paid
  <1>5. \E n : Evaluated(Recorded(m, day, FALSE), n, m)
    BY DEF Select, ForceAward, Direct
  <1>6. QED
    BY <1>3, <1>4, <1>5, RecordedSeated

\* An amendment moves a member who picked its A-Day after the position, on the
\* shift of the seat it had then, to a seat of another shift.
MovesLatePick(p, day) ==
  LET prior == bid.fills[bid.last]
  IN /\ Amending(p, day) /\ day = None
     /\ ~prior.aDay /\ prior.member \in bid.picks
     /\ ShiftOf[p] # ShiftOf[bid.last]

LatePicksStay == ~\E p \in Positions, day \in Days \cup {None} : MovesLatePick(p, day)

LEMMA AmendingSeated ==
  ASSUME Agree, Seated, Live(bid), Live(bid'), NEW p \in Positions,
         NEW day \in Days \cup {None}, Amending(p, day), LatePicksStay
  PROVE  Kept'
  <1>1. Amend(p, day # None) /\ (day # None) \in BOOLEAN
    BY DEF Amending
  <1>2. PICK m \in Members :
          /\ m \in Awarded(bid) /\ m = bid.fills[bid.last].member
          /\ OthersKept(bid', m) /\ AwardIs(bid', m, p, m \in Given(bid) \/ day # None)
    BY <1>1, AmendAwards
  <1>3. Evaluable(bid) /\ Evaluable(bid')
    BY DEF Live
  <1>4. /\ Seat(bid', m) = p /\ m \in Awarded(bid')
        /\ m \in Given(bid') <=> (m \in Given(bid) \/ day # None)
        /\ bid'.fills[p].aDay <=> (m \in Given(bid) \/ day # None)
    BY <1>2, <1>3, SeatOfAward DEF AwardIs
  <1>5. bid.last \in Filled(bid)
    BY <1>1 DEF Amend, Live, Shape, Documents, Opt, Filled
  <1>6. Seat(bid, m) = bid.last /\ (bid.fills[bid.last].aDay <=> m \in Given(bid))
    BY <1>2, <1>3, <1>5 DEF Seat, Evaluable, Given
  <1>7. \/ m \notin bid.picks
        \/ m \in Carrying(bid', Recorded(m, day, FALSE))
        \/ SeatShift(bid', m) = SeatShift(bid, m)
    <2>1. SUFFICES ASSUME m \in bid.picks, SeatShift(bid', m) # SeatShift(bid, m)
                   PROVE  m \in Carrying(bid', Recorded(m, day, FALSE))
      OBVIOUS
    <2>2. ShiftOf[p] # ShiftOf[bid.last]
      BY <1>4, <1>6, <2>1 DEF SeatShift
    <2>3. day # None \/ m \in Given(bid)
      BY <1>2, <1>6, <2>1, <2>2 DEF LatePicksStay, MovesLatePick
    <2>4. Recorded(m, day, FALSE).day[m] = IF day # None THEN day ELSE alloc.day[m]
      BY <1>4, <2>3 DEF Recorded
    <2>5. Recorded(m, day, FALSE).day[m] # None
      BY <2>3, <2>4 DEF Agree
    <2>6. QED
      BY <1>4, <2>5 DEF Carrying
  <1>8. Evaluated(Recorded(m, day, FALSE), None, m)
    BY <1>2 DEF Amending
  <1>9. QED
    BY <1>2, <1>7, <1>8, RecordedSeated

LEMMA CorrectingSeated ==
  ASSUME Agree, Seated, Live(bid), Live(bid'),
         \/ \E m \in Members, day \in Days : DirectDay(m, day)
         \/ \E m \in Members, override \in BOOLEAN : Revoke(m, override)
         \/ \E m \in Members, p \in Positions, day \in Days \cup {None}, override \in BOOLEAN :
              Replace(m, p, day, override)
  PROVE  Kept'
  <1>1. ASSUME NEW m \in Members, NEW day \in Days, DirectDay(m, day)
        PROVE  Kept'
    <2>1. OthersKept(bid', m) /\ Evaluated(Recorded(m, day, TRUE), m, m)
      BY <1>1, DirectADayAwards DEF DirectDay
    <2>2. QED
      BY <2>1, RecordedSeated
  <1>2. ASSUME NEW m \in Members, NEW override \in BOOLEAN, Revoke(m, override)
        PROVE  Kept'
    <2>1. /\ OthersKept(bid', m)
          /\ Evaluated(Recorded(m, None, TRUE), Overriding(m, override), m)
      BY <1>2, RevokeAwards DEF Revoke
    <2>2. QED
      BY <2>1, RecordedSeated
  <1>3. ASSUME NEW m \in Members, NEW p \in Positions, NEW day \in Days \cup {None},
               NEW override \in BOOLEAN, Replace(m, p, day, override)
        PROVE  Kept'
    <2>1. CorrectReplace(m, p, day # None, override) /\ (day # None) \in BOOLEAN
      BY <1>3 DEF Replace
    <2>2. OthersKept(bid', m)
      BY <2>1, ReplaceAwards
    <2>3. Evaluated(Recorded(m, day, TRUE), Overriding(m, override), m)
      BY <1>3 DEF Replace
    <2>4. QED
      BY <2>2, <2>3, RecordedSeated
  <1>4. QED
    BY <1>1, <1>2, <1>3

\* All of this speaks of the awards and the allocation only.
LEMMA KeptWithAwards ==
  ASSUME Kept, bid'.fills = bid.fills, alloc' = alloc
  PROVE  Kept'
  <1>1. /\ \A m : SeatShift(bid', m) = SeatShift(bid, m)
        /\ \A c, m : InScope(bid', c, m) = InScope(bid, c, m)
        /\ \A k : Approved(bid', alloc', k) = Approved(bid, alloc, k)
    BY DEF SeatShift, Seat, Filled, InScope, Awarded, Approved
  <1>2. Unapproved' = Unapproved
    BY <1>1 DEF Unapproved, Picks
  <1>3. \A P, shift, day : OnSeatShift(P, shift, day)' = OnSeatShift(P, shift, day)
    BY <1>1 DEF OnSeatShift
  <1>4. Seated' /\ CapacityKept'
    BY <1>1, <1>2, <1>3 DEF Kept, Seated, SeatedOn, CapacityKept
  <1>5. /\ Carrying(bid', alloc') = Carrying(bid, alloc)
        /\ \A m : Carried(bid', alloc', m) = Carried(bid, alloc, m)
    BY <1>1 DEF Carrying, Carried, Awarded, Filled
  <1>6. Current'
    BY <1>5 DEF Kept, Current
  <1>7. OnValidDays'
    BY <1>1 DEF Kept, OnValidDays
  <1>8. QED
    BY <1>4, <1>6, <1>7 DEF Kept

LEMMA NextKept ==
  ASSUME Agree, Kept, Live(bid), Live(bid'), ADayNext, LatePicksStay
  PROVE  Kept'
  <1>0. Seated
    BY DEF Kept
  <1>1. ASSUME NEW d \in Dispositions, Answer(d)
        PROVE  Kept'
    BY <1>0, <1>1, DispositionStepped, QuietSeated DEF Answer
  <1>2. ASSUME Complete
        PROVE  Kept'
    BY <1>0, <1>2, CompleteStepped, QuietSeated DEF Complete, SamePeople
  <1>3. ASSUME Interrupt
        PROVE  Kept'
    <2>1. bid'.fills = bid.fills /\ alloc' = alloc
      BY <1>3, PauseStepped DEF Interrupt, SamePeople
    <2>2. QED
      BY <2>1, KeptWithAwards
  <1>4. QED
    BY <1>0, <1>1, <1>2, <1>3, SelectingSeated, PickLaterSeated, AmendingSeated, CorrectingSeated
       DEF ADayNext

LEMMA KeptAtFirst ==
  ASSUME ADayInit
  PROVE  Kept
  <1>1. alloc.picks = <<>>
    BY DEF ADayInit
  <1>2. \A k : ~Has(<<>>, k)
    BY DEF Has
  <1>3. Seated /\ Current /\ OnValidDays
    BY <1>1, <1>2 DEF Seated, SeatedOn, Current, OnValidDays
  <1>4. Unapproved = {}
    BY <1>1 DEF Unapproved, Picks
  <1>5. WithinLimits(bid, alloc, Unapproved)
    <2>1. <<>> \in Seq(PickRecords) /\ DOMAIN <<>> = {} /\ SeatedOn(bid, <<>>)
      BY <1>2 DEF SeatedOn
    <2>2. QED
      BY <1>4, <2>1, FineKeepsLimits
  <1>6. CapacityKept
    BY <1>5 DEF WithinLimits, CapacityKept, OnSeatShift
  <1>7. QED
    BY <1>3, <1>6 DEF Kept

LEMMA AlwaysKept ==
  ADaySpec /\ [][LatePicksStay]_vars => [](Agree /\ Kept /\ LiveInvariant)
  <1>1. ADayInit => Agree /\ Kept
    BY AgreeAtFirst, KeptAtFirst
  <1>2. Agree /\ Kept /\ LiveInvariant /\ LiveInvariant' /\ [ADayNext]_vars /\ [LatePicksStay]_vars
          => (Agree /\ Kept)'
    <2> SUFFICES ASSUME Agree, Kept, LiveInvariant, LiveInvariant',
                        [ADayNext]_vars, [LatePicksStay]_vars
                 PROVE  Agree' /\ Kept'
      OBVIOUS
    <2>1. CASE UNCHANGED vars
      <3>1. bid' = bid /\ alloc' = alloc
        BY <2>1 DEF vars
      <3>2. Agree'
        BY <3>1 DEF Agree, Given, Filled
      <3>3. QED
        BY <3>1, <3>2, KeptWithAwards
    <2>2. CASE ADayNext /\ LatePicksStay
      BY <2>2, NextAgrees, NextKept DEF LiveInvariant
    <2>3. QED
      BY <2>1, <2>2
  <1>3. ADaySpec => []LiveInvariant
    BY ADaysImplementLiveBid, AlwaysLive, PTL
  <1>4. QED
    BY <1>1, <1>2, <1>3, PTL DEF ADaySpec

\* CapacityKept: whatever was forced, corrected and amended in between, the members
\* who are off on one day of their shift without an approved departure keep within
\* the limits of the group, of the officers and of each scope, as long as no
\* amendment moves a late pick to another shift: the run aday_shifts shows what
\* happens then.
THEOREM CapacityAlwaysKept == ADaySpec /\ [][LatePicksStay]_vars => []CapacityKept
  <1>1. Agree /\ Kept /\ LiveInvariant => CapacityKept
    BY DEF Kept
  <1>2. QED
    BY <1>1, AlwaysKept, PTL

-----------------------------------------------------------------------------
(* An accepted allocation replayed: ordinary picks come first, so each of  *)
(* them meets ordinary picks only, and the limits hold for all together.   *)

LEMMA OrdinaryBefore ==
  ASSUME NEW s, NEW a, NEW selects,
         Retimed(s, a) \in Seq(PickRecords), OnePickEach(Retimed(s, a)),
         NEW i \in DOMAIN ReplayOrder(s, a, selects),
         ReplayOrder(s, a, selects)[i].member # selects,
         ~Approved(s, a, ReplayOrder(s, a, selects)[i]),
         NEW j \in 1 .. i - 1
  PROVE  /\ j \in DOMAIN ReplayOrder(s, a, selects)
         /\ ~Approved(s, a, ReplayOrder(s, a, selects)[j])
  <1> DEFINE picks     == Retimed(s, a)
             proposed  == {k \in Range(picks) : k.member = selects}
             departing == {k \in Range(picks) \ proposed : Approved(s, a, k)}
             ordinary  == Range(picks) \ (proposed \cup departing)
             first     == Among(picks, ordinary)
             second    == Among(picks, departing)
             last      == Among(picks, proposed)
             replay    == (first \o second) \o last
  <1>1. ReplayOrder(s, a, selects) = replay
    BY DEF ReplayOrder, OrdinaryFirst
  <1>2. /\ \A k \in departing : Approved(s, a, k)
        /\ \A k \in proposed : k.member = selects
        /\ \A k \in ordinary : ~Approved(s, a, k)
    OBVIOUS
  <1>3. picks \in Seq(PickRecords) /\ OnePickEach(picks)
    OBVIOUS
  <1> HIDE DEF ordinary, departing, proposed, picks
  <1>4. /\ first \in Seq(PickRecords) /\ Lists(first, picks, ordinary)
        /\ second \in Seq(PickRecords) /\ Lists(second, picks, departing)
        /\ last \in Seq(PickRecords) /\ Lists(last, picks, proposed)
    BY <1>3, AmongPicks
  <1> HIDE DEF first, second, last
  <1>5. /\ \A l \in DOMAIN first : first[l] \in ordinary
        /\ \A l \in DOMAIN second : second[l] \in departing
        /\ \A l \in DOMAIN last : last[l] \in proposed
    BY <1>4 DEF Lists, Has
  <1> DEFINE n1 == Len(first)
             n2 == Len(second)
             n3 == Len(last)
  <1>6. /\ n1 \in Nat /\ n2 \in Nat /\ n3 \in Nat
        /\ DOMAIN first = 1 .. n1 /\ DOMAIN second = 1 .. n2 /\ DOMAIN last = 1 .. n3
        /\ DOMAIN replay = 1 .. n1 + n2 + n3
        /\ \A l \in 1 .. n1 : replay[l] = first[l]
        /\ \A l \in 1 .. n2 : replay[n1 + l] = second[l]
        /\ \A l \in 1 .. n3 : replay[n1 + n2 + l] = last[l]
    BY <1>4
  <1> HIDE DEF replay, n1, n2, n3
  <1>7. i \in DOMAIN replay /\ replay[i].member # selects /\ ~Approved(s, a, replay[i])
    BY <1>1
  <1>8. i \in 1 .. n1
    <2>1. CASE i > n1 + n2
      <3>1. i - (n1 + n2) \in 1 .. n3 /\ i = n1 + n2 + (i - (n1 + n2))
        BY <1>6, <1>7, <2>1, SMTT(30)
      <3>2. replay[i] \in proposed
        BY <1>5, <1>6, <3>1
      <3>3. QED
        BY <1>2, <1>7, <3>2
    <2>2. CASE i > n1 /\ i <= n1 + n2
      <3>1. i - n1 \in 1 .. n2 /\ i = n1 + (i - n1)
        BY <1>6, <1>7, <2>2, SMTT(30)
      <3>2. replay[i] \in departing
        BY <1>5, <1>6, <3>1
      <3>3. QED
        BY <1>2, <1>7, <3>2
    <2>3. QED
      BY <1>6, <1>7, <2>1, <2>2
  <1>9. j \in 1 .. n1 /\ j \in DOMAIN replay
    BY <1>6, <1>8
  <1>10. ~Approved(s, a, replay[j])
    BY <1>2, <1>5, <1>6, <1>9
  <1>11. QED
    BY <1>1, <1>9, <1>10

\* The picks of the accepted allocation are those of its awards.
LEMMA RetimedAgain ==
  ASSUME Agree, Kept, Live(bid)
  PROVE  /\ Retimed(bid, alloc) \in Seq(PickRecords) /\ OnePickEach(Retimed(bid, alloc))
         /\ \A k : Has(Retimed(bid, alloc), k) => Has(alloc.picks, k)
  <1>1. Awarded(bid) \subseteq Members /\ Given(bid) \subseteq bid.picks
    BY DEF Live, Paid, Shape, Documents, Awarded, Filled, Opt, Awards
  <1>2. /\ Retimed(bid, alloc) \in Seq(PickRecords) /\ OnePickEach(Retimed(bid, alloc))
        /\ \A k : Has(Retimed(bid, alloc), k) =>
             \/ k \in Staying(bid, alloc)
             \/ k.member \in Carrying(bid, alloc) /\ k = Carried(bid, alloc, k.member)
    BY <1>1, RetimedPicks DEF Agree, Sound
  <1>3. ASSUME NEW k, Has(Retimed(bid, alloc), k)
        PROVE  Has(alloc.picks, k)
    <2>1. CASE k \in Staying(bid, alloc)
      BY <2>1 DEF Staying, Range, Has
    <2>2. CASE k.member \in Carrying(bid, alloc) /\ k = Carried(bid, alloc, k.member)
      <3>1. k.member \in Members /\ alloc.day[k.member] # None
        BY <1>1, <2>2 DEF Carrying
      <3>2. k.member \in PickersOf(alloc.picks)
        BY <1>1, <3>1 DEF Agree
      <3>3. PICK l : Has(alloc.picks, l) /\ l.member = k.member
        BY <3>2 DEF PickersOf, Has
      <3>4. l = Carried(bid, alloc, l.member)
        BY <2>2, <3>3 DEF Kept, Current
      <3>5. QED
        BY <2>2, <3>3, <3>4
    <2>3. QED
      BY <1>2, <1>3, <2>1, <2>2
  <1>4. QED
    BY <1>2, <1>3

\* Of some ordinary picks that keep a limit, those before one of them leave room.
LEMMA RoomForOne ==
  ASSUME NEW T, IsFiniteSet(T), NEW k \in T, NEW B, B \subseteq T \ {k},
         NEW n \in Nat, Cardinality(T) <= n
  PROVE  /\ IsFiniteSet(B) /\ Cardinality(B) \in Nat /\ Cardinality(B) + 1 <= n
  <1> DEFINE R == T \ {k}
  <1>1. IsFiniteSet(R) /\ Cardinality(R) \in Nat
    BY FS_Subset, FS_CardinalityType
  <1>2. T = R \cup {k} /\ k \notin R
    OBVIOUS
  <1>3. IsFiniteSet(B) /\ Cardinality(B) <= Cardinality(R) /\ Cardinality(B) \in Nat
    BY <1>1, FS_Subset, FS_CardinalityType
  <1> HIDE DEF R
  <1>4. Cardinality(T) = Cardinality(R) + 1
    BY <1>1, <1>2, FS_AddElement
  <1>5. QED
    BY <1>1, <1>3, <1>4

\* The look-ahead over the officers who have still to pick, at place i of a replay.
ShortOfOfficers(s, a, replay, i) ==
  LET m     == replay[i].member
      shift == SeatShift(s, m)
      e     == EngineAt(s, a, replay, i)
  IN /\ Exact # None /\ ~s.incomplete
     /\ OfficerShortfall(e, m, shift) > OfficersRemaining(e, m, shift)

\* What the replay of the accepted allocation has before an ordinary pick.
LEMMA BeforeOrdinary ==
  ASSUME Agree, Kept, Live(bid), NEW replay, replay = ReplayOrder(bid, alloc, None),
         NEW i \in DOMAIN replay, ~Approved(bid, alloc, replay[i])
  PROVE  /\ replay[i] \in Unapproved /\ replay[i] \in PickRecords
         /\ replay[i].shift = SeatShift(bid, replay[i].member)
         /\ EngineAt(bid, alloc, replay, i).picks \subseteq Unapproved \ {replay[i]}
         /\ \A k \in Unapproved : k.shift = SeatShift(bid, k.member)
         /\ IsFiniteSet(Unapproved)
  <1>1. /\ Retimed(bid, alloc) \in Seq(PickRecords) /\ OnePickEach(Retimed(bid, alloc))
        /\ \A k : Has(Retimed(bid, alloc), k) => Has(alloc.picks, k)
    BY RetimedAgain
  <1>2. /\ replay \in Seq(PickRecords) /\ OnePickEach(replay)
        /\ \A k : Has(replay, k) <=> Has(Retimed(bid, alloc), k)
    BY <1>1, ReplayHolds
  <1>3. \A j \in DOMAIN replay : replay[j] \in Picks /\ replay[j] \in PickRecords
    <2>1. \A k : Has(alloc.picks, k) => k \in Picks
      BY DEF Has, Picks
    <2>2. \A j \in DOMAIN replay : Has(replay, replay[j])
      BY DEF Has
    <2>3. QED
      BY <1>1, <1>2, <2>1, <2>2
  <1>4. None \notin Members
    BY BidPolicy
  <1>5. replay[i].member # None
    BY <1>3, <1>4 DEF PickRecords
  <1>6. \A j \in 1 .. i - 1 : j \in DOMAIN replay /\ ~Approved(bid, alloc, replay[j])
    BY <1>1, <1>5, OrdinaryBefore
  <1>7. \A j \in 1 .. i - 1 : replay[j] # replay[i]
    <2>1. SUFFICES ASSUME NEW j \in 1 .. i - 1, replay[j] = replay[i] PROVE FALSE
      OBVIOUS
    <2>2. j = i
      BY <1>2, <1>6, <2>1 DEF OnePickEach
    <2>3. i \in Nat
      BY <1>2
    <2>4. QED
      BY <2>2, <2>3
  <1>8. EngineAt(bid, alloc, replay, i).picks \subseteq Unapproved \ {replay[i]}
    <2>1. EngineAt(bid, alloc, replay, i).picks = {replay[j] : j \in 1 .. i - 1}
      BY DEF EngineAt, Engine
    <2>2. QED
      BY <1>3, <1>6, <1>7, <2>1 DEF Unapproved
  <1>9. \A k \in Unapproved : k.shift = SeatShift(bid, k.member)
    BY DEF Unapproved, Picks, Kept, Seated, SeatedOn, Has
  <1>10. IsFiniteSet(Unapproved)
    <2> DEFINE f == [j \in DOMAIN alloc.picks |-> alloc.picks[j]]
    <2>1. f \in Surjection(DOMAIN alloc.picks, Picks)
      BY DEF Surjection, Picks
    <2>2. IsFiniteSet(DOMAIN alloc.picks)
      <3>1. Len(alloc.picks) \in Nat /\ DOMAIN alloc.picks = 1 .. Len(alloc.picks)
        BY DEF Agree, Sound
      <3>2. QED
        BY <3>1, FS_Interval
    <2>3. IsFiniteSet(Picks)
      BY <2>1, <2>2, FS_Surjection
    <2>4. Unapproved \subseteq Picks
      BY DEF Unapproved
    <2>5. QED
      BY <2>3, <2>4, FS_Subset
  <1>11. replay[i] \in Unapproved /\ replay[i] \in PickRecords
    BY <1>3 DEF Unapproved
  <1>12. QED
    BY <1>8, <1>9, <1>10, <1>11

LEMMA OrdinaryPasses ==
  ASSUME Agree, Kept, Live(bid), NEW replay, replay = ReplayOrder(bid, alloc, None),
         NEW i \in DOMAIN replay, ~Approved(bid, alloc, replay[i]),
         ~ShortOfOfficers(bid, alloc, replay, i)
  PROVE  ~NotEnabled(replay[i])
         /\ Objections(EngineAt(bid, alloc, replay, i), replay[i].member, replay[i].day) = {}
  <1> DEFINE k     == replay[i]
             m     == k.member
             day   == k.day
             shift == SeatShift(bid, m)
             e     == EngineAt(bid, alloc, replay, i)
             there(g) == OnSeatShift(Unapproved, shift, g)
  <1>1. /\ k \in Unapproved /\ k \in PickRecords /\ k.shift = shift
        /\ e.picks \subseteq Unapproved \ {k} /\ IsFiniteSet(Unapproved)
        /\ \A l \in Unapproved : l.shift = SeatShift(bid, l.member)
    BY BeforeOrdinary
  <1>2. e.doc = bid /\ e.incomplete = bid.incomplete
    BY DEF EngineAt, Engine
  <1>3. shift \in Shifts /\ day \in Days /\ k \in there(day)
    BY <1>1 DEF PickRecords, OnSeatShift
  <1>4. \A g : /\ IsFiniteSet(there(g)) /\ OnDay(e.picks, shift, g) \subseteq there(g)
               /\ k \notin OnDay(e.picks, shift, g)
    <2>1. SUFFICES ASSUME NEW g
                   PROVE  /\ IsFiniteSet(there(g)) /\ OnDay(e.picks, shift, g) \subseteq there(g)
                          /\ k \notin OnDay(e.picks, shift, g)
      OBVIOUS
    <2>2. there(g) \subseteq Unapproved
      BY DEF OnSeatShift
    <2>3. IsFiniteSet(there(g))
      BY <1>1, <2>2, FS_Subset
    <2>4. OnDay(e.picks, shift, g) \subseteq there(g) /\ k \notin OnDay(e.picks, shift, g)
      BY <1>1 DEF OnDay, OnSeatShift
    <2>5. QED
      BY <2>3, <2>4
  <1>5. \A g \in Days :
          /\ shift # "D" =>
               /\ Cardinality(there(g)) <= IF g \in Enabled THEN Maximum ELSE 0
               /\ Exact # None => Cardinality({l \in there(g) : l.member \in Officers}) <= Exact
          /\ \A c \in Scoped :
               shift \in c.shifts =>
                 Cardinality({l \in there(g) : InScope(bid, c, l.member)}) <= c.maximum
    BY <1>3 DEF Kept, CapacityKept
  <1>6. ~ShortOfOfficers(bid, alloc, replay, i)
    OBVIOUS
  <1> HIDE DEF there, e, k
  <1>7. shift # "D" => day \in Enabled /\ ~(Cardinality(OnDay(e.picks, shift, day)) >= Maximum)
    <2>1. SUFFICES ASSUME shift # "D"
                   PROVE  day \in Enabled /\ ~(Cardinality(OnDay(e.picks, shift, day)) >= Maximum)
      OBVIOUS
    <2> DEFINE n == IF day \in Enabled THEN Maximum ELSE 0
               B == OnDay(e.picks, shift, day)
               T == there(day)
    <2>2. n \in Nat /\ Cardinality(T) <= n /\ IsFiniteSet(T) /\ k \in T /\ B \subseteq T \ {k}
      BY <1>3, <1>4, <1>5, <2>1, ADayPolicy
    <2> HIDE DEF n, B, T
    <2>3. Cardinality(B) \in Nat /\ Cardinality(B) + 1 <= n
      BY <2>2, RoomForOne
    <2>4. day \in Enabled
      BY <2>3 DEF n
    <2>5. QED
      BY <2>2, <2>3, <2>4 DEF n, B
  <1>8. ~ScopeFull(e, m, shift, day)
    <2>1. SUFFICES ASSUME NEW c \in Scoped, shift \in c.shifts, InScope(bid, c, m),
                          Cardinality({l \in OnDay(e.picks, shift, day) : InScope(bid, c, l.member)})
                            >= c.maximum
                   PROVE  FALSE
      BY <1>2 DEF ScopeFull
    <2> DEFINE B == {l \in OnDay(e.picks, shift, day) : InScope(bid, c, l.member)}
               T == {l \in there(day) : InScope(bid, c, l.member)}
    <2>2. c.maximum \in Nat
      BY ADayPolicy
    <2>3. T \subseteq there(day) /\ k \in T /\ B \subseteq T \ {k}
      BY <1>3, <1>4, <2>1
    <2>4. Cardinality(T) <= c.maximum /\ IsFiniteSet(T)
      BY <1>3, <1>4, <1>5, <2>1, <2>3, FS_Subset
    <2>5. Cardinality(B) >= c.maximum
      BY <2>1
    <2> HIDE DEF B, T
    <2>6. Cardinality(B) \in Nat /\ Cardinality(B) + 1 <= c.maximum
      BY <2>2, <2>3, <2>4, RoomForOne
    <2>7. QED
      BY <2>2, <2>5, <2>6
  <1>9. ASSUME Exact # None, shift # "D", NEW g \in Groups
        PROVE  ~(OfficersAfter(e, m, shift, day, g) > Required(g))
    <2> DEFINE B == OfficersOn(e.picks, shift, g)
               T == {l \in there(g) : l.member \in Officers}
               n == Required(g)
    <2>1. n \in Nat /\ g \in Days
      BY <1>9, ADayPolicy DEF Required, Days
    <2>2. T \subseteq there(g) /\ B \subseteq T /\ k \notin B
      BY <1>4 DEF OfficersOn
    <2>3. IsFiniteSet(T) /\ Cardinality(T) \in Nat /\ Cardinality(T) <= Cardinality(there(g))
          /\ Cardinality(there(g)) \in Nat
      BY <1>4, <2>2, FS_Subset, FS_CardinalityType
    <2>4. IsFiniteSet(B) /\ Cardinality(B) \in Nat /\ Cardinality(B) <= Cardinality(T)
      BY <2>2, <2>3, FS_Subset, FS_CardinalityType
    <2>5. Cardinality(T) <= n
      <3>1. CASE g \in Enabled
        BY <1>5, <1>9, <2>1, <3>1 DEF Required
      <3>2. CASE g \notin Enabled
        <4>1. Cardinality(there(g)) <= 0
          BY <1>5, <1>9, <2>1, <3>2
        <4> HIDE DEF T
        <4>2. QED
          BY <2>3, <3>2, <4>1 DEF Required
      <3>3. QED
        BY <3>1, <3>2
    <2>6. CASE g = day /\ m \in Officers
      <3>1. k \in T
        BY <1>3, <2>6
      <3>2. B \subseteq T \ {k}
        BY <2>2
      <3> HIDE DEF B, T, n
      <3>3. Cardinality(B) + 1 <= n
        BY <2>1, <2>3, <2>5, <3>1, <3>2, RoomForOne
      <3>4. OfficersAfter(e, m, shift, day, g) = Cardinality(B) + 1
        BY <2>6 DEF OfficersAfter, B
      <3>5. QED
        BY <2>1, <2>4, <3>3, <3>4 DEF n
    <2>7. CASE ~(g = day /\ m \in Officers)
      <3>1. OfficersAfter(e, m, shift, day, g) = Cardinality(B) + 0
        BY <2>7 DEF OfficersAfter
      <3> HIDE DEF B, T, n
      <3>2. QED
        BY <2>1, <2>3, <2>4, <2>5, <3>1 DEF n
    <2>8. QED
      BY <2>6, <2>7
  <1>10. ~OfficersInfeasible(e, m, shift, day)
    <2>1. CASE Exact = None \/ shift = "D"
      BY <2>1 DEF OfficersInfeasible
    <2>2. CASE Exact # None /\ shift # "D"
      <3>1. ~\E g \in Groups : OfficersAfter(e, m, shift, day, g) > Required(g)
        BY <1>9, <2>2
      <3>2. e.incomplete \/ ~(OfficerShortfall(e, m, shift) > OfficersRemaining(e, m, shift))
        BY <1>2, <1>6, <2>2 DEF ShortOfOfficers, e, k
      <3>3. QED
        BY <3>1, <3>2 DEF OfficersInfeasible
    <2>3. QED
      BY <2>1, <2>2
  <1>11. ~GroupFull(e, shift, day)
    BY <1>7 DEF GroupFull
  <1>12. Objections(e, m, day) = {}
    BY <1>2, <1>8, <1>10, <1>11 DEF Objections
  <1>13. ~NotEnabled(k)
    BY <1>1, <1>7 DEF NotEnabled
  <1>14. QED
    BY <1>12, <1>13 DEF e, k

LEMMA ReplayedButForOfficers ==
  ASSUME Agree, Kept, Live(bid), ~Replayable
  PROVE  \E i \in DOMAIN ReplayOrder(bid, alloc, None) :
           /\ ~Approved(bid, alloc, ReplayOrder(bid, alloc, None)[i])
           /\ ShortOfOfficers(bid, alloc, ReplayOrder(bid, alloc, None), i)
  <1> DEFINE replay == ReplayOrder(bid, alloc, None)
  <1>1. PICK i \in DOMAIN replay : ~Passes(bid, alloc, replay, None, i)
    BY DEF Replayable, Allocates
  <1>2. ValidADay(SeatShift(bid, replay[i].member), replay[i].day)
    <2>1. Has(replay, replay[i])
      BY DEF Has
    <2>2. Has(alloc.picks, replay[i])
      BY <2>1, RetimedAgain, ReplayHolds
    <2>3. QED
      BY <2>2 DEF Kept, OnValidDays
  <1>3. ~Approved(bid, alloc, replay[i])
    BY <1>1, <1>2 DEF Passes
  <1>4. ShortOfOfficers(bid, alloc, replay, i)
    <2>1. ~(/\ ~NotEnabled(replay[i])
            /\ Objections(EngineAt(bid, alloc, replay, i), replay[i].member, replay[i].day) = {})
      BY <1>1, <1>2 DEF Passes
    <2>2. QED
      BY <1>3, <2>1, OrdinaryPasses
  <1>5. QED
    BY <1>3, <1>4

LEMMA NoOfficersNoShortfall ==
  ASSUME Agree, Kept, Live(bid), Exact = 0, NEW i \in DOMAIN ReplayOrder(bid, alloc, None),
         ~Approved(bid, alloc, ReplayOrder(bid, alloc, None)[i])
  PROVE  ~ShortOfOfficers(bid, alloc, ReplayOrder(bid, alloc, None), i)
  <1> DEFINE replay == ReplayOrder(bid, alloc, None)
             m      == replay[i].member
             shift  == SeatShift(bid, m)
             e      == EngineAt(bid, alloc, replay, i)
             chosen == {k \in e.picks : k.shift = shift /\ k.member \in Officers}
             to     == {j \in DOMAIN e.order :
                          /\ \E l \in 1 .. j : \A k \in e.picks : k.member # e.order[l]
                          /\ e.order[j] # m /\ e.order[j] \in Officers
                          /\ SeatShift(e.doc, e.order[j]) = shift}
  <1>1. Cardinality(chosen) \in Nat
    <2>1. IsFiniteSet(Unapproved) /\ e.picks \subseteq Unapproved
      BY BeforeOrdinary
    <2>2. chosen \subseteq Unapproved
      BY <2>1
    <2>3. IsFiniteSet(chosen)
      BY <2>1, <2>2, FS_Subset
    <2>4. QED
      BY <2>3, FS_CardinalityType
  <1>2. Cardinality(to) \in Nat
    <2>1. e.order = Phase2Order(bid, alloc)
      BY DEF EngineAt, Engine
    <2>2. bid.order \in Seq(Turn)
      BY DEF Live, Shape, Documents
    <2>3. IsFiniteSet(DOMAIN e.order)
      <3> DEFINE waiting == {n \in Awarded(bid) : alloc.day[n] = None
                                                  /\ n \in bid.picks \cup Range(bid.owing)}
                 entries == Among(bid.order, {t \in Turn : t.member \in waiting})
      <3>1. entries \in Seq(Turn)
        BY <2>2, AmongFilters DEF Filtered
      <3>2. DOMAIN e.order = DOMAIN entries
        BY <2>1 DEF Phase2Order
      <3> HIDE DEF entries
      <3>3. Len(entries) \in Nat /\ DOMAIN entries = 1 .. Len(entries)
        BY <3>1
      <3>4. IsFiniteSet(1 .. Len(entries))
        <4>1. 1 \in Int /\ Len(entries) \in Int
          BY <3>3
        <4>2. QED
          BY ONLY <4>1, FS_Interval
      <3>5. QED
        BY <3>2, <3>3, <3>4
    <2>4. to \subseteq DOMAIN e.order
      OBVIOUS
    <2> HIDE DEF to, e
    <2>5. QED
      BY <2>3, <2>4, FS_Subset, FS_CardinalityType
  <1>3. OfficersRemaining(e, m, shift) = Cardinality(to)
    BY DEF OfficersRemaining
  <1>4. OfficerShortfall(e, m, shift)
          = Exact * Cardinality(Enabled) - Cardinality(chosen) - (IF m \in Officers THEN 1 ELSE 0)
    BY DEF OfficerShortfall
  <1>5. Exact * Cardinality(Enabled) = 0
    <2>1. IsFiniteSet(Enabled)
      BY ADayPolicy, FS_Subset
    <2>2. Cardinality(Enabled) \in Nat
      BY <2>1, FS_CardinalityType
    <2>3. QED
      BY <2>2
  <1> HIDE DEF chosen, to
  <1>6. ~(OfficerShortfall(e, m, shift) > OfficersRemaining(e, m, shift))
    <2> HIDE DEF e, m, shift
    <2>1. QED
      BY <1>1, <1>2, <1>3, <1>4, <1>5
  <1>7. QED
    BY <1>6 DEF ShortOfOfficers

\* Replayable, but for one reason: once an allocation is accepted, the same picks
\* are refused by a later command only if an ordinary pick then finds fewer officers
\* still to pick than its shift needs.  Capacities, scopes, officer totals and days
\* never refuse what they let through, in whichever order the picks were made.
THEOREM OnlyOfficersRefuse ==
  ADaySpec /\ [][LatePicksStay]_vars =>
    [](\/ Replayable
       \/ \E i \in DOMAIN ReplayOrder(bid, alloc, None) :
            /\ ~Approved(bid, alloc, ReplayOrder(bid, alloc, None)[i])
            /\ ShortOfOfficers(bid, alloc, ReplayOrder(bid, alloc, None), i))
  <1>1. Agree /\ Kept /\ LiveInvariant =>
          \/ Replayable
          \/ \E i \in DOMAIN ReplayOrder(bid, alloc, None) :
               /\ ~Approved(bid, alloc, ReplayOrder(bid, alloc, None)[i])
               /\ ShortOfOfficers(bid, alloc, ReplayOrder(bid, alloc, None), i)
    BY ReplayedButForOfficers DEF LiveInvariant
  <1>2. QED
    BY <1>1, AlwaysKept, PTL

\* Replayable: where no number of officers is wanted of a group, or none may choose
\* one, and as long as awards are still to come, no command is refused for what
\* earlier commands were allowed to pick.  The run aday_replay shows the rest.
THEOREM AcceptedAgain ==
  ADaySpec /\ [][LatePicksStay]_vars =>
    [](Exact \in {None, 0} \/ bid.incomplete => Replayable)
  <1>1. Agree /\ Kept /\ LiveInvariant =>
          (Exact \in {None, 0} \/ bid.incomplete => Replayable)
    <2>1. SUFFICES ASSUME Agree, Kept, Live(bid), Exact \in {None, 0} \/ bid.incomplete,
                          ~Replayable
                   PROVE  FALSE
      BY DEF LiveInvariant
    <2>2. PICK i \in DOMAIN ReplayOrder(bid, alloc, None) :
            /\ ~Approved(bid, alloc, ReplayOrder(bid, alloc, None)[i])
            /\ ShortOfOfficers(bid, alloc, ReplayOrder(bid, alloc, None), i)
      BY <2>1, ReplayedButForOfficers
    <2>3. Exact = 0
      BY <2>1, <2>2 DEF ShortOfOfficers
    <2>4. QED
      BY <2>1, <2>2, <2>3, NoOfficersNoShortfall
  <1>2. QED
    BY <1>1, AlwaysKept, PTL

===============================================================================
