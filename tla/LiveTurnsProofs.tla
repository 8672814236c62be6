---------------------------- MODULE LiveTurnsProofs ----------------------------
(***************************************************************************)
(* Proofs about LiveBid, for every frozen policy: the document keeps its   *)
(* shape, no command goes back behind the cursor, a turn that is given can *)
(* be answered, everybody is asked, nobody who has a seat is still waited  *)
(* for, and a specialty seat goes by the ranking.                          *)
(***************************************************************************)
EXTENDS LiveBid, WellFoundedInduction, TLAPS

-----------------------------------------------------------------------------
(* Numbers and sequences: the least element, induction, the filter Among.  *)

LEMMA LeastExists ==
  ASSUME NEW T, T \subseteq Nat, T # {}
  PROVE  \E x \in T : \A y \in T : x <= y
  <1>1. IsWellFoundedOn(OpToRel(<, Nat), Nat)
    BY NatLessThanWellFounded, Zenon
  <1>2. PICK x \in T : \A y \in T : ~ (<<y, x>> \in OpToRel(<, Nat))
    BY <1>1, WFMin
  <1>3. ASSUME NEW y \in T, y < x
        PROVE  <<y, x>> \in OpToRel(<, Nat)
    BY <1>3 DEF OpToRel
  <1>4. \A y \in T : ~(y < x)
    BY <1>2, <1>3, Zenon
  <1>5. QED
    BY <1>4

LEMMA FirstLeast ==
  ASSUME NEW T, T \subseteq Nat, T # {}
  PROVE  First(T) \in T /\ \A y \in T : First(T) <= y
  BY LeastExists DEF First

LEMMA InductOnSets ==
  ASSUME NEW S, 0 \in S, \A n \in Nat : n \in S => n + 1 \in S
  PROVE  Nat \subseteq S
  <1> DEFINE T == Nat \ S
  <1> SUFFICES ASSUME T # {} PROVE FALSE
    OBVIOUS
  <1>1. PICK x \in T : \A y \in T : x <= y
    <2>1. T \subseteq Nat
      OBVIOUS
    <2> HIDE DEF T
    <2>2. QED
      BY <2>1, LeastExists
  <1>2. x # 0 /\ x - 1 \in Nat
    BY SMT
  <1>3. x - 1 \in T
    BY <1>2
  <1>4. QED
    BY <1>1, <1>2, <1>3

\* f gives what the filter has kept after each of the first n entries.
Grow(q, x, T) == IF x \in T THEN Append(q, x) ELSE q

Keeping(s, T, n, f) ==
  f = [i \in 0 .. n |-> IF i = 0 THEN <<>> ELSE Grow(f[i - 1], s[i], T)]

LEMMA AmongKeeps ==
  ASSUME NEW s, Len(s) \in Nat, NEW T
  PROVE  \E f : Keeping(s, T, Len(s), f) /\ Among(s, T) = f[Len(s)]
  <1> DEFINE S == {n \in Nat : \E f : Keeping(s, T, n, f)}
  <1>1. 0 \in S
    <2> DEFINE f == [i \in 0 .. 0 |-> <<>>]
    <2>1. Keeping(s, T, 0, f)
      BY DEF Keeping
    <2>2. QED
      BY <2>1
  <1>2. ASSUME NEW n \in Nat, n \in S
        PROVE  n + 1 \in S
    <2>1. PICK f : Keeping(s, T, n, f)
      BY <1>2
    <2> DEFINE g == [i \in 0 .. n + 1 |-> IF i = n + 1 THEN Grow(f[n], s[n + 1], T) ELSE f[i]]
    <2>2. Keeping(s, T, n + 1, g)
      BY <2>1 DEF Keeping
    <2>3. QED
      BY <2>2
  <1>3. Nat \subseteq S
    <2> HIDE DEF S
    <2>1. QED
      BY <1>1, <1>2, InductOnSets
  <1> DEFINE f == CHOOSE f : Keeping(s, T, Len(s), f)
  <1>4. Keeping(s, T, Len(s), f)
    BY <1>3
  <1>5. Among(s, T) = f[Len(s)]
    BY DEF Among, Keeping, Grow
  <1>6. QED
    BY <1>4, <1>5

\* q is what is left of the first n entries of s: entries of s in T, none of
\* them missing, and up to the first that is not in T those at their place.
Filtered(s, S, T, n, q) ==
  /\ q \in Seq(S) /\ Len(q) <= n
  /\ \A j \in 1 .. Len(q) : q[j] \in T /\ \E i \in 1 .. n : q[j] = s[i]
  /\ \A i \in 1 .. n : s[i] \in T => \E j \in 1 .. Len(q) : q[j] = s[i]
  /\ \A k \in 0 .. n : (\A i \in 1 .. k : s[i] \in T)
                         => Len(q) >= k /\ \A i \in 1 .. k : q[i] = s[i]

LEMMA FilterNext ==
  ASSUME NEW S, NEW s \in Seq(S), NEW T, NEW n \in Nat, n + 1 <= Len(s),
         NEW q, Filtered(s, S, T, n, q)
  PROVE  Filtered(s, S, T, n + 1, Grow(q, s[n + 1], T))
  <1> DEFINE x == s[n + 1]
             a == Append(q, x)
  <1>1. x \in S /\ q \in Seq(S) /\ Len(q) \in Nat
    BY DEF Filtered
  <1>2. CASE x \notin T
    <2>1. \A k \in 0 .. n + 1 : (\A i \in 1 .. k : s[i] \in T) => k \in 0 .. n
      BY <1>2
    <2>2. QED
      BY <1>1, <1>2, <2>1 DEF Filtered, Grow
  <1>3. CASE x \in T
    <2>1. /\ a \in Seq(S) /\ Len(a) = Len(q) + 1 /\ a[Len(q) + 1] = x
          /\ \A j \in 1 .. Len(q) : a[j] = q[j]
      BY <1>1
    <2>2. \A j \in 1 .. Len(a) : a[j] \in T /\ \E i \in 1 .. n + 1 : a[j] = s[i]
      BY <1>1, <1>3, <2>1 DEF Filtered
    <2>3. \A i \in 1 .. n + 1 : s[i] \in T => \E j \in 1 .. Len(a) : a[j] = s[i]
      <3>1. SUFFICES ASSUME NEW i \in 1 .. n + 1, s[i] \in T
                     PROVE  \E j \in 1 .. Len(a) : a[j] = s[i]
        OBVIOUS
      <3>2. CASE i = n + 1
        BY <1>1, <2>1, <3>2
      <3>3. CASE i \in 1 .. n
        BY <1>1, <2>1, <3>1, <3>3 DEF Filtered
      <3>4. QED
        BY <3>2, <3>3
    <2>4. ASSUME NEW k \in 0 .. n + 1, \A i \in 1 .. k : s[i] \in T
          PROVE  Len(a) >= k /\ \A i \in 1 .. k : a[i] = s[i]
      <3>1. CASE k \in 0 .. n
        <4>1. Len(q) >= k /\ \A i \in 1 .. k : q[i] = s[i]
          BY <2>4, <3>1 DEF Filtered
        <4>2. QED
          BY <1>1, <2>1, <3>1, <4>1
      <3>2. CASE k = n + 1
        <4>1. n \in 0 .. n /\ \A i \in 1 .. n : s[i] \in T
          BY <2>4, <3>2
        <4>2. Len(q) >= n /\ \A i \in 1 .. n : q[i] = s[i]
          BY <4>1 DEF Filtered
        <4>3. Len(q) = n
          BY <1>1, <4>2 DEF Filtered
        <4>4. QED
          BY <2>1, <3>2, <4>2, <4>3
      <3>3. QED
        BY <3>1, <3>2
    <2>5. Len(a) <= n + 1
      BY <1>1, <2>1 DEF Filtered
    <2>6. QED
      BY <1>3, <2>1, <2>2, <2>3, <2>4, <2>5 DEF Filtered, Grow
  <1>4. QED
    BY <1>2, <1>3

LEMMA AmongFilters ==
  ASSUME NEW S, NEW s \in Seq(S), NEW T
  PROVE  Filtered(s, S, T, Len(s), Among(s, T))
  <1>1. PICK f : Keeping(s, T, Len(s), f) /\ Among(s, T) = f[Len(s)]
    BY AmongKeeps
  <1> DEFINE R == {n \in Nat : n <= Len(s) => Filtered(s, S, T, n, f[n])}
  <1> HIDE DEF R
  <1>2. /\ f[0] = <<>>
        /\ \A n \in 1 .. Len(s) : f[n] = Grow(f[n - 1], s[n], T)
    <2>1. Len(s) \in Nat
      OBVIOUS
    <2>2. QED
      BY <1>1, <2>1 DEF Keeping
  <1>3. 0 \in R
    <2>1. Filtered(s, S, T, 0, <<>>)
      BY DEF Filtered
    <2>2. QED
      BY <1>2, <2>1 DEF R
  <1>4. ASSUME NEW n \in Nat, n \in R
        PROVE  n + 1 \in R
    <2>1. SUFFICES ASSUME n + 1 <= Len(s) PROVE Filtered(s, S, T, n + 1, f[n + 1])
      BY DEF R
    <2>2. Filtered(s, S, T, n, f[n])
      BY <1>4, <2>1 DEF R
    <2>3. f[n + 1] = Grow(f[n], s[n + 1], T)
      BY <1>2, <2>1
    <2>4. QED
      BY <2>1, <2>2, <2>3, FilterNext
  <1>5. Nat \subseteq R
    BY <1>3, <1>4, InductOnSets
  <1>6. QED
    BY <1>1, <1>5 DEF R

-----------------------------------------------------------------------------
(* The shape of the document, and a turn that can be answered.             *)

Awards      == [member : Members, aDay : BOOLEAN, deferral : Opt(Positions)]
Revocations == [position : Positions, settled : BOOLEAN]
Reviews     == [seat : Positions, suspended : Members, candidates : Seq(Members), at : Nat]
Responses   == [seat : Positions, requester : Members, member : Members]

Documents ==
  [phase : Phases, held : Opt(Phases \ {"paused"}), cursor : Nat \ {0},
   bidder : Opt(Members), order : Seq(Turn), fills : [Positions -> Opt(Awards)],
   last : Opt(Positions), revoked : [Members -> Opt(Revocations)],
   picks : SUBSET Members, owing : Seq(Members), incomplete : BOOLEAN,
   completed : SUBSET StageIds, withdrawn : SUBSET Positions, acting : SUBSET Members,
   review : Opt(Reviews), responses : SUBSET Responses,
   disposition : [Members -> Opt(Dispositions)], unresolved : SUBSET Members,
   returning : Opt(Members), attempts : [Members -> Nat], sealed : BOOLEAN]

\* A position turn is the entry at the cursor; only a finished bid has no bidder.
TurnPlaced(s) ==
  /\ Executing(s) = "position_bid" =>
       s.cursor \in DOMAIN s.order /\ s.order[s.cursor].member = s.bidder
  /\ Executing(s) = "complete" <=> s.bidder = None

Shape(s) ==
  /\ s \in Documents /\ s.order # <<>>
  /\ (s.held # None) <=> (s.phase = "paused")
  /\ s.last # None => s.fills[s.last] # None
  /\ TurnPlaced(s)

\* The bidder has what the turn is for still to choose, also after the evaluation.
Answerable(s) ==
  /\ Executing(s) = "position_bid" =>
       /\ s.bidder \notin Awarded(s) \cup s.acting
       /\ ~TurnIsCompleted(s, s.order[s.cursor])
  /\ Executing(s) = "a_day_bid" => s.bidder \in Awarded(s) \ (s.picks \cup Given(s))

SameTurn(s, t) ==
  Executing(t) = Executing(s) /\ t.cursor = s.cursor /\ t.bidder = s.bidder

\* t is s with another turn at most.
Beside(s, t) ==
  /\ t.order = s.order /\ t.fills = s.fills /\ t.last = s.last /\ t.revoked = s.revoked
  /\ t.picks = s.picks /\ t.owing = s.owing /\ t.completed = s.completed
  /\ t.withdrawn = s.withdrawn /\ t.acting = s.acting /\ t.review = s.review
  /\ t.responses = s.responses /\ t.disposition = s.disposition
  /\ t.unresolved = s.unresolved /\ t.returning = s.returning /\ t.sealed = s.sealed

TurnRecords == [cursor : Nat \ {0}, bidder : Opt(Members), phase : Phases \ {"paused"}]

\* One seat each, so a member with an open A-Day has none in another award.
LEMMA OwingNotGiven ==
  ASSUME NEW s, Evaluable(s), NEW m, OwesADay(s, m)
  PROVE  m \in Awarded(s) \ (s.picks \cup Given(s))
  BY DEF OwesADay, DefersADay, Evaluable, Given, Awarded

LEMMA OrderTyped ==
  ASSUME NEW order \in Seq(Turn)
  PROVE  /\ Len(order) \in Nat /\ DOMAIN order = 1 .. Len(order)
         /\ \A i \in DOMAIN order :
              order[i] \in Turn /\ order[i].member \in Members /\ order[i].stage \in StageIds
  <1>1. \A t \in Turn : t.member \in Members /\ t.stage \in StageIds
    BY DEF Turn
  <1>2. QED
    BY <1>1

LEMMA DocumentOrder ==
  ASSUME NEW s \in Documents
  PROVE  s.order \in Seq(Turn)
  BY DEF Documents

\* nextAvailableFrom: what kind of turn it finds.
LEMMA NextAvailableFinds ==
  ASSUME NEW s, s \in Documents, NEW from \in Nat \ {0}, NEW turn,
         turn = NextAvailable(s, from)
  PROVE  /\ turn \in TurnRecords /\ turn.cursor >= from
         /\ \/ /\ turn.phase = "position_bid" /\ turn.cursor \in DOMAIN s.order
               /\ turn.bidder = s.order[turn.cursor].member
               /\ turn.bidder \notin Awarded(s) \cup s.acting
               /\ ~TurnIsCompleted(s, s.order[turn.cursor])
            \/ /\ turn.phase = "a_day_bid" /\ OwesADay(s, turn.bidder)
               /\ turn.bidder \in Members
               /\ turn.cursor \in DOMAIN s.order => s.order[turn.cursor].member = turn.bidder
            \/ /\ turn.phase = "complete" /\ turn.bidder = None
               /\ turn.cursor \notin DOMAIN s.order
         /\ \A i \in DOMAIN s.order :
              (i >= from /\ i < turn.cursor) => ~Offers(s, s.order[i])
  <1> DEFINE open == {i \in from .. Len(s.order) : Offers(s, s.order[i])}
             past == Larger(from, Len(s.order) + 1)
             owed == {i \in DOMAIN s.order : OffersADay(s, s.order[i])}
  <1>1. /\ s.order \in Seq(Turn) /\ Len(s.order) \in Nat /\ DOMAIN s.order = 1 .. Len(s.order)
        /\ \A i \in DOMAIN s.order : s.order[i].member \in Members
    BY DocumentOrder, OrderTyped
  <1>2. turn = TurnFound(s, open, past, owed)
    BY DEF NextAvailable
  <1>3. past \in Nat \ {0} /\ past >= from /\ past > Len(s.order)
    BY <1>1 DEF Larger
  <1>4. None \notin Members
    BY BidPolicy
  <1>5. open \subseteq Nat /\ owed \subseteq Nat
    BY <1>1
  <1> HIDE DEF past
  <1>6. CASE open # {}
    <2> DEFINE i == First(open)
    <2>1. i \in open /\ \A j \in open : i <= j
      BY <1>5, <1>6, FirstLeast
    <2>2. turn = TurnAtEntry(s, i)
      BY <1>2, <1>6 DEF TurnFound
    <2> HIDE DEF i
    <2>3. i \in DOMAIN s.order /\ i >= from /\ Offers(s, s.order[i])
      BY <1>1, <2>1
    <2>4. /\ turn.cursor = i /\ turn.bidder = s.order[i].member
          /\ turn.phase = IF s.order[i].member \in Awarded(s) THEN "a_day_bid"
                                                            ELSE "position_bid"
          /\ turn \in TurnRecords
      BY <1>1, <2>2, <2>3 DEF TurnAtEntry, TurnAt, TurnRecords, Opt, Phases
    <2>5. \A j \in DOMAIN s.order : (j >= from /\ j < i) => j \notin open
      BY <1>1, <2>1, <2>3
    <2>6. QED
      BY <1>1, <1>4, <2>3, <2>4, <2>5 DEF Offers, OffersADay
  <1>7. CASE open = {} /\ owed # {}
    <2> DEFINE i == First(owed)
    <2>1. i \in owed
      BY <1>5, <1>7, FirstLeast
    <2>2. turn = TurnAt(past, s.order[i].member, "a_day_bid")
      BY <1>2, <1>7 DEF TurnFound
    <2> HIDE DEF i
    <2>3. QED
      BY <1>1, <1>3, <1>7, <2>1, <2>2 DEF TurnAt, TurnRecords, Opt, Phases, OffersADay
  <1>8. CASE open = {} /\ owed = {}
    <2>1. turn = TurnAt(past, None, "complete")
      BY <1>2, <1>8 DEF TurnFound
    <2>2. QED
      BY <1>1, <1>3, <1>8, <2>1 DEF TurnAt, TurnRecords, Opt, Phases
  <1>9. QED
    BY <1>6, <1>7, <1>8

LEMMA TurnedShape ==
  ASSUME NEW s, s \in Documents, (s.held # None) <=> (s.phase = "paused"),
         NEW turn \in TurnRecords, NEW t, t = Turned(s, turn)
  PROVE  /\ t \in Documents /\ Beside(s, t)
         /\ t.cursor = turn.cursor /\ t.bidder = turn.bidder /\ Executing(t) = turn.phase
         /\ (t.held # None) <=> (t.phase = "paused")
  BY BidPolicy DEF Documents, TurnRecords, Turned, Beside, Executing, Opt, Phases

\* The turn that nextAvailableFrom gives can be answered.
LEMMA AdvanceShape ==
  ASSUME NEW s, s \in Documents, s.order # <<>>, (s.held # None) <=> (s.phase = "paused"),
         s.last # None => s.fills[s.last] # None,
         NEW from \in Nat \ {0}, NEW t, t = Advance(s, from)
  PROVE  /\ Shape(t) /\ (Evaluable(s) => Answerable(t)) /\ t.cursor >= from /\ Beside(s, t)
         /\ (Executing(t) = "a_day_bid" /\ t.cursor \in DOMAIN t.order)
              => t.order[t.cursor].member = t.bidder
         /\ Executing(t) = "complete" => t.cursor \notin DOMAIN t.order
         /\ \A i \in DOMAIN s.order :
              (i >= from /\ i < t.cursor) => ~Offers(s, s.order[i])
  <1> DEFINE turn == NextAvailable(s, from)
  <1>1. t = Turned(s, turn)
    BY DEF Advance
  <1>2. turn \in TurnRecords /\ turn.cursor >= from
    BY NextAvailableFinds
  <1>3. /\ t \in Documents /\ Beside(s, t)
        /\ t.cursor = turn.cursor /\ t.bidder = turn.bidder /\ Executing(t) = turn.phase
        /\ (t.held # None) <=> (t.phase = "paused")
    BY <1>1, <1>2, TurnedShape
  <1>4. \/ /\ turn.phase = "position_bid" /\ turn.cursor \in DOMAIN s.order
           /\ turn.bidder = s.order[turn.cursor].member
           /\ turn.bidder \notin Awarded(s) \cup s.acting
           /\ ~TurnIsCompleted(s, s.order[turn.cursor])
        \/ /\ turn.phase = "a_day_bid" /\ OwesADay(s, turn.bidder)
           /\ turn.bidder \in Members
           /\ turn.cursor \in DOMAIN s.order => s.order[turn.cursor].member = turn.bidder
        \/ /\ turn.phase = "complete" /\ turn.bidder = None
           /\ turn.cursor \notin DOMAIN s.order
    BY NextAvailableFinds
  <1>5. \A i \in DOMAIN s.order :
          (i >= from /\ i < turn.cursor) => ~Offers(s, s.order[i])
    BY NextAvailableFinds
  <1> HIDE DEF turn
  <1>6. Awarded(t) = Awarded(s) /\ Given(t) = Given(s)
    BY <1>3 DEF Beside, Awarded, Given, Filled
  <1>7. (Evaluable(s) /\ OwesADay(s, turn.bidder))
           => turn.bidder \in Awarded(s) \ (s.picks \cup Given(s))
    BY OwingNotGiven
  <1>8. None \notin Members /\ \A i \in DOMAIN s.order : s.order[i].member \in Members
    BY BidPolicy, DocumentOrder, OrderTyped
  <1>9. t.bidder \in Members \/ turn.phase = "complete"
    BY <1>3, <1>4, <1>8
  <1>10. TurnPlaced(t)
    BY <1>3, <1>4, <1>8, <1>9 DEF TurnPlaced, Beside
  <1>11. Evaluable(s) => Answerable(t)
    BY <1>3, <1>4, <1>6, <1>7 DEF Answerable, Beside, TurnIsCompleted
  <1>12. QED
    BY <1>2, <1>3, <1>4, <1>5, <1>10, <1>11 DEF Shape, Beside

-----------------------------------------------------------------------------
(* The other pieces: settled contacts, closed adjudications, evaluations.  *)

\* t is s with other contact cases at most.
BesideContacts(s, t) ==
  /\ t.order = s.order /\ t.fills = s.fills /\ t.last = s.last /\ t.revoked = s.revoked
  /\ t.picks = s.picks /\ t.owing = s.owing /\ t.completed = s.completed
  /\ t.withdrawn = s.withdrawn /\ t.acting = s.acting /\ t.review = s.review
  /\ t.responses = s.responses /\ t.disposition = s.disposition /\ t.sealed = s.sealed
  /\ t.phase = s.phase /\ t.held = s.held /\ t.cursor = s.cursor /\ t.bidder = s.bidder

LEMMA ReturnedShape ==
  ASSUME NEW s, Shape(s), NEW t, t = s \/ t = [s EXCEPT !.returning = None]
  PROVE  /\ Shape(t) /\ SameTurn(s, t) /\ BesideContacts(s, t)
         /\ t.unresolved = s.unresolved /\ t.returning \in {s.returning, None}
  <1>1. CASE t = s
    BY <1>1 DEF SameTurn, BesideContacts
  <1>2. CASE t = [s EXCEPT !.returning = None]
    <2>1. t \in Documents
      BY <1>2 DEF Shape, Documents, Opt
    <2>2. BesideContacts(s, t) /\ t.unresolved = s.unresolved /\ t.returning = None
      BY <1>2 DEF Shape, Documents, BesideContacts
    <2>3. QED
      BY <2>1, <2>2 DEF Shape, TurnPlaced, SameTurn, BesideContacts, Executing
  <1>3. QED
    BY <1>1, <1>2

LEMMA SettledShape ==
  ASSUME NEW s, Shape(s), NEW m, NEW t,
         t = SettleSelected(s, m) \/ t = SettleReturned(s, m) \/ t = ClearReturned(s)
  PROVE  /\ Shape(t) /\ SameTurn(s, t) /\ BesideContacts(s, t)
         /\ t.unresolved \subseteq s.unresolved /\ t.returning \in {s.returning, None}
         /\ t = SettleSelected(s, m) =>
              /\ t.unresolved = s.unresolved \ {m}
              /\ t.returning = IF s.returning = m THEN None ELSE s.returning
  <1>1. CASE t # SettleSelected(s, m)
    <2>1. t = s \/ t = [s EXCEPT !.returning = None]
      BY <1>1 DEF SettleReturned, ClearReturned
    <2>2. QED
      BY <1>1, <2>1, ReturnedShape
  <1>2. CASE t = SettleSelected(s, m)
    <2> DEFINE r == SettleReturned(s, m)
    <2>1. /\ Shape(r) /\ SameTurn(s, r) /\ BesideContacts(s, r)
          /\ r.unresolved = s.unresolved /\ r.returning \in {s.returning, None}
      BY ReturnedShape DEF SettleReturned
    <2>2. r.returning = IF s.returning = m THEN None ELSE s.returning
      BY DEF SettleReturned, Shape, Documents
    <2>3. t = [r EXCEPT !.unresolved = @ \ {m}]
      BY <1>2 DEF SettleSelected
    <2> HIDE DEF r
    <2>4. t \in Documents
      BY <2>1, <2>3 DEF Shape, Documents
    <2>5. /\ BesideContacts(r, t)
          /\ t.unresolved = s.unresolved \ {m} /\ t.returning = r.returning
      BY <2>1, <2>3 DEF Shape, Documents, BesideContacts
    <2>6. BesideContacts(s, t)
      BY <2>1, <2>5 DEF BesideContacts
    <2>7. Shape(t) /\ SameTurn(s, t)
      BY <2>4, <2>6 DEF Shape, TurnPlaced, SameTurn, BesideContacts, Executing
    <2>8. QED
      BY <2>1, <2>2, <2>5, <2>6, <2>7
  <1>3. QED
    BY <1>1, <1>2

\* t is s with another adjudication at most.
BesideReview(s, t) ==
  /\ t.order = s.order /\ t.fills = s.fills /\ t.last = s.last /\ t.revoked = s.revoked
  /\ t.picks = s.picks /\ t.owing = s.owing /\ t.completed = s.completed
  /\ t.withdrawn = s.withdrawn /\ t.acting = s.acting /\ t.unresolved = s.unresolved
  /\ t.returning = s.returning
  /\ t.responses = s.responses /\ t.disposition = s.disposition /\ t.sealed = s.sealed
  /\ t.phase = s.phase /\ t.held = s.held /\ t.cursor = s.cursor /\ t.bidder = s.bidder

LEMMA ClosedShape ==
  ASSUME NEW s, Shape(s), NEW override, NEW t, t = CloseReview(s, override)
  PROVE  /\ Shape(t) /\ SameTurn(s, t) /\ BesideReview(s, t)
         /\ t.review = IF override THEN None ELSE s.review
  <1>1. t \in Documents
    BY DEF Shape, Documents, CloseReview, Opt
  <1>2. BesideReview(s, t) /\ t.review = IF override THEN None ELSE s.review
    BY DEF Shape, Documents, CloseReview, BesideReview
  <1>3. QED
    BY <1>1, <1>2 DEF Shape, TurnPlaced, SameTurn, BesideReview, Executing

\* An adjudication suspends the bidder of a position turn, and asks those ranked
\* above him.
Adjudicated(s) ==
  s.review # None =>
    /\ s.review.at \in DOMAIN s.review.candidates
    /\ s.review.suspended = s.bidder /\ Executing(s) = "position_bid"
    /\ s.bidder \in Ranked
    /\ \A i \in DOMAIN s.review.candidates :
         /\ s.review.candidates[i] \in Ranked
         /\ Rank(s.review.candidates[i]) < Rank(s.bidder)

\* What the evaluation leaves: the picks of awards, all that awards carry, and
\* nobody to pick who has picked.
Paid(s) ==
  /\ s.picks \subseteq Awarded(s) /\ Given(s) \subseteq s.picks
  /\ \A i \in DOMAIN s.owing : s.owing[i] \in Awarded(s) \ s.picks

\* Behind the queue there are A-Day turns of owing members only; a turn in the
\* queue is that of its entry.
InQueue(s) ==
  /\ Executing(s) = "complete" => s.cursor \notin DOMAIN s.order
  /\ (Executing(s) = "a_day_bid" /\ s.cursor \in DOMAIN s.order)
       => s.order[s.cursor].member = s.bidder

\* t is s but for the turn and the A-Day evaluation.
BesideEvaluation(s, t) ==
  /\ t.order = s.order /\ t.fills = s.fills /\ t.last = s.last /\ t.revoked = s.revoked
  /\ t.completed = s.completed /\ t.withdrawn = s.withdrawn /\ t.acting = s.acting
  /\ t.review = s.review /\ t.responses = s.responses /\ t.disposition = s.disposition
  /\ t.unresolved = s.unresolved /\ t.returning = s.returning /\ t.sealed = s.sealed

LEMMA EvaluatedShape ==
  ASSUME NEW s, Shape(s), NEW named, NEW t, t = ADaysEvaluated(s, named)
  PROVE  /\ Shape(t) /\ SameTurn(s, t) /\ BesideEvaluation(s, t) /\ Paid(t)
         /\ Executing(t) = Executing(s) /\ t.phase = s.phase /\ t.held = s.held
         /\ t.picks = (s.picks \cap Awarded(s)) \cup Given(s)
  <1> DEFINE u == WithPicks(s)
             waiting == {m \in Awarded(u) \ u.picks : HasOpenTurn(u, m) \/ m = named}
             q == Among(u.order, {x \in Turn : x.member \in waiting})
             owing == [i \in DOMAIN q |-> q[i].member]
  <1>1. t = [u EXCEPT !.owing = owing]
    BY DEF ADaysEvaluated, ADaysOwed, WithOwing
  <1>2. Given(s) \subseteq Awarded(s) /\ Awarded(s) \subseteq Members
    <2>1. \A p \in Filled(s) : s.fills[p].member \in Members
      BY BidPolicy DEF Shape, Documents, Filled, Awards, Opt
    <2>2. QED
      BY <2>1 DEF Given, Awarded
  <1>3. /\ u \in Documents /\ BesideEvaluation(s, u)
        /\ u.phase = s.phase /\ u.held = s.held /\ u.cursor = s.cursor
        /\ u.bidder = s.bidder
        /\ u.picks = (s.picks \cap Awarded(s)) \cup Given(s)
    BY <1>2 DEF Shape, Documents, WithPicks, BesideEvaluation
  <1> HIDE DEF u
  <1>4. q \in Seq(Turn) /\ \A i \in DOMAIN q : q[i].member \in waiting
    <2>1. u.order \in Seq(Turn)
      BY <1>3, DocumentOrder
    <2>2. Filtered(u.order, Turn, {x \in Turn : x.member \in waiting}, Len(u.order), q)
      BY <2>1, AmongFilters
    <2> HIDE DEF q, waiting
    <2>3. QED
      BY <2>2 DEF Filtered
  <1> HIDE DEF q
  <1>5. owing \in Seq(Members) /\ \A i \in DOMAIN owing : owing[i] \in waiting
    <2>1. DOMAIN q = 1 .. Len(q) /\ Len(q) \in Nat /\ \A i \in DOMAIN q : q[i].member \in Members
      BY <1>4, OrderTyped
    <2> HIDE DEF waiting
    <2>2. QED
      BY <1>4, <2>1
  <1> HIDE DEF owing
  <1>6. /\ t \in Documents /\ BesideEvaluation(s, t)
        /\ t.phase = s.phase /\ t.held = s.held /\ t.cursor = s.cursor
        /\ t.bidder = s.bidder /\ t.picks = u.picks /\ t.owing = owing
    BY <1>1, <1>3, <1>5, ZenonT(30) DEF Documents, BesideEvaluation
  <1>7. Awarded(t) = Awarded(s) /\ Given(t) = Given(s) /\ Awarded(u) = Awarded(s)
    BY <1>3, <1>6 DEF Awarded, Given, Filled, BesideEvaluation
  <1>8. Paid(t)
    BY <1>2, <1>3, <1>5, <1>6, <1>7 DEF Paid
  <1>9. QED
    BY <1>3, <1>6, <1>8 DEF Shape, TurnPlaced, SameTurn, BesideEvaluation, Executing

\* What every accepted command comes to.
LEMMA ConcludedShape ==
  ASSUME NEW s, Shape(s), Evaluable(s), Adjudicated(s),
         NEW override, override => s.review = None, NEW named,
         NEW t, t = Concluded(s, override, named)
  PROVE  /\ Shape(t) /\ Evaluable(t) /\ Adjudicated(t) /\ Paid(t) /\ BesideEvaluation(s, t)
         /\ t.cursor >= s.cursor
         /\ SameTurn(s, t) \/ Answerable(t)
         /\ Answerable(s) => Answerable(t)
         /\ InQueue(s) => InQueue(t)
         /\ t.picks = (s.picks \cap Awarded(s)) \cup Given(s)
         /\ ~override => /\ t.cursor = s.cursor
                         /\ Executing(s) # "complete" => SameTurn(s, t)
  <1> DEFINE e == ADaysEvaluated(s, named)
             r == Resolved(e, override)
  <1>1. /\ Shape(e) /\ SameTurn(s, e) /\ BesideEvaluation(s, e) /\ Paid(e)
        /\ Executing(e) = Executing(s) /\ e.phase = s.phase /\ e.held = s.held
        /\ e.picks = (s.picks \cap Awarded(s)) \cup Given(s)
    BY EvaluatedShape
  <1>2. t = Prompted(r)
    BY DEF Concluded
  <1> HIDE DEF e
  <1>3. Awarded(e) = Awarded(s) /\ Given(e) = Given(s) /\ Evaluable(e)
    BY <1>1 DEF BesideEvaluation, Awarded, Given, Filled, Evaluable
  <1>4. Answerable(s) => Answerable(e)
    BY <1>1, <1>3 DEF Answerable, SameTurn, BesideEvaluation, TurnIsCompleted
  <1>5. Adjudicated(e) /\ (InQueue(s) => InQueue(e)) /\ (override => e.review = None)
    BY <1>1 DEF Adjudicated, InQueue, SameTurn, BesideEvaluation
  <1>6. /\ Shape(r) /\ Beside(e, r) /\ r.cursor >= e.cursor
        /\ r = e \/ (override /\ Answerable(r) /\ InQueue(r))
    <2>1. CASE r = e
      <3>1. e.cursor \in Nat
        BY <1>1 DEF Shape, Documents
      <3>2. QED
        BY <1>1, <2>1, <3>1 DEF Beside
    <2>2. CASE override /\ r = Advance(e, e.cursor + 1)
      <3>1. e.cursor \in Nat /\ e.cursor + 1 \in Nat \ {0}
        BY <1>1 DEF Shape, Documents
      <3>2. Shape(r) /\ Answerable(r) /\ r.cursor >= e.cursor + 1 /\ Beside(e, r) /\ InQueue(r)
        <4> HIDE DEF r
        <4>1. QED
          BY <1>1, <1>3, <2>2, <3>1, AdvanceShape DEF Shape, InQueue
      <3>3. r.cursor \in Nat
        <4> HIDE DEF r
        <4>1. QED
          BY <3>2 DEF Shape, Documents
      <3>4. r.cursor >= e.cursor
        <4> HIDE DEF r
        <4>1. QED
          BY <3>1, <3>2, <3>3
      <3>5. QED
        BY <2>2, <3>2, <3>4
    <2>3. QED
      BY <2>1, <2>2 DEF Resolved
  <1> HIDE DEF r
  <1>7. Awarded(r) = Awarded(s) /\ Given(r) = Given(s) /\ Evaluable(r) /\ Paid(r)
    <2>1. r.fills = e.fills /\ r.picks = e.picks /\ r.owing = e.owing
      BY <1>6 DEF Beside
    <2>2. Awarded(r) = Awarded(e) /\ Given(r) = Given(e) /\ Evaluable(r)
      BY <1>3, <2>1 DEF Awarded, Given, Filled, Evaluable
    <2>3. QED
      BY <1>1, <1>3, <2>1, <2>2 DEF Paid
  <1>8. BesideEvaluation(s, r) /\ Adjudicated(r) /\ r.picks = e.picks
    <2>1. BesideEvaluation(s, r) /\ r.picks = e.picks
      BY <1>1, <1>6 DEF Beside, BesideEvaluation
    <2>2. Adjudicated(r)
      BY <1>5, <1>6, <2>1 DEF Adjudicated, Beside
    <2>3. QED
      BY <2>1, <2>2
  <1>9. CASE t = r
    <2>1. t.cursor >= s.cursor
      BY <1>1, <1>6, <1>9 DEF SameTurn
    <2>2. QED
      BY <1>1, <1>4, <1>5, <1>6, <1>7, <1>8, <1>9, <2>1 DEF SameTurn
  <1>10. CASE r.phase = "complete" /\ r.owing # <<>>
              /\ t = [r EXCEPT !.phase = "a_day_bid", !.bidder = Head(r.owing)]
    <2>1. r.owing \in Seq(Members) /\ r.cursor \in Nat
      BY <1>6 DEF Shape, Documents
    <2>2. Head(r.owing) = r.owing[1] /\ Head(r.owing) \in Members /\ 1 \in DOMAIN r.owing
      BY <1>10, <2>1
    <2>3. /\ t \in Documents /\ t.phase = "a_day_bid" /\ t.bidder = Head(r.owing)
          /\ t.held = r.held /\ t.cursor = r.cursor /\ t.owing = r.owing /\ t.picks = r.picks
          /\ BesideEvaluation(r, t)
      <3>1. r \in Documents /\ "a_day_bid" \in Phases /\ Head(r.owing) \in Opt(Members)
        BY <1>6, <2>2 DEF Shape, Phases, Opt
      <3>2. t \in Documents
        BY <1>10, <3>1, ZenonT(30) DEF Documents
      <3>3. /\ t.phase = "a_day_bid" /\ t.bidder = Head(r.owing)
            /\ t.held = r.held /\ t.cursor = r.cursor /\ t.owing = r.owing /\ t.picks = r.picks
        BY <1>10, <3>1 DEF Documents
      <3>4. BesideEvaluation(r, t)
        BY <1>10, <3>1 DEF Documents, BesideEvaluation
      <3>5. QED
        BY <3>2, <3>3, <3>4
    <2>4. Awarded(t) = Awarded(r) /\ Given(t) = Given(r)
      BY <2>3 DEF BesideEvaluation, Awarded, Given, Filled
    <2>5. Executing(t) = "a_day_bid" /\ Executing(r) = "complete"
      BY <1>10, <2>3 DEF Executing
    <2>6. Answerable(t) /\ Paid(t) /\ Evaluable(t)
      BY <1>7, <2>2, <2>3, <2>4, <2>5
         DEF Answerable, Paid, Evaluable, BesideEvaluation, Filled
    <2>7. None \notin Members
      BY BidPolicy
    <2>8. Shape(t)
      BY <1>6, <1>10, <2>2, <2>3, <2>5, <2>7 DEF Shape, TurnPlaced, BesideEvaluation
    <2>9. t.review = None
      BY <1>8, <2>3, <2>5 DEF Adjudicated, BesideEvaluation
    <2>10. BesideEvaluation(s, t) /\ Adjudicated(t)
      BY <1>8, <2>3, <2>9 DEF Adjudicated, BesideEvaluation
    <2>11. t.cursor >= s.cursor
      BY <1>1, <1>6, <2>3 DEF SameTurn
    <2>12. InQueue(s) => InQueue(t)
      BY <1>5, <1>6, <2>3, <2>5 DEF InQueue, BesideEvaluation
    <2>13. ~override => t.cursor = s.cursor /\ Executing(s) = "complete"
      BY <1>1, <1>6, <2>3, <2>5 DEF SameTurn
    <2>14. QED
      BY <1>1, <1>8, <2>3, <2>6, <2>8, <2>10, <2>11, <2>12, <2>13
  <1>11. QED
    BY <1>2, <1>9, <1>10 DEF Prompted

-----------------------------------------------------------------------------
(* One accepted command.                                                   *)

\* The inductive invariant.
Live(s) ==
  /\ Shape(s) /\ Evaluable(s) /\ Adjudicated(s) /\ Paid(s)
  /\ Len(s.order) <= MaxTurns /\ s.cursor <= MaxTurns + 1

\* The cursor and the order before it, as NeverRewinds has them.
Forward(s) ==
  /\ s.cursor >= bid.cursor
  /\ \A i \in DOMAIN bid.order :
       i < bid.cursor => i \in DOMAIN s.order /\ s.order[i] = bid.order[i]

GivenWell(s) == SameTurn(bid, s) \/ Answerable(s)

\* A document as a command hands it to the service.
Ready(s, override) ==
  /\ Shape(s) /\ Adjudicated(s) /\ (override => s.review = None)
  /\ Forward(s) /\ Len(s.order) <= MaxTurns

\* What the service makes of it.
Follows(s, override) ==
  /\ BesideEvaluation(s, bid')
  /\ bid'.picks = (s.picks \cap Awarded(s)) \cup Given(s)
  /\ InQueue(s) => InQueue(bid')
  /\ Answerable(s) => Answerable(bid')
  /\ ~override => bid'.cursor = s.cursor

LEMMA AcceptLive ==
  ASSUME Live(bid), NEW s, NEW override, NEW named,
         Ready(s, override), Accept(s, override, named)
  PROVE  /\ Live(bid') /\ Forward(bid') /\ Follows(s, override)
         /\ GivenWell(s) => GivenWell(bid')
  <1>1. Evaluable(s) /\ bid' = Concluded(s, override, named) /\ bid'.cursor <= MaxTurns + 1
    BY DEF Accept, Becomes
  <1>2. /\ Shape(bid') /\ Evaluable(bid') /\ Adjudicated(bid') /\ Paid(bid')
        /\ BesideEvaluation(s, bid') /\ bid'.cursor >= s.cursor
        /\ SameTurn(s, bid') \/ Answerable(bid')
        /\ Answerable(s) => Answerable(bid')
    BY <1>1, ConcludedShape DEF Ready
  <1>3. bid'.order = s.order
    BY <1>2 DEF BesideEvaluation
  <1>4. Forward(bid')
    <2>1. bid'.cursor \in Nat /\ s.cursor \in Nat /\ bid.cursor \in Nat
      BY <1>2 DEF Live, Shape, Documents, Ready
    <2>2. QED
      BY <1>2, <1>3, <2>1 DEF Ready, Forward
  <1>5. GivenWell(s) => GivenWell(bid')
    BY <1>2 DEF GivenWell, SameTurn
  <1>6. Follows(s, override)
    BY <1>1, ConcludedShape DEF Ready, Follows
  <1>7. QED
    BY <1>1, <1>2, <1>3, <1>4, <1>5, <1>6 DEF Live, Ready

\* A command that leaves turn, order and adjudication alone.
LEMMA SameQueueReady ==
  ASSUME Live(bid), NEW s, s \in Documents,
         s.order = bid.order /\ s.cursor = bid.cursor /\ s.bidder = bid.bidder,
         s.phase = bid.phase /\ s.held = bid.held,
         s.last # None => s.fills[s.last] # None
  PROVE  /\ Shape(s) /\ Forward(s) /\ SameTurn(bid, s) /\ Len(s.order) <= MaxTurns
         /\ s.review = bid.review => Adjudicated(s)
         /\ s.review = None => Adjudicated(s)
  <1>1. bid.cursor \in Nat
    BY DEF Live, Shape, Documents
  <1>2. QED
    BY <1>1 DEF Live, Shape, TurnPlaced, Executing, Forward, SameTurn, Adjudicated

LEMMA MembersTyped ==
  ASSUME Live(bid)
  PROVE  /\ Awarded(bid) \subseteq Members /\ None \notin Members /\ None \notin Positions
         /\ \A p \in Filled(bid) : bid.fills[p] \in Awards
         /\ \A m \in Awarded(bid) :
              /\ Seat(bid, m) \in Filled(bid) /\ bid.fills[Seat(bid, m)].member = m
              /\ \A p \in Filled(bid) : bid.fills[p].member = m => p = Seat(bid, m)
  <1>1. \A p \in Filled(bid) : bid.fills[p] \in Awards
    BY DEF Live, Shape, Documents, Filled, Opt
  <1>2. Awarded(bid) \subseteq Members
    BY <1>1 DEF Awarded, Awards
  <1>3. \A m \in Awarded(bid) :
          Seat(bid, m) \in Filled(bid) /\ bid.fills[Seat(bid, m)].member = m
    BY DEF Awarded, Seat
  <1>4. QED
    BY <1>1, <1>2, <1>3, BidPolicy DEF Live, Evaluable

\* An award: the bidder's ends the turn, anybody else's leaves it.
Selects(s, m, p, award, override) ==
  /\ Ready(s, override) /\ GivenWell(s) /\ (m = bid.bidder => Answerable(s))
  /\ s.order = bid.order /\ s.completed = bid.completed /\ s.acting = bid.acting
  /\ s.disposition = bid.disposition /\ s.revoked = bid.revoked
  /\ s.responses = bid.responses /\ s.picks = bid.picks
  /\ s.fills = [bid.fills EXCEPT ![p] = award]
  /\ s.unresolved = bid.unresolved \ {m}
  /\ s.returning = IF bid.returning = m THEN None ELSE bid.returning
  /\ m # bid.bidder => SameTurn(bid, s)
  /\ m = bid.bidder =>
       /\ InQueue(s)
       /\ \A i \in DOMAIN bid.order :
            (i > bid.cursor /\ i < s.cursor) =>
              \/ TurnIsCompleted(bid, bid.order[i])
              \/ bid.order[i].member \in bid.acting \cup Awarded(s)

LEMMA SelectedReady ==
  ASSUME Live(bid), NEW m \in Members, NEW p \in Positions, NEW aDay \in BOOLEAN,
         NEW override, override \/ bid.review = None,
         NEW deferral, deferral = IF override /\ ~aDay THEN p ELSE None,
         NEW s, s = Selected(m, p, aDay, override), Evaluable(s)
  PROVE  Selects(s, m, p, Award(m, aDay, deferral), override)
  <1> DEFINE awarded  == [bid EXCEPT !.fills[p] = Award(m, aDay, deferral), !.last = p]
             moved    == IF m = bid.bidder THEN Advance(awarded, bid.cursor + 1) ELSE awarded
             settled  == SettleSelected(moved, m)
  <1>1. s = CloseReview(settled, override)
    BY DEF Selected
  <1>2. bid \in Documents /\ bid.cursor \in Nat \ {0}
    BY DEF Live, Shape, Documents
  <1>3. Award(m, aDay, deferral) \in Awards /\ Award(m, aDay, deferral) # None
    BY NullIsNoRecord DEF Award, Awards, Opt
  <1>4. /\ awarded \in Documents
        /\ awarded.fills = [bid.fills EXCEPT ![p] = Award(m, aDay, deferral)]
        /\ awarded.last = p /\ awarded.fills[p] # None
        /\ awarded.order = bid.order /\ awarded.cursor = bid.cursor
        /\ awarded.bidder = bid.bidder /\ awarded.phase = bid.phase /\ awarded.held = bid.held
        /\ awarded.review = bid.review /\ awarded.completed = bid.completed
        /\ awarded.acting = bid.acting /\ awarded.disposition = bid.disposition
        /\ awarded.revoked = bid.revoked /\ awarded.responses = bid.responses
        /\ awarded.picks = bid.picks /\ awarded.unresolved = bid.unresolved
        /\ awarded.returning = bid.returning
    BY <1>2, <1>3, ZenonT(30) DEF Documents, Opt
  <1> HIDE DEF awarded
  <1>5. /\ Shape(awarded) /\ Forward(awarded) /\ SameTurn(bid, awarded)
        /\ Len(awarded.order) <= MaxTurns /\ Adjudicated(awarded)
    BY <1>4, SameQueueReady
  <1>6. /\ Shape(moved) /\ Beside(awarded, moved)
        /\ m # bid.bidder => SameTurn(awarded, moved)
        /\ m = bid.bidder =>
             /\ Evaluable(awarded) => Answerable(moved)
             /\ moved.cursor >= bid.cursor + 1 /\ InQueue(moved)
             /\ \A i \in DOMAIN awarded.order :
                  (i >= bid.cursor + 1 /\ i < moved.cursor) => ~Offers(awarded, awarded.order[i])
    <2>1. CASE m # bid.bidder
      BY <1>5, <2>1 DEF Beside, SameTurn
    <2>2. CASE m = bid.bidder
      <3>1. moved = Advance(awarded, bid.cursor + 1) /\ bid.cursor + 1 \in Nat \ {0}
        BY <1>2, <2>2
      <3> HIDE DEF moved
      <3>2. QED
        BY <1>5, <2>2, <3>1, AdvanceShape DEF Shape, InQueue
    <2>3. QED
      BY <2>1, <2>2
  <1> HIDE DEF moved
  <1>7. /\ Shape(settled) /\ SameTurn(moved, settled) /\ BesideContacts(moved, settled)
        /\ settled.unresolved = moved.unresolved \ {m}
        /\ settled.returning = IF moved.returning = m THEN None ELSE moved.returning
    BY <1>6, SettledShape
  <1> HIDE DEF settled
  <1>8. /\ Shape(s) /\ SameTurn(settled, s) /\ BesideReview(settled, s)
        /\ s.review = IF override THEN None ELSE settled.review
    BY <1>1, <1>7, ClosedShape
  <1>9. /\ s.order = bid.order /\ s.completed = bid.completed /\ s.acting = bid.acting
        /\ s.disposition = bid.disposition /\ s.revoked = bid.revoked
        /\ s.responses = bid.responses /\ s.picks = bid.picks
        /\ s.fills = awarded.fills /\ SameTurn(moved, s)
        /\ s.unresolved = bid.unresolved \ {m}
        /\ s.returning = IF bid.returning = m THEN None ELSE bid.returning
        /\ s.review = None
    BY <1>4, <1>6, <1>7, <1>8
       DEF Beside, BesideContacts, BesideReview, SameTurn
  <1>10. Awarded(s) = Awarded(awarded) /\ Given(s) = Given(awarded) /\ Evaluable(awarded)
    BY <1>9 DEF Awarded, Given, Filled, Evaluable
  <1>11. m = bid.bidder => Answerable(s)
    <2>1. m = bid.bidder => Answerable(moved)
      BY <1>6, <1>10
    <2>2. moved.fills = s.fills /\ moved.picks = s.picks /\ moved.acting = s.acting
          /\ moved.completed = s.completed /\ moved.order = s.order
      BY <1>4, <1>6, <1>9 DEF Beside
    <2>3. Awarded(s) = Awarded(moved) /\ Given(s) = Given(moved)
      BY <2>2 DEF Awarded, Given, Filled
    <2>4. QED
      BY <1>9, <2>1, <2>2, <2>3 DEF Answerable, SameTurn, TurnIsCompleted
  <1>12. m # bid.bidder => SameTurn(bid, s)
    BY <1>5, <1>6, <1>9 DEF SameTurn
  <1>13. moved.cursor \in Nat /\ s.cursor = moved.cursor
    BY <1>6, <1>9 DEF Shape, Documents, SameTurn
  <1>14. Forward(s)
    <2>1. s.cursor >= bid.cursor
      BY <1>2, <1>6, <1>12, <1>13 DEF SameTurn
    <2>2. QED
      BY <1>9, <2>1, <1>2 DEF Forward, Live, Shape, Documents
  <1>15. m = bid.bidder =>
           /\ InQueue(s)
           /\ \A i \in DOMAIN bid.order :
                (i > bid.cursor /\ i < s.cursor) =>
                  \/ TurnIsCompleted(bid, bid.order[i])
                  \/ bid.order[i].member \in bid.acting \cup Awarded(s)
    <2>1. SUFFICES ASSUME m = bid.bidder
                   PROVE  /\ InQueue(s)
                          /\ \A i \in DOMAIN bid.order :
                               (i > bid.cursor /\ i < s.cursor) =>
                                 \/ TurnIsCompleted(bid, bid.order[i])
                                 \/ bid.order[i].member \in bid.acting \cup Awarded(s)
      OBVIOUS
    <2>2. InQueue(s)
      BY <1>4, <1>6, <1>9, <2>1 DEF InQueue, SameTurn, Beside
    <2>3. ASSUME NEW i \in DOMAIN bid.order, i > bid.cursor, i < s.cursor
          PROVE  \/ TurnIsCompleted(bid, bid.order[i])
                 \/ bid.order[i].member \in bid.acting \cup Awarded(s)
      <3>1. i \in Nat
        BY <1>2 DEF Documents
      <3>2. ~Offers(awarded, bid.order[i])
        BY <1>2, <1>4, <1>6, <1>13, <2>1, <2>3, <3>1
      <3>3. QED
        BY <1>4, <1>10, <3>2 DEF Offers, TurnIsCompleted
    <2>4. QED
      BY <2>2, <2>3
  <1>16. Ready(s, override)
    BY <1>5, <1>4, <1>8, <1>9, <1>14 DEF Ready, Adjudicated
  <1>17. GivenWell(s)
    BY <1>11, <1>12 DEF GivenWell
  <1>18. QED
    BY <1>4, <1>9, <1>11, <1>12, <1>15, <1>16, <1>17 DEF Selects

-----------------------------------------------------------------------------
(* The commands.                                                           *)

Stepped == Live(bid') /\ Forward(bid') /\ GivenWell(bid')

LEMMA AcceptStepped ==
  ASSUME Live(bid), NEW s, NEW override, NEW named,
         Ready(s, override), GivenWell(s), Accept(s, override, named)
  PROVE  Stepped /\ Follows(s, override)
  BY AcceptLive DEF Stepped

-----------------------------------------------------------------------------
(* Commands that leave the turn alone, and commands that search the next.  *)

LEMMA QuietStepped ==
  ASSUME Live(bid), NEW s, Shape(s), SameTurn(bid, s), s.order = bid.order,
         s.review \in {bid.review, None},
         NEW override, override => s.review = None,
         NEW named, Accept(s, override, named)
  PROVE  /\ Stepped /\ Follows(s, override)
         /\ InQueue(bid) => InQueue(bid')
  <1>1. bid.cursor \in Nat
    BY DEF Live, Shape, Documents
  <1>2. Ready(s, override)
    BY <1>1 DEF Live, Ready, Adjudicated, SameTurn, Forward
  <1>3. InQueue(bid) => InQueue(s)
    BY DEF InQueue, SameTurn
  <1>4. QED
    BY <1>2, <1>3, AcceptStepped DEF GivenWell, Follows

LEMMA AdvanceStepped ==
  ASSUME Live(bid), NEW s, s \in Documents, s.order # <<>>,
         (s.held # None) <=> (s.phase = "paused"),
         s.last # None => s.fills[s.last] # None,
         Len(s.order) <= MaxTurns, s.review = None,
         \A i \in DOMAIN bid.order :
           i < bid.cursor => i \in DOMAIN s.order /\ s.order[i] = bid.order[i],
         NEW from \in Nat, from >= bid.cursor,
         NEW t, t = Advance(s, from),
         NEW override, NEW named, Accept(t, override, named)
  PROVE  /\ Stepped /\ BesideEvaluation(s, bid') /\ InQueue(bid') /\ Answerable(bid')
         /\ bid'.picks = (s.picks \cap Awarded(s)) \cup Given(s)
         /\ ~override => \A i \in DOMAIN s.order :
              (i >= from /\ i < bid'.cursor) => ~Offers(s, s.order[i])
  <1>1. bid.cursor \in Nat \ {0} /\ from \in Nat \ {0}
    BY DEF Live, Shape, Documents
  <1>2. /\ Shape(t) /\ (Evaluable(s) => Answerable(t)) /\ t.cursor >= from /\ Beside(s, t)
        /\ InQueue(t)
        /\ \A i \in DOMAIN s.order :
             (i >= from /\ i < t.cursor) => ~Offers(s, s.order[i])
    BY <1>1, AdvanceShape DEF InQueue
  <1>3. t.cursor \in Nat
    BY <1>2 DEF Shape, Documents
  <1>4. Evaluable(t) /\ t.fills = s.fills
    BY <1>2 DEF Beside, Accept
  <1>5. Evaluable(s)
    BY <1>4 DEF Evaluable, Filled
  <1>6. Forward(t)
    BY <1>1, <1>2, <1>3 DEF Forward, Beside
  <1>7. Ready(t, override)
    BY <1>2, <1>6 DEF Ready, Adjudicated, Beside
  <1>8. Stepped /\ Follows(t, override)
    BY <1>2, <1>5, <1>7, AcceptStepped DEF GivenWell
  <1>9. Awarded(t) = Awarded(s) /\ Given(t) = Given(s) /\ t.picks = s.picks
    BY <1>2 DEF Beside, Awarded, Given, Filled
  <1>10. BesideEvaluation(s, bid')
    BY <1>2, <1>8 DEF Follows, Beside, BesideEvaluation
  <1>11. QED
    BY <1>2, <1>5, <1>8, <1>9, <1>10 DEF Follows

SamePeople(s, t) ==
  /\ t.fills = s.fills /\ t.revoked = s.revoked /\ t.acting = s.acting
  /\ t.disposition = s.disposition /\ t.responses = s.responses

SameQueue(s, t) == t.order = s.order /\ t.completed = s.completed

\* The command leaves the queue where it is.
Waits ==
  bid'.cursor = bid.cursor /\ SameQueue(bid, bid') /\ (InQueue(bid) => InQueue(bid'))

\* The participant has had a chance: see EveryoneAsked.
HasBeenAsked(s, m) ==
  \/ m \in Awarded(s) \cup s.unresolved \cup {s.returning}
  \/ s.disposition[m] # None \/ s.revoked[m] # None

StayAsked ==
  bid'.acting = bid.acting /\ \A m \in Members : HasBeenAsked(bid, m) => HasBeenAsked(bid', m)

LEMMA PicksKept ==
  ASSUME Live(bid)
  PROVE  (bid.picks \cap Awarded(bid)) \cup Given(bid) = bid.picks
  BY DEF Live, Paid

LEMMA AnswerableBeside ==
  ASSUME Answerable(bid), NEW s, SameTurn(bid, s), SamePeople(bid, s),
         s.picks = bid.picks, SameQueue(bid, s)
  PROVE  Answerable(s)
  <1>1. Awarded(s) = Awarded(bid) /\ Given(s) = Given(bid)
    BY DEF SamePeople, Awarded, Given, Filled
  <1>2. QED
    BY <1>1 DEF Answerable, SameTurn, SamePeople, SameQueue, TurnIsCompleted

\* A quiet command that touches nobody's award, contact or duty.
LEMMA NobodyTouched ==
  ASSUME Live(bid), NEW s, NEW override, s.cursor = bid.cursor, s.fills = bid.fills,
         s.picks = bid.picks, Follows(s, override)
  PROVE  Awarded(bid') = Awarded(bid) /\ Given(bid') = Given(bid) /\ bid'.picks = bid.picks
  <1>1. bid'.fills = bid.fills
    BY DEF Follows, BesideEvaluation
  <1>2. /\ Awarded(bid') = Awarded(bid) /\ Given(bid') = Given(bid)
        /\ Awarded(s) = Awarded(bid) /\ Given(s) = Given(bid)
    BY <1>1 DEF Awarded, Given, Filled
  <1>3. QED
    BY <1>2, PicksKept DEF Follows

-----------------------------------------------------------------------------
(* Selections and A-Days.                                                  *)

\* A selection without an override.
LEMMA SelectionStepped ==
  ASSUME Live(bid), NEW m \in Members, NEW p \in Positions, NEW aDay \in BOOLEAN,
         bid.review = None, bid.fills[p] = None,
         AcceptOrdinary(Selected(m, p, aDay, FALSE))
  PROVE  /\ Stepped /\ SameQueue(bid, bid')
         /\ bid'.acting = bid.acting /\ bid'.disposition = bid.disposition
         /\ bid'.revoked = bid.revoked /\ bid'.responses = bid.responses
         /\ Filled(bid') = Filled(bid) \cup {p} /\ bid'.fills[p].member = m
         /\ \A q \in Filled(bid) : q # p /\ bid'.fills[q] = bid.fills[q]
         /\ Awarded(bid') = Awarded(bid) \cup {m}
         /\ \A n \in Members \ {m} : n \in Given(bid') <=> n \in Given(bid)
         /\ bid'.picks = (bid.picks \cap Awarded(bid')) \cup Given(bid')
         /\ bid'.unresolved = bid.unresolved \ {m}
         /\ bid'.returning = IF bid.returning = m THEN None ELSE bid.returning
         /\ Answerable(bid) => Answerable(bid')
         /\ m # bid.bidder => Waits
         /\ m = bid.bidder =>
              /\ InQueue(bid')
              /\ \A i \in DOMAIN bid.order :
                   (i > bid.cursor /\ i < bid'.cursor) =>
                     \/ TurnIsCompleted(bid, bid.order[i])
                     \/ bid.order[i].member \in bid.acting \cup Awarded(bid')
  <1> DEFINE s == Selected(m, p, aDay, FALSE)
             award == Award(m, aDay, None)
  <1>1. Accept(s, FALSE, None) /\ Evaluable(s)
    BY DEF AcceptOrdinary, Accept
  <1> HIDE DEF s
  <1>2. /\ Ready(s, FALSE) /\ GivenWell(s) /\ (m = bid.bidder => Answerable(s))
        /\ s.order = bid.order /\ s.completed = bid.completed /\ s.acting = bid.acting
        /\ s.disposition = bid.disposition /\ s.revoked = bid.revoked
        /\ s.responses = bid.responses /\ s.picks = bid.picks
        /\ s.fills = [bid.fills EXCEPT ![p] = award]
        /\ s.unresolved = bid.unresolved \ {m}
        /\ s.returning = IF bid.returning = m THEN None ELSE bid.returning
        /\ m # bid.bidder => SameTurn(bid, s)
        /\ m = bid.bidder =>
             /\ InQueue(s)
             /\ \A i \in DOMAIN bid.order :
                  (i > bid.cursor /\ i < s.cursor) =>
                    \/ TurnIsCompleted(bid, bid.order[i])
                    \/ bid.order[i].member \in bid.acting \cup Awarded(s)
    <2>1. FALSE \in BOOLEAN /\ (FALSE \/ bid.review = None) /\ s = Selected(m, p, aDay, FALSE)
      BY DEF s
    <2>2. None = IF FALSE /\ ~aDay THEN p ELSE None
      OBVIOUS
    <2>3. Selects(s, m, p, award, FALSE)
      BY <1>1, <2>1, <2>2, SelectedReady, Zenon
    <2> HIDE DEF award
    <2>4. QED
      BY <2>3 DEF Selects
  <1>3. Stepped /\ Follows(s, FALSE)
    BY <1>1, <1>2, AcceptStepped
  <1>4. /\ BesideEvaluation(s, bid') /\ bid'.cursor = s.cursor /\ bid'.fills = s.fills
        /\ Awarded(bid') = Awarded(s) /\ Given(bid') = Given(s)
    BY <1>3 DEF Follows, BesideEvaluation, Awarded, Given, Filled
  <1>5. award # None /\ award.member = m
    BY NullIsNoRecord DEF Award
  <1>6. bid.fills \in [Positions -> Opt(Awards)]
    BY DEF Live, Shape, Documents
  <1> HIDE DEF award
  <1>7. /\ Filled(s) = Filled(bid) \cup {p} /\ s.fills[p] = award
        /\ \A q \in Filled(bid) : q # p /\ s.fills[q] = bid.fills[q]
    BY <1>2, <1>5, <1>6 DEF Filled
  <1>8. Awarded(s) = Awarded(bid) \cup {m}
    BY <1>5, <1>7 DEF Awarded
  <1>9. \A n \in Members \ {m} : n \in Given(s) <=> n \in Given(bid)
    BY <1>5, <1>7 DEF Given
  <1>10. ASSUME m # bid.bidder
         PROVE  Waits /\ (Answerable(bid) => Answerable(s))
    <2>1. SameTurn(bid, s)
      BY <1>2, <1>10
    <2>2. InQueue(bid) => InQueue(s)
      BY <1>2, <2>1 DEF InQueue, SameTurn
    <2>3. Waits
      BY <1>2, <1>3, <1>4, <2>1, <2>2
         DEF Waits, SameQueue, SameTurn, Follows, BesideEvaluation
    <2>4. bid.bidder \in Opt(Members)
      BY DEF Live, Shape, Documents
    <2>5. Awarded(bid) \subseteq Members
      BY MembersTyped
    <2>6. Answerable(bid) => Answerable(s)
      BY <1>2, <1>8, <1>9, <1>10, <2>1, <2>4, <2>5
         DEF Answerable, SameTurn, TurnIsCompleted, Opt
    <2>7. QED
      BY <2>3, <2>6
  <1>11. Answerable(bid) => Answerable(bid')
    BY <1>2, <1>3, <1>10 DEF Follows
  <1>12. m = bid.bidder =>
           /\ InQueue(bid')
           /\ \A i \in DOMAIN bid.order :
                (i > bid.cursor /\ i < bid'.cursor) =>
                  \/ TurnIsCompleted(bid, bid.order[i])
                  \/ bid.order[i].member \in bid.acting \cup Awarded(bid')
    BY <1>2, <1>3, <1>4 DEF Follows
  <1>13. bid'.picks = (bid.picks \cap Awarded(bid')) \cup Given(bid')
    BY <1>2, <1>3, <1>4 DEF Follows
  <1>14. /\ SameQueue(bid, bid')
         /\ bid'.acting = bid.acting /\ bid'.disposition = bid.disposition
         /\ bid'.revoked = bid.revoked /\ bid'.responses = bid.responses
         /\ bid'.unresolved = bid.unresolved \ {m}
         /\ bid'.returning = IF bid.returning = m THEN None ELSE bid.returning
    BY <1>2, <1>4 DEF SameQueue, BesideEvaluation
  <1>15. /\ Filled(bid') = Filled(bid) \cup {p} /\ bid'.fills[p].member = m
         /\ \A q \in Filled(bid) : q # p /\ bid'.fills[q] = bid.fills[q]
    BY <1>4, <1>5, <1>7 DEF Filled
  <1>16. QED
    BY <1>3, <1>4, <1>8, <1>9, <1>10, <1>11, <1>12, <1>13, <1>14, <1>15

\* A seat given without the force permission: an ordinary award, outside a review.
LEMMA OrdinarySelection ==
  ASSUME Selecting, "force" \notin Granted
  PROVE  \E m \in Members, p \in Positions, aDay \in BOOLEAN :
           /\ bid.review = None /\ bid.fills[p] = None
           /\ AcceptOrdinary(Selected(m, p, aDay, FALSE))
  <1>1. PICK m \in Members, p \in Positions :
          RecordSelection(m, p) \/ \E forced \in BOOLEAN : FallbackSelection(m, p, forced)
    BY DEF Selecting, ForceSelection, DirectSelection, Permitted
  <1>2. CASE RecordSelection(m, p)
    <2>1. /\ bid.review = None /\ bid.fills[p] = None
          /\ AcceptOrdinary(Selected(m, p, TRUE, FALSE))
      BY <1>2 DEF RecordSelection, Selectable, OpenSeat
    <2>2. QED
      BY <2>1
  <1>3. ASSUME NEW forced \in BOOLEAN, FallbackSelection(m, p, forced)
        PROVE  \E aDay \in BOOLEAN : /\ bid.review = None /\ bid.fills[p] = None
                                     /\ AcceptOrdinary(Selected(m, p, aDay, FALSE))
    <2> DEFINE ownTurn == m = bid.bidder \/ (~forced /\ m = bid.returning)
               carries == p \notin Deferred \/ ownTurn
    <2>1. /\ bid.review = None /\ bid.fills[p] = None
          /\ AcceptOrdinary(Selected(m, p, carries, FALSE))
      BY <1>3 DEF FallbackSelection, Selectable, OpenSeat
    <2>2. carries \in BOOLEAN
      OBVIOUS
    <2> HIDE DEF carries
    <2>3. QED
      BY <2>1, <2>2
  <1>4. QED
    BY <1>1, <1>2, <1>3

LEMMA SelectingStepped ==
  ASSUME Live(bid), Selecting
  PROVE  Stepped
  <1>1. PICK m \in Members, p \in Positions :
          \/ RecordSelection(m, p)
          \/ ForceSelection(m, p)
          \/ \E forced \in BOOLEAN : FallbackSelection(m, p, forced)
          \/ \E aDay \in BOOLEAN : DirectSelection(m, p, aDay)
    BY DEF Selecting
  <1>2. PICK aDay \in BOOLEAN, override \in BOOLEAN :
          /\ override \/ bid.review = None
          /\ \E named : Accept(Selected(m, p, aDay, override), override, named)
    BY <1>1 DEF RecordSelection, ForceSelection, FallbackSelection, DirectSelection,
                AcceptOrdinary, AcceptDirected
  <1> DEFINE s == Selected(m, p, aDay, override)
  <1>3. PICK named : Accept(s, override, named)
    BY <1>2
  <1> HIDE DEF s
  <1>4. Evaluable(s)
    BY <1>3 DEF Accept
  <1>5. Ready(s, override) /\ GivenWell(s)
    <2>1. s = Selected(m, p, aDay, override)
      BY DEF s
    <2>2. PICK deferral : deferral = IF override /\ ~aDay THEN p ELSE None
      OBVIOUS
    <2>3. Selects(s, m, p, Award(m, aDay, deferral), override)
      BY <1>2, <1>4, <2>1, <2>2, SelectedReady, Zenon
    <2>4. QED
      BY <2>3 DEF Selects
  <1>6. QED
    BY <1>3, <1>5, AcceptStepped

\* An A-Day turn; it moves in the queue or among those who still owe one.
LEMMA RecordADayReady ==
  ASSUME Live(bid), NEW m \in Members, RecordADay(m)
  PROVE  \E s : /\ AcceptOrdinary(s) /\ Ready(s, FALSE) /\ Answerable(s)
                /\ s.order = bid.order /\ s.fills = bid.fills /\ s.completed = bid.completed
                /\ s.acting = bid.acting /\ s.disposition = bid.disposition
                /\ s.revoked = bid.revoked /\ s.responses = bid.responses
                /\ s.unresolved = bid.unresolved \ {m}
                /\ s.returning = IF bid.returning = m THEN None ELSE bid.returning
                /\ s.picks = bid.picks \cup {m}
                /\ bid.bidder = m /\ m \in Awarded(bid) \ bid.picks
                /\ \/ /\ ~IsOrdinaryADayTurn(bid)
                      /\ s.cursor = bid.cursor /\ Executing(s) \in {"complete", "a_day_bid"}
                   \/ /\ InQueue(s) /\ s.cursor > bid.cursor
                      /\ \A i \in DOMAIN bid.order :
                           (i > bid.cursor /\ i < s.cursor) => ~Offers(s, bid.order[i])
  <1> DEFINE rest   == Among(bid.owing, Members \ {m})
             chosen == [bid EXCEPT !.picks = @ \cup {m}]
             picked == SettleSelected(chosen, m)
             next   == IF IsOrdinaryADayTurn(bid) THEN Advance(picked, bid.cursor + 1)
                       ELSE IF rest = <<>>
                       THEN [picked EXCEPT !.phase = "complete", !.bidder = None]
                       ELSE [picked EXCEPT !.bidder = Head(rest)]
  <1>1. /\ AcceptOrdinary(next) /\ bid.phase = "a_day_bid" /\ bid.bidder = m
        /\ m \in Awarded(bid) \ bid.picks
    BY DEF RecordADay
  <1>2. bid \in Documents /\ bid.cursor \in Nat \ {0} /\ bid.review = None
        /\ Executing(bid) = "a_day_bid"
    BY <1>1 DEF Live, Shape, Documents, Adjudicated, Executing
  <1>3. /\ chosen \in Documents /\ BesideReview([chosen EXCEPT !.picks = bid.picks], bid)
        /\ chosen.order = bid.order /\ chosen.cursor = bid.cursor
        /\ chosen.bidder = bid.bidder /\ chosen.phase = bid.phase /\ chosen.held = bid.held
        /\ chosen.last = bid.last /\ chosen.fills = bid.fills /\ chosen.review = bid.review
        /\ chosen.completed = bid.completed
        /\ chosen.acting = bid.acting /\ chosen.disposition = bid.disposition
        /\ chosen.revoked = bid.revoked /\ chosen.responses = bid.responses
        /\ chosen.owing = bid.owing
        /\ chosen.picks = bid.picks \cup {m} /\ chosen.unresolved = bid.unresolved
        /\ chosen.returning = bid.returning
    BY <1>2 DEF Documents, BesideReview
  <1> HIDE DEF chosen
  <1>4. /\ Shape(chosen) /\ Forward(chosen) /\ SameTurn(bid, chosen)
        /\ Len(chosen.order) <= MaxTurns
    BY <1>3, SameQueueReady DEF Live, Shape
  <1>5. /\ Shape(picked) /\ SameTurn(chosen, picked) /\ BesideContacts(chosen, picked)
        /\ picked.unresolved = chosen.unresolved \ {m}
        /\ picked.returning = IF chosen.returning = m THEN None ELSE chosen.returning
    BY <1>4, SettledShape
  <1> HIDE DEF picked
  <1>6. /\ Awarded(picked) = Awarded(bid) /\ Given(picked) = Given(bid) /\ Evaluable(picked)
        /\ picked.cursor = bid.cursor /\ picked.phase = "a_day_bid" /\ picked.held = None
        /\ picked.picks = bid.picks \cup {m} /\ picked.order = bid.order
        /\ picked.review = None /\ picked.fills = bid.fills
    BY <1>1, <1>2, <1>3, <1>5
       DEF BesideContacts, Live, Shape, Awarded, Given, Filled, Evaluable
  <1>7. \A t : Beside(picked, t) =>
          /\ t.order = bid.order /\ t.fills = bid.fills /\ t.completed = bid.completed
          /\ t.acting = bid.acting /\ t.disposition = bid.disposition
          /\ t.revoked = bid.revoked /\ t.responses = bid.responses /\ t.review = None
          /\ t.unresolved = bid.unresolved \ {m}
          /\ t.returning = IF bid.returning = m THEN None ELSE bid.returning
          /\ t.picks = bid.picks \cup {m}
    BY <1>3, <1>5, <1>6 DEF Beside, BesideContacts
  <1>8. CASE IsOrdinaryADayTurn(bid)
    <2>1. next = Advance(picked, bid.cursor + 1) /\ bid.cursor + 1 \in Nat \ {0}
      BY <1>2, <1>8
    <2> HIDE DEF next
    <2>2. /\ Shape(next) /\ Answerable(next) /\ next.cursor >= bid.cursor + 1
          /\ Beside(picked, next) /\ InQueue(next)
          /\ \A i \in DOMAIN picked.order :
               (i >= bid.cursor + 1 /\ i < next.cursor) => ~Offers(picked, picked.order[i])
      BY <1>5, <1>6, <2>1, AdvanceShape DEF Shape, InQueue
    <2>3. next.cursor \in Nat /\ next.cursor > bid.cursor /\ \A i \in DOMAIN bid.order : i \in Nat
      BY <1>2, <2>2 DEF Shape, Documents
    <2>4. Forward(next)
      BY <1>2, <1>7, <2>2, <2>3 DEF Forward
    <2>5. Ready(next, FALSE)
      BY <1>7, <2>2, <2>4 DEF Ready, Adjudicated, Live
    <2>6. ASSUME NEW i \in DOMAIN bid.order, i > bid.cursor, i < next.cursor
          PROVE  ~Offers(next, bid.order[i])
      <3>1. ~Offers(picked, bid.order[i])
        BY <1>2, <1>6, <2>2, <2>3, <2>6
      <3>2. /\ next.completed = picked.completed /\ next.acting = picked.acting
            /\ next.picks = picked.picks /\ next.fills = picked.fills
            /\ next.order = picked.order
        BY <2>2 DEF Beside
      <3>3. QED
        BY <3>1, <3>2
           DEF Offers, OffersADay, OwesADay, DefersADay, HasOpenTurn, TurnsOf, BelongsToTurn,
               TurnIsCompleted, Awarded, Filled, Seat
    <2>7. QED
      BY <1>1, <1>7, <2>2, <2>3, <2>5, <2>6
  <1>9. CASE ~IsOrdinaryADayTurn(bid) /\ rest = <<>>
    <2>1. next = [picked EXCEPT !.phase = "complete", !.bidder = None]
      BY <1>9
    <2> HIDE DEF next
    <2>2. /\ next \in Documents /\ Beside(picked, next) /\ next.phase = "complete"
          /\ next.bidder = None /\ next.held = None /\ next.cursor = picked.cursor
      BY <1>5, <1>6, <2>1 DEF Shape, Documents, Beside, Opt, Phases
    <2>3. Executing(next) = "complete"
      BY <2>2 DEF Executing
    <2>4. Shape(next) /\ Answerable(next)
      BY <1>5, <2>2, <2>3 DEF Shape, TurnPlaced, Beside, Answerable
    <2>5. Forward(next)
      BY <1>2, <1>6, <1>7, <2>2 DEF Forward
    <2>6. Ready(next, FALSE)
      BY <1>7, <2>2, <2>4, <2>5 DEF Ready, Adjudicated, Live
    <2>7. QED
      BY <1>1, <1>6, <1>7, <1>9, <2>2, <2>3, <2>4, <2>6
  <1>10. CASE ~IsOrdinaryADayTurn(bid) /\ rest # <<>>
    <2>1. next = [picked EXCEPT !.bidder = Head(rest)]
      BY <1>10
    <2> HIDE DEF next
    <2>2. bid.owing \in Seq(Members)
      BY <1>2 DEF Documents
    <2>3. Filtered(bid.owing, Members, Members \ {m}, Len(bid.owing), rest)
      BY <2>2, AmongFilters
    <2> HIDE DEF rest
    <2>4. /\ rest \in Seq(Members) /\ Head(rest) = rest[1] /\ 1 \in 1 .. Len(rest)
      BY <1>10, <2>3 DEF Filtered
    <2>5. Head(rest) \in Members \ {m} /\ \E i \in DOMAIN bid.owing : Head(rest) = bid.owing[i]
      BY <2>2, <2>3, <2>4 DEF Filtered
    <2>6. Head(rest) \in Awarded(bid) \ (bid.picks \cup Given(bid) \cup {m})
      BY <2>5 DEF Live, Paid
    <2>7. /\ next \in Documents /\ Beside(picked, next) /\ next.phase = "a_day_bid"
          /\ next.bidder = Head(rest) /\ next.held = None /\ next.cursor = picked.cursor
      BY <1>5, <1>6, <2>1, <2>5 DEF Shape, Documents, Beside, Opt, Phases
    <2>8. Executing(next) = "a_day_bid" /\ next.bidder # None
      BY <2>5, <2>7, BidPolicy DEF Executing
    <2>9. Awarded(next) = Awarded(bid) /\ Given(next) = Given(bid)
      BY <1>7, <2>7 DEF Awarded, Given, Filled
    <2>10. Shape(next) /\ Answerable(next)
      BY <1>5, <1>7, <2>6, <2>7, <2>8, <2>9 DEF Shape, TurnPlaced, Beside, Answerable
    <2>11. Forward(next)
      BY <1>2, <1>6, <1>7, <2>7 DEF Forward
    <2>12. Ready(next, FALSE)
      BY <1>7, <2>7, <2>10, <2>11 DEF Ready, Adjudicated, Live
    <2>13. QED
      BY <1>1, <1>6, <1>7, <1>10, <2>7, <2>8, <2>10, <2>12
  <1>11. QED
    BY <1>8, <1>9, <1>10

LEMMA RecordADayStepped ==
  ASSUME Live(bid), NEW m \in Members, RecordADay(m)
  PROVE  /\ Stepped /\ SamePeople(bid, bid') /\ SameQueue(bid, bid') /\ Answerable(bid')
         /\ bid'.unresolved = bid.unresolved \ {m}
         /\ bid'.returning = IF bid.returning = m THEN None ELSE bid.returning
         /\ bid'.picks = bid.picks \cup {m}
         /\ bid.bidder = m /\ m \in Awarded(bid) \ bid.picks
         /\ \/ /\ ~IsOrdinaryADayTurn(bid) /\ bid'.cursor = bid.cursor
               /\ bid.cursor \notin DOMAIN bid.order => InQueue(bid')
            \/ /\ InQueue(bid')
               /\ \A i \in DOMAIN bid.order :
                    (i > bid.cursor /\ i < bid'.cursor) =>
                      \/ TurnIsCompleted(bid, bid.order[i])
                      \/ bid.order[i].member \in bid.acting \cup Awarded(bid')
  <1>1. PICK s :
          /\ AcceptOrdinary(s) /\ Ready(s, FALSE) /\ Answerable(s)
          /\ s.order = bid.order /\ s.fills = bid.fills /\ s.completed = bid.completed
          /\ s.acting = bid.acting /\ s.disposition = bid.disposition
          /\ s.revoked = bid.revoked /\ s.responses = bid.responses
          /\ s.unresolved = bid.unresolved \ {m}
          /\ s.returning = IF bid.returning = m THEN None ELSE bid.returning
          /\ s.picks = bid.picks \cup {m}
          /\ bid.bidder = m /\ m \in Awarded(bid) \ bid.picks
          /\ \/ /\ ~IsOrdinaryADayTurn(bid)
                /\ s.cursor = bid.cursor /\ Executing(s) \in {"complete", "a_day_bid"}
             \/ /\ InQueue(s) /\ s.cursor > bid.cursor
                /\ \A i \in DOMAIN bid.order :
                     (i > bid.cursor /\ i < s.cursor) => ~Offers(s, bid.order[i])
    BY RecordADayReady
  <1>2. Stepped /\ Follows(s, FALSE)
    BY <1>1, AcceptStepped DEF AcceptOrdinary, GivenWell
  <1>3. /\ BesideEvaluation(s, bid') /\ bid'.cursor = s.cursor
        /\ Awarded(s) = Awarded(bid) /\ Given(s) = Given(bid) /\ Awarded(bid') = Awarded(bid)
    BY <1>1, <1>2 DEF Follows, BesideEvaluation, Awarded, Given, Filled
  <1>4. bid'.picks = bid.picks \cup {m}
    BY <1>1, <1>2, <1>3 DEF Follows, Live, Paid
  <1>5. SamePeople(bid, bid') /\ SameQueue(bid, bid')
    BY <1>1, <1>3 DEF BesideEvaluation, SamePeople, SameQueue
  <1>6. CASE /\ ~IsOrdinaryADayTurn(bid)
             /\ s.cursor = bid.cursor /\ Executing(s) \in {"complete", "a_day_bid"}
    <2>1. bid.cursor \notin DOMAIN bid.order => InQueue(s)
      BY <1>1, <1>6 DEF InQueue
    <2>2. QED
      BY <1>1, <1>2, <1>3, <1>4, <1>5, <1>6, <2>1 DEF Follows, BesideEvaluation
  <1>7. CASE /\ InQueue(s) /\ s.cursor > bid.cursor
             /\ \A i \in DOMAIN bid.order :
                  (i > bid.cursor /\ i < s.cursor) => ~Offers(s, bid.order[i])
    <2>1. \A i \in DOMAIN bid.order :
            ~Offers(s, bid.order[i]) =>
              \/ TurnIsCompleted(bid, bid.order[i])
              \/ bid.order[i].member \in bid.acting \cup Awarded(bid')
      BY <1>1, <1>3 DEF Offers, TurnIsCompleted
    <2>2. QED
      BY <1>1, <1>2, <1>3, <1>4, <1>5, <1>7, <2>1 DEF Follows, BesideEvaluation
  <1>8. QED
    BY <1>1, <1>6, <1>7

LEMMA DirectADayStepped ==
  ASSUME Live(bid), NEW m \in Members, DirectADay(m)
  PROVE  Stepped
  <1> DEFINE chosen == [bid EXCEPT !.fills[Seat(bid, m)] = Award(m, TRUE, None),
                                   !.picks = @ \ {m}, !.review = None]
             s == SettleSelected(chosen, m)
  <1>1. Accept(s, TRUE, m) /\ m \in Awarded(bid)
    BY DEF DirectADay, AcceptDirected
  <1>2. Seat(bid, m) \in Positions
    BY <1>1, MembersTyped DEF Filled
  <1>3. Award(m, TRUE, None) \in Awards /\ Award(m, TRUE, None) # None
    BY <1>2, NullIsNoRecord DEF Award, Awards, Opt
  <1>4. /\ chosen \in Documents
        /\ chosen.order = bid.order /\ chosen.cursor = bid.cursor
        /\ chosen.bidder = bid.bidder /\ chosen.phase = bid.phase /\ chosen.held = bid.held
        /\ chosen.last = bid.last /\ chosen.review = None
        /\ chosen.fills = [bid.fills EXCEPT ![Seat(bid, m)] = Award(m, TRUE, None)]
    <2> HIDE DEF Award
    <2>1. QED
      BY <1>2, <1>3 DEF Live, Shape, Documents, Opt
  <1> HIDE DEF chosen
  <1>5. chosen.last # None => chosen.fills[chosen.last] # None
    <2>1. bid.last # None => bid.last \in Positions /\ bid.fills[bid.last] # None
      BY DEF Live, Shape, Documents, Opt
    <2>2. bid.fills \in [Positions -> Opt(Awards)]
      BY DEF Live, Shape, Documents
    <2> HIDE DEF Award
    <2>3. QED
      BY <1>2, <1>3, <1>4, <2>1, <2>2
  <1>6. /\ Shape(chosen) /\ Forward(chosen) /\ SameTurn(bid, chosen)
        /\ Len(chosen.order) <= MaxTurns
    BY <1>4, <1>5, SameQueueReady
  <1>7. Shape(s) /\ SameTurn(chosen, s) /\ BesideContacts(chosen, s)
    BY <1>6, SettledShape
  <1> HIDE DEF s
  <1>8. Ready(s, TRUE) /\ SameTurn(bid, s)
    BY <1>4, <1>6, <1>7 DEF Ready, Adjudicated, SameTurn, BesideContacts, Forward
  <1>9. QED
    BY <1>1, <1>8, AcceptStepped DEF GivenWell

LEMMA PickingADayStepped ==
  ASSUME Live(bid), PickingADay
  PROVE  Stepped
  <1>1. ASSUME NEW m \in Members, RecordADay(m) PROVE Stepped
    BY <1>1, RecordADayReady, AcceptStepped DEF AcceptOrdinary, GivenWell
  <1>2. QED
    BY <1>1, DirectADayStepped DEF PickingADay

-----------------------------------------------------------------------------
(* Corrections.                                                            *)

LEMMA CorrectRevokeStepped ==
  ASSUME Live(bid), NEW m \in Members, NEW override \in BOOLEAN, CorrectRevoke(m, override)
  PROVE  Stepped /\ (~override => Waits /\ StayAsked)
  <1> DEFINE revocation == Revocation(Seat(bid, m), HasADay(m))
             s == [bid EXCEPT !.fills = Vacated(m), !.picks = @ \ {m},
                              !.last = IF @ = Seat(bid, m) THEN None ELSE @,
                              !.revoked[m] = revocation]
             t == CloseReview(s, override)
  <1>1. PICK named : /\ m \in Awarded(bid)
                     /\ override \/ bid.review = None
                     /\ Accept(t, override, named)
    BY DEF CorrectRevoke, AcceptCorrection
  <1>2. /\ Seat(bid, m) \in Positions /\ bid \in Documents
        /\ \A p \in Filled(bid) : bid.fills[p].member = m => p = Seat(bid, m)
    BY <1>1, MembersTyped DEF Filled, Live, Shape
  <1>3. revocation \in Revocations /\ revocation # None
    <2>1. HasADay(m) \in BOOLEAN
      <3>1. bid.fills[Seat(bid, m)] \in Awards
        BY <1>1, MembersTyped
      <3>2. bid.fills[Seat(bid, m)].aDay \in BOOLEAN
        BY <3>1 DEF Awards
      <3>3. HasADay(m) = (bid.fills[Seat(bid, m)].aDay \/ m \in bid.picks)
        BY <1>1 DEF HasADay
      <3>4. QED
        BY <3>2, <3>3
    <2> HIDE DEF HasADay
    <2>2. revocation # None
      BY <1>2, <2>1, NullIsNoRecord
    <2>3. QED
      BY <1>2, <2>1, <2>2 DEF Revocation, Revocations
  <1> HIDE DEF revocation
  <1>4. /\ Vacated(m) \in [Positions -> Opt(Awards)]
        /\ \A p \in Positions :
             bid.fills[p] # None /\ p # Seat(bid, m) => Vacated(m)[p] = bid.fills[p]
    BY <1>2 DEF Vacated, Documents, Opt, Filled
  <1>5. /\ s \in Documents /\ s.fills = Vacated(m)
        /\ s.last = IF bid.last = Seat(bid, m) THEN None ELSE bid.last
        /\ s.order = bid.order /\ s.cursor = bid.cursor /\ s.bidder = bid.bidder
        /\ s.phase = bid.phase /\ s.held = bid.held /\ s.review = bid.review
        /\ s.revoked = [bid.revoked EXCEPT ![m] = revocation]
        /\ s.acting = bid.acting /\ s.disposition = bid.disposition
        /\ s.unresolved = bid.unresolved /\ s.returning = bid.returning
        /\ s.completed = bid.completed
    <2> HIDE DEF Vacated, Seat
    <2> DEFINE last == IF bid.last = Seat(bid, m) THEN None ELSE bid.last
    <2>1. last \in Opt(Positions)
      BY <1>2 DEF Documents, Opt
    <2> HIDE DEF last
    <2>2. [bid EXCEPT !.fills = Vacated(m), !.picks = @ \ {m}, !.last = last,
                      !.revoked[m] = revocation] \in Documents
      BY <1>2, <1>3, <1>4, <2>1 DEF Documents, Opt
    <2>3. s = [bid EXCEPT !.fills = Vacated(m), !.picks = @ \ {m}, !.last = last,
                          !.revoked[m] = revocation]
      BY <1>2 DEF Documents, last
    <2> HIDE DEF s
    <2>4. QED
      BY <1>2, <2>2, <2>3 DEF Documents, last
  <1>6. s.last # None => s.fills[s.last] # None
    <2>1. bid.last # None => bid.last \in Positions /\ bid.fills[bid.last] # None
      BY DEF Live, Shape, Documents, Opt
    <2> HIDE DEF Vacated, Seat, s
    <2>2. QED
      BY <1>4, <1>5, <2>1
  <1> HIDE DEF s
  <1>7. Shape(s) /\ SameTurn(bid, s)
    BY <1>5, <1>6, SameQueueReady
  <1>8. /\ Shape(t) /\ SameTurn(s, t) /\ BesideReview(s, t)
        /\ t.review = IF override THEN None ELSE s.review
    BY <1>7, ClosedShape
  <1> HIDE DEF t
  <1>9. Stepped /\ Follows(t, override) /\ (InQueue(bid) => InQueue(bid'))
    BY <1>1, <1>5, <1>7, <1>8, QuietStepped DEF SameTurn, BesideReview
  <1>10. /\ bid'.fills = Vacated(m) /\ bid'.revoked = [bid.revoked EXCEPT ![m] = revocation]
         /\ bid'.acting = bid.acting /\ bid'.disposition = bid.disposition
         /\ bid'.unresolved = bid.unresolved /\ bid'.returning = bid.returning
         /\ bid'.completed = bid.completed /\ bid'.order = bid.order
         /\ ~override => bid'.cursor = bid.cursor
    BY <1>5, <1>8, <1>9 DEF Follows, BesideReview, BesideEvaluation
  <1>11. \A n \in Awarded(bid) \ {m} : n \in Awarded(bid')
    <2>1. \A p \in Filled(bid) : bid.fills[p].member # m => Vacated(m)[p] = bid.fills[p]
      BY <1>1, <1>4, MembersTyped DEF Filled
    <2> HIDE DEF Vacated
    <2>2. QED
      BY <1>10, <2>1 DEF Awarded, Filled
  <1>12. bid'.revoked[m] # None /\ \A n \in Members \ {m} : bid'.revoked[n] = bid.revoked[n]
    BY <1>2, <1>3, <1>10 DEF Documents
  <1>13. StayAsked
    BY <1>10, <1>11, <1>12 DEF StayAsked, HasBeenAsked
  <1>14. QED
    BY <1>9, <1>10, <1>13 DEF Waits, SameQueue

LEMMA CorrectReplaceStepped ==
  ASSUME Live(bid), NEW m \in Members, NEW p \in Positions, NEW aDay \in BOOLEAN,
         NEW override \in BOOLEAN, CorrectReplace(m, p, aDay, override)
  PROVE  Stepped /\ (~override => Waits /\ StayAsked)
  <1> DEFINE deferral == IF override /\ ~aDay THEN p ELSE None
             award == Award(m, aDay, deferral)
             s == [bid EXCEPT !.fills = [Vacated(m) EXCEPT ![p] = award],
                              !.picks = @ \ {m}, !.last = p, !.revoked[m] = None]
             u == IF override THEN SettleSelected(s, m) ELSE s
             t == CloseReview(u, override)
  <1>1. PICK named : (override \/ bid.review = None) /\ Accept(t, override, named)
    BY DEF CorrectReplace, AcceptCorrection
  <1>2. award \in Awards /\ award # None /\ award.member = m
    BY NullIsNoRecord DEF Award, Awards, Opt
  <1> HIDE DEF award
  <1>3. /\ s \in Documents /\ s.fills[p] = award /\ s.last = p
        /\ \A q \in Positions \ {p} : s.fills[q] = Vacated(m)[q]
        /\ s.revoked = [bid.revoked EXCEPT ![m] = None]
        /\ s.acting = bid.acting /\ s.disposition = bid.disposition
        /\ s.unresolved = bid.unresolved /\ s.returning = bid.returning
        /\ s.completed = bid.completed
        /\ s.order = bid.order /\ s.cursor = bid.cursor /\ s.bidder = bid.bidder
        /\ s.phase = bid.phase /\ s.held = bid.held /\ s.review = bid.review
    <2>1. bid \in Documents
      BY DEF Live, Shape
    <2>2. Vacated(m) \in [Positions -> Opt(Awards)]
      BY <2>1 DEF Vacated, Documents, Opt, Filled
    <2> HIDE DEF Vacated
    <2>3. QED
      BY <1>2, <2>1, <2>2 DEF Documents, Opt
  <1> HIDE DEF s
  <1>4. Shape(s) /\ SameTurn(bid, s)
    BY <1>2, <1>3, SameQueueReady
  <1>5. /\ Shape(u) /\ SameTurn(s, u) /\ u.order = s.order /\ u.review = s.review
        /\ ~override => u = s
    <2>1. CASE override
      BY <1>4, <2>1, SettledShape DEF BesideContacts
    <2>2. CASE ~override
      BY <1>4, <2>2 DEF SameTurn
    <2>3. QED
      BY <2>1, <2>2
  <1> HIDE DEF u
  <1>6. /\ Shape(t) /\ SameTurn(u, t) /\ BesideReview(u, t)
        /\ t.review = IF override THEN None ELSE u.review
    BY <1>5, ClosedShape
  <1> HIDE DEF t
  <1>7. Stepped /\ Follows(t, override) /\ (InQueue(bid) => InQueue(bid'))
    BY <1>1, <1>3, <1>4, <1>5, <1>6, QuietStepped DEF SameTurn, BesideReview
  <1>8. SUFFICES ASSUME ~override PROVE Waits /\ StayAsked
    BY <1>7
  <1>9. /\ bid'.fills = s.fills /\ bid'.revoked = s.revoked
        /\ bid'.acting = bid.acting /\ bid'.disposition = bid.disposition
        /\ bid'.unresolved = bid.unresolved /\ bid'.returning = bid.returning
        /\ bid'.completed = bid.completed /\ bid'.order = bid.order
        /\ bid'.cursor = bid.cursor
    BY <1>3, <1>5, <1>6, <1>7, <1>8 DEF Follows, BesideReview, BesideEvaluation
  <1>10. \A n \in Awarded(bid) \cup {m} : n \in Awarded(bid')
    <2>1. m \in Awarded(bid')
      BY <1>2, <1>3, <1>9 DEF Awarded, Filled
    <2>2. ASSUME NEW n \in Awarded(bid) \ {m} PROVE n \in Awarded(bid')
      <3>1. PICK q \in Filled(bid) : bid.fills[q].member = n
        BY <2>2 DEF Awarded
      <3>2. Vacated(m)[q] = bid.fills[q] /\ q \in Positions /\ bid.fills[q] # None
        BY <2>2, <3>1 DEF Vacated, Filled
      <3>3. q # p
        BY <3>2 DEF CorrectReplace
      <3>4. bid'.fills[q] = bid.fills[q]
        BY <1>3, <1>9, <3>2, <3>3
      <3>5. QED
        BY <3>1, <3>2, <3>4 DEF Awarded, Filled
    <2>3. QED
      BY <2>1, <2>2
  <1>11. \A n \in Members \ {m} : bid'.revoked[n] = bid.revoked[n]
    BY <1>3, <1>9 DEF Live, Shape, Documents
  <1>12. QED
    BY <1>7, <1>9, <1>10, <1>11 DEF Waits, SameQueue, StayAsked, HasBeenAsked

LEMMA AmendStepped ==
  ASSUME Live(bid), NEW p \in Positions, NEW aDay \in BOOLEAN, Amend(p, aDay)
  PROVE  Stepped /\ Waits /\ StayAsked
  <1> DEFINE prior == bid.fills[bid.last]
             moved == [prior EXCEPT !.aDay = @ \/ aDay]
             s == [bid EXCEPT !.fills = [@ EXCEPT ![bid.last] = None, ![p] = moved],
                              !.last = p]
  <1>1. Accept(s, FALSE, None) /\ bid.last # None
    BY DEF Amend, AcceptOrdinary
  <1>2. bid \in Documents /\ prior \in Awards /\ bid.last \in Positions
    BY <1>1 DEF Live, Shape, Documents, Opt
  <1>3. moved \in Awards /\ moved # None /\ moved.member = prior.member
    <2>1. moved = Award(prior.member, prior.aDay \/ aDay, prior.deferral)
      BY <1>2 DEF Award, Awards
    <2>2. /\ prior.member \in Members /\ (prior.aDay \/ aDay) \in BOOLEAN
          /\ prior.deferral \in Opt(Positions)
      BY <1>2 DEF Awards
    <2> HIDE DEF prior
    <2>3. QED
      BY <2>1, <2>2, NullIsNoRecord DEF Award, Awards, Opt
  <1> HIDE DEF moved, prior
  <1>4. /\ s \in Documents /\ s.fills[p] = moved /\ s.last = p
        /\ \A q \in Positions \ {p, bid.last} : s.fills[q] = bid.fills[q]
        /\ s.revoked = bid.revoked
        /\ s.acting = bid.acting /\ s.disposition = bid.disposition
        /\ s.unresolved = bid.unresolved /\ s.returning = bid.returning
        /\ s.completed = bid.completed
        /\ s.order = bid.order /\ s.cursor = bid.cursor /\ s.bidder = bid.bidder
        /\ s.phase = bid.phase /\ s.held = bid.held /\ s.review = bid.review
    BY <1>2, <1>3 DEF Documents, Opt
  <1> HIDE DEF s
  <1>5. Shape(s) /\ SameTurn(bid, s)
    BY <1>3, <1>4, SameQueueReady
  <1>6. Stepped /\ Follows(s, FALSE) /\ (InQueue(bid) => InQueue(bid'))
    BY <1>1, <1>4, <1>5, QuietStepped
  <1>7. /\ bid'.fills = s.fills /\ bid'.revoked = bid.revoked
        /\ bid'.acting = bid.acting /\ bid'.disposition = bid.disposition
        /\ bid'.unresolved = bid.unresolved /\ bid'.returning = bid.returning
        /\ bid'.completed = bid.completed /\ bid'.order = bid.order
        /\ bid'.cursor = bid.cursor
    BY <1>4, <1>6 DEF Follows, BesideEvaluation
  <1>8. \A n \in Awarded(bid) : n \in Awarded(bid')
    <2>1. ASSUME NEW q \in Filled(bid)
          PROVE  \E x \in Filled(bid') : bid'.fills[x].member = bid.fills[q].member
      <3>1. p \in Filled(bid') /\ bid'.fills[p].member = prior.member
        BY <1>3, <1>4, <1>7 DEF Filled
      <3>2. q # p
        BY <2>1 DEF Amend, OpenSeat, Filled
      <3>3. CASE q = bid.last
        BY <3>1, <3>3 DEF prior
      <3>4. CASE q # bid.last
        BY <1>4, <1>7, <2>1, <3>2, <3>4 DEF Filled
      <3>5. QED
        BY <3>3, <3>4
    <2>2. QED
      BY <2>1 DEF Awarded
  <1>9. QED
    BY <1>6, <1>7, <1>8 DEF Waits, SameQueue, StayAsked, HasBeenAsked

LEMMA CorrectingStepped ==
  ASSUME Live(bid), Correcting
  PROVE  Stepped /\ ("force" \notin Granted => Waits /\ StayAsked)
  <1>1. ASSUME NEW m \in Members, NEW override \in BOOLEAN, CorrectRevoke(m, override)
        PROVE  override => "force" \in Granted
    BY <1>1 DEF CorrectRevoke, AcceptCorrection, Permitted
  <1>2. ASSUME NEW m \in Members, NEW p \in Positions, NEW aDay \in BOOLEAN,
               NEW override \in BOOLEAN, CorrectReplace(m, p, aDay, override)
        PROVE  override => "force" \in Granted
    BY <1>2 DEF CorrectReplace, AcceptCorrection, Permitted
  <1>3. QED
    BY <1>1, <1>2, CorrectRevokeStepped, CorrectReplaceStepped, AmendStepped DEF Correcting

-----------------------------------------------------------------------------
(* The clock, the stages and the order.                                    *)

LEMMA PauseStepped ==
  ASSUME Live(bid), Pause \/ Resume
  PROVE  /\ Stepped /\ Waits /\ SamePeople(bid, bid') /\ SameTurn(bid, bid')
         /\ bid'.unresolved = bid.unresolved /\ bid'.returning = bid.returning
         /\ bid'.picks = bid.picks
  <1>1. bid \in Documents /\ ((bid.held # None) <=> (bid.phase = "paused"))
    BY DEF Live, Shape
  <1>2. PICK phase \in Phases, held \in Opt(Phases \ {"paused"}) :
          /\ bid' = [bid EXCEPT !.phase = phase, !.held = held]
          /\ \/ phase = "paused" /\ held = bid.phase /\ bid.phase # "paused"
             \/ phase = bid.held /\ held = None /\ bid.phase = "paused" /\ phase # "paused"
    BY <1>1 DEF Pause, Resume, Documents, Opt, Phases
  <1>3. /\ bid' \in Documents /\ BesideEvaluation(bid, bid')
        /\ bid'.phase = phase /\ bid'.held = held
        /\ bid'.cursor = bid.cursor /\ bid'.bidder = bid.bidder
        /\ bid'.picks = bid.picks /\ bid'.owing = bid.owing
    BY <1>1, <1>2 DEF Documents, BesideEvaluation
  <1>4. SameTurn(bid, bid') /\ ((bid'.held # None) <=> (bid'.phase = "paused"))
    <2>1. bid.phase \in Phases /\ bid.phase # None
      BY <1>1, BidPolicy DEF Documents
    <2>2. QED
      BY <1>1, <1>2, <1>3, <2>1 DEF SameTurn, Executing
  <1>5. Awarded(bid') = Awarded(bid) /\ Given(bid') = Given(bid) /\ Evaluable(bid')
    BY <1>3 DEF BesideEvaluation, Awarded, Given, Filled, Evaluable, Live
  <1>6. Shape(bid') /\ Adjudicated(bid') /\ Paid(bid')
    BY <1>3, <1>4, <1>5
       DEF Live, Shape, TurnPlaced, Adjudicated, Paid, SameTurn, BesideEvaluation
  <1>7. Forward(bid')
    BY <1>1, <1>3 DEF Forward, SameTurn, BesideEvaluation, Documents
  <1>8. Stepped
    BY <1>3, <1>4, <1>5, <1>6, <1>7
       DEF Stepped, Live, GivenWell, SameTurn, BesideEvaluation
  <1>9. Waits /\ SamePeople(bid, bid')
    BY <1>3, <1>4 DEF Waits, SamePeople, SameQueue, InQueue, SameTurn, BesideEvaluation
  <1>10. QED
    BY <1>3, <1>4, <1>8, <1>9 DEF BesideEvaluation

LEMMA CurrentStageTyped ==
  ASSUME NEW s \in Documents, s.order # <<>>
  PROVE  CurrentStage(s) \in StageIds
  <1>1. s.order \in Seq(Turn) /\ Len(s.order) \in DOMAIN s.order
    BY DocumentOrder
  <1>2. QED
    BY <1>1, OrderTyped DEF CurrentStage

LEMMA TransitionStepped ==
  ASSUME Live(bid), NEW st \in StageIds, NEW override \in BOOLEAN, NEW prior \in BOOLEAN,
         NEW withdraw \in SUBSET Biddable, NEW restore \in SUBSET Biddable,
         TransitionStage(st, override, prior, withdraw, restore)
  PROVE  /\ Stepped /\ SamePeople(bid, bid')
         /\ bid'.order = bid.order /\ bid.completed \subseteq bid'.completed
  <1> DEFINE here       == st = CurrentStage(bid)
             closing    == (IF here THEN {} ELSE {CurrentStage(bid)})
                             \cup (IF prior THEN 1 .. st - 1 ELSE {})
             s          == [bid EXCEPT !.completed = @ \cup closing,
                                       !.withdrawn = (@ \cup withdraw) \ restore]
             configured == ClearReturned(s)
             stays      == here /\ closing \subseteq bid.completed
             t          == IF stays THEN configured
                           ELSE Advance(configured, TransitionCursor(st))
  <1>1. /\ Accept(t, override, None) /\ bid.review = None
        /\ \E i \in DOMAIN bid.order : bid.order[i].stage = st
    BY DEF TransitionStage
  <1>2. bid \in Documents /\ bid.order # <<>>
    BY DEF Live, Shape
  <1>3. closing \subseteq StageIds
    <2>1. StageIds = 1 .. Len(Stages) /\ Len(Stages) \in Nat
      BY BidPolicy DEF StageIds
    <2>2. CurrentStage(bid) \in StageIds
      BY <1>2, CurrentStageTyped
    <2>3. 1 .. st - 1 \subseteq StageIds
      BY <2>1
    <2>4. QED
      BY <2>2, <2>3
  <1> HIDE DEF closing
  <1>4. Biddable \subseteq Positions
    <2> DEFINE Stage == [members : SUBSET Members, seats : SUBSET Positions, days : BOOLEAN]
    <2>1. Stages \in Seq(Stage) /\ \A x \in Stage : x.seats \subseteq Positions
      BY BidPolicy
    <2> HIDE DEF Stage
    <2>2. \A i \in StageIds : Stages[i] \in Stage
      BY <2>1 DEF StageIds
    <2>3. QED
      BY <2>1, <2>2 DEF Biddable
  <1>5. /\ s \in Documents /\ s.order = bid.order /\ s.cursor = bid.cursor
        /\ s.bidder = bid.bidder /\ s.phase = bid.phase /\ s.held = bid.held
        /\ s.last = bid.last /\ s.fills = bid.fills /\ s.review = None
        /\ SamePeople(bid, s) /\ bid.completed \subseteq s.completed
    BY <1>1, <1>2, <1>3, <1>4 DEF Documents, SamePeople
  <1> HIDE DEF s
  <1>6. Shape(s) /\ SameTurn(bid, s)
    BY <1>5, SameQueueReady DEF Live, Shape
  <1>7. Shape(configured) /\ SameTurn(s, configured) /\ BesideContacts(s, configured)
    BY <1>6, SettledShape
  <1> HIDE DEF configured
  <1>8. Stepped /\ BesideEvaluation(configured, bid')
    <2>1. CASE stays
      BY <1>1, <1>5, <1>6, <1>7, <2>1, QuietStepped DEF SameTurn, BesideContacts, Follows
    <2>2. CASE ~stays
      <3>1. TransitionCursor(st) \in Nat /\ TransitionCursor(st) >= bid.cursor
        <4> DEFINE T == {i \in DOMAIN bid.order : bid.order[i].stage = st}
        <4>1. T \subseteq Nat /\ T # {}
          BY <1>1, <1>2 DEF Documents
        <4>2. First(T) \in Nat
          BY <4>1, FirstLeast
        <4>3. bid.cursor \in Nat
          BY <1>2 DEF Documents
        <4>4. QED
          BY <4>2, <4>3 DEF TransitionCursor, StageStart, Larger
      <3>2. t = Advance(configured, TransitionCursor(st))
        BY <2>2
      <3> HIDE DEF t
      <3>3. /\ configured \in Documents /\ configured.order = bid.order
            /\ configured.review = None
        BY <1>5, <1>7 DEF Shape, BesideContacts
      <3>4. \A i \in DOMAIN bid.order :
              i < bid.cursor => i \in DOMAIN configured.order /\ configured.order[i] = bid.order[i]
        BY <3>3
      <3>5. QED
        BY <1>1, <1>7, <3>1, <3>2, <3>3, <3>4, AdvanceStepped DEF Live, Shape
    <2>3. QED
      BY <2>1, <2>2
  <1>9. QED
    BY <1>5, <1>7, <1>8 DEF BesideContacts, BesideEvaluation, SamePeople

\* An ordinary alteration may put the turn on a member who cannot answer it.
LEMMA AlterOrderStepped ==
  ASSUME Live(bid), NEW source \in Bijection(Editable, Editable), NEW override \in BOOLEAN,
         AlterOrder(source, override)
  PROVE  /\ Live(bid') /\ Forward(bid') /\ ("alter_order" \notin Granted => GivenWell(bid'))
         /\ SamePeople(bid, bid') /\ bid'.completed = bid.completed
         /\ bid'.unresolved = bid.unresolved /\ bid'.returning = bid.returning
         /\ bid'.picks = bid.picks
         /\ DOMAIN bid'.order = DOMAIN bid.order
         /\ \A i \in DOMAIN bid.order :
              /\ i \notin Editable => bid'.order[i] = bid.order[i]
              /\ i \in Editable => /\ \E j \in Editable : bid'.order[j] = bid.order[i]
                                  /\ \E j \in Editable : bid'.order[i] = bid.order[j]
         /\ (~override /\ bid.completed = {}) =>
              bid'.cursor = bid.cursor /\ InQueue(bid')
  <1> DEFINE order   == [i \in DOMAIN bid.order |->
                          IF i \in Editable THEN bid.order[source[i]] ELSE bid.order[i]]
             placed  == [bid EXCEPT !.order = order]
             altered == CloseReview(placed, override)
             t == IF override \/ Editable # Remaining
                  THEN Advance(altered, bid.cursor)
                  ELSE [altered EXCEPT !.bidder = order[bid.cursor].member]
  <1>1. /\ Accept(t, override, None)
        /\ ~override => /\ bid.phase = "position_bid" /\ bid.review = None
                        /\ "alter_order" \in Granted
    BY DEF AlterOrder, Permitted
  <1>2. bid \in Documents /\ bid.order # <<>> /\ bid.cursor \in Nat \ {0}
    BY DEF Live, Shape, Documents
  <1>3. bid.order \in Seq(Turn) /\ Len(bid.order) \in Nat /\ DOMAIN bid.order = 1 .. Len(bid.order)
    BY <1>2, DocumentOrder, OrderTyped
  <1>4. /\ Editable \subseteq DOMAIN bid.order
        /\ \A i \in Editable : source[i] \in Editable /\ i >= bid.cursor
        /\ \A i \in Editable : \E j \in Editable : source[j] = i
    <2>1. Editable \subseteq DOMAIN bid.order /\ \A i \in Editable : i >= bid.cursor
      BY <1>2, <1>3 DEF Editable, Remaining
    <2> HIDE DEF Editable
    <2>2. source \in [Editable -> Editable] /\ \A i \in Editable : \E j \in Editable : source[j] = i
      BY DEF Bijection, Injection, Surjection
    <2>3. QED
      BY <2>1, <2>2
  <1>5. /\ order \in Seq(Turn) /\ Len(order) = Len(bid.order) /\ order # <<>>
        /\ DOMAIN order = DOMAIN bid.order
        /\ \A i \in DOMAIN bid.order :
             /\ i \notin Editable => order[i] = bid.order[i]
             /\ i \in Editable => /\ \E j \in Editable : order[j] = bid.order[i]
                                 /\ \E j \in Editable : order[i] = bid.order[j]
        /\ \A i \in DOMAIN bid.order :
             i < bid.cursor => i \in DOMAIN order /\ order[i] = bid.order[i]
    <2>1. order \in [1 .. Len(bid.order) -> Turn]
      BY <1>3, <1>4
    <2>2. \A i \in DOMAIN bid.order :
            i < bid.cursor => i \in DOMAIN order /\ order[i] = bid.order[i]
      BY <1>2, <1>3, <1>4
    <2>3. \A i \in DOMAIN bid.order :
            /\ i \notin Editable => order[i] = bid.order[i]
            /\ i \in Editable => /\ \E j \in Editable : order[j] = bid.order[i]
                                /\ \E j \in Editable : order[i] = bid.order[j]
      BY <1>4
    <2> HIDE DEF order
    <2>4. QED
      BY <1>2, <1>3, <2>1, <2>2, <2>3
  <1> HIDE DEF order
  <1>6. /\ placed \in Documents /\ placed.order = order /\ placed.cursor = bid.cursor
        /\ placed.bidder = bid.bidder /\ placed.phase = bid.phase /\ placed.held = bid.held
        /\ placed.last = bid.last /\ placed.fills = bid.fills /\ placed.review = bid.review
        /\ SamePeople(bid, placed) /\ placed.completed = bid.completed
        /\ placed.unresolved = bid.unresolved /\ placed.returning = bid.returning
        /\ placed.picks = bid.picks
    BY <1>2, <1>5 DEF Documents, SamePeople
  <1> HIDE DEF placed
  <1>7. /\ altered \in Documents /\ altered.order = order /\ altered.cursor = bid.cursor
        /\ altered.bidder = bid.bidder /\ altered.phase = bid.phase
        /\ altered.held = bid.held /\ altered.last = bid.last
        /\ altered.fills = bid.fills /\ altered.review = None
        /\ SamePeople(bid, altered) /\ altered.completed = bid.completed
        /\ altered.unresolved = bid.unresolved /\ altered.returning = bid.returning
        /\ altered.picks = bid.picks
    BY <1>1, <1>6 DEF CloseReview, Documents, Opt, SamePeople
  <1> HIDE DEF altered
  <1> DEFINE Result(u) ==
        /\ u.order = order /\ SamePeople(bid, u) /\ u.completed = bid.completed
        /\ u.unresolved = bid.unresolved /\ u.returning = bid.returning
  <1>8. CASE override \/ Editable # Remaining
    <2>1. t = Advance(altered, bid.cursor)
      BY <1>8
    <2> HIDE DEF t
    <2>2. /\ ((altered.held # None) <=> (altered.phase = "paused"))
          /\ altered.last # None => altered.fills[altered.last] # None
          /\ Len(altered.order) <= MaxTurns /\ bid.cursor \in Nat /\ bid.cursor >= bid.cursor
      BY <1>2, <1>5, <1>7 DEF Live, Shape
    <2>3. /\ Stepped /\ BesideEvaluation(altered, bid')
          /\ bid'.picks = (altered.picks \cap Awarded(altered)) \cup Given(altered)
      BY <1>1, <1>5, <1>7, <2>1, <2>2, AdvanceStepped
    <2>4. Result(bid')
      BY <1>7, <2>3 DEF BesideEvaluation, SamePeople
    <2>5. bid'.picks = bid.picks
      <3>1. Awarded(altered) = Awarded(bid) /\ Given(altered) = Given(bid)
        BY <1>7 DEF Awarded, Given, Filled
      <3>2. QED
        BY <1>7, <2>3, <3>1, PicksKept
    <2>6. ~(~override /\ bid.completed = {})
      BY <1>8, <1>3, <1>2 DEF Editable, Remaining, TurnIsCompleted
    <2>7. QED
      BY <1>5, <2>3, <2>4, <2>5, <2>6 DEF Stepped
  <1>9. CASE ~(override \/ Editable # Remaining)
    <2>1. t = [altered EXCEPT !.bidder = order[bid.cursor].member]
      BY <1>9
    <2>2. /\ bid.phase = "position_bid" /\ Executing(bid) = "position_bid"
          /\ "alter_order" \in Granted
      BY <1>1, <1>9 DEF Executing
    <2>3. bid.cursor \in DOMAIN bid.order
      BY <2>2 DEF Live, Shape, TurnPlaced
    <2>4. bid.cursor \in DOMAIN order /\ order[bid.cursor].member \in Members
      BY <1>3, <1>5, <2>3, OrderTyped
    <2> HIDE DEF t
    <2>5. /\ t \in Documents /\ t.order = order /\ t.cursor = bid.cursor
          /\ t.bidder = order[bid.cursor].member /\ t.phase = bid.phase
          /\ t.held = bid.held /\ t.last = bid.last /\ t.fills = bid.fills
          /\ t.review = None /\ Result(t) /\ t.picks = bid.picks
      <3> DEFINE who == order[bid.cursor].member
      <3>1. t = [altered EXCEPT !.bidder = who] /\ who \in Members
        BY <2>1, <2>4
      <3> HIDE DEF who
      <3> HIDE DEF t
      <3>2. altered \in Documents
        BY <1>7
      <3>3. t \in Documents /\ t.bidder = who
        BY <3>1, <3>2 DEF Documents, Opt
      <3>4. /\ t.order = order /\ t.cursor = bid.cursor /\ t.phase = bid.phase
            /\ t.held = bid.held /\ t.last = bid.last /\ t.fills = bid.fills
            /\ t.review = None /\ Result(t) /\ t.picks = bid.picks
        BY <1>7, <3>1, <3>2 DEF Documents, SamePeople
      <3>5. QED
        BY <3>3, <3>4 DEF who
    <2>6. Shape(t)
      BY <1>5, <2>2, <2>4, <2>5, MembersTyped DEF Shape, TurnPlaced, Executing, Live
    <2>7. Ready(t, override)
      BY <1>2, <1>5, <2>5, <2>6 DEF Ready, Adjudicated, Forward, Live
    <2>8. /\ Live(bid') /\ Forward(bid') /\ Follows(t, override)
      BY <1>1, <2>7, AcceptLive
    <2>9. Result(bid')
      BY <2>5, <2>8 DEF Follows, BesideEvaluation, SamePeople
    <2>10. bid'.picks = bid.picks
      BY <2>5, <2>8, NobodyTouched
    <2>11. bid'.cursor = bid.cursor /\ InQueue(bid')
      <3>1. Executing(t) = "position_bid"
        BY <2>2, <2>5 DEF Executing
      <3>2. InQueue(t)
        BY <3>1 DEF InQueue
      <3>3. QED
        BY <1>9, <2>5, <2>8, <3>2 DEF Follows
    <2>12. QED
      BY <1>5, <2>2, <2>8, <2>9, <2>10, <2>11
  <1>10. QED
    BY <1>8, <1>9

LEMMA CompleteStepped ==
  ASSUME Live(bid), CompleteSession
  PROVE  /\ Stepped /\ Waits /\ SamePeople(bid, bid') /\ bid'.picks = bid.picks
         /\ bid'.unresolved = bid.unresolved /\ bid'.returning = None
         /\ Answerable(bid) => Answerable(bid')
  <1> DEFINE s == [bid EXCEPT !.sealed = TRUE, !.returning = None]
  <1>1. Accept(s, FALSE, None)
    BY DEF CompleteSession, AcceptOrdinary
  <1>2. /\ s \in Documents /\ s.order = bid.order /\ s.cursor = bid.cursor
        /\ s.bidder = bid.bidder /\ s.phase = bid.phase /\ s.held = bid.held
        /\ s.last = bid.last /\ s.fills = bid.fills /\ s.review = bid.review
        /\ SamePeople(bid, s) /\ s.completed = bid.completed /\ s.picks = bid.picks
        /\ s.unresolved = bid.unresolved /\ s.returning = None
    BY DEF Live, Shape, Documents, Opt, SamePeople
  <1> HIDE DEF s
  <1>3. Shape(s) /\ SameTurn(bid, s)
    BY <1>2, SameQueueReady DEF Live, Shape
  <1>4. Stepped /\ Follows(s, FALSE) /\ (InQueue(bid) => InQueue(bid'))
    BY <1>1, <1>2, <1>3, QuietStepped
  <1>5. QED
    BY <1>2, <1>3, <1>4, NobodyTouched, AnswerableBeside
       DEF Follows, BesideEvaluation, Waits, SameQueue, SamePeople

-----------------------------------------------------------------------------
(* Acting duty, contact and dispositions.                                  *)

\* The state in which acting duty is given or ended, before anybody moves.
LEMMA DutyShape ==
  ASSUME Live(bid), NEW m \in Members, NEW acting \in SUBSET Members, NEW override,
         override \/ bid.review = None,
         NEW t, t = CloseReview(SettleSelected([bid EXCEPT !.acting = acting], m), override)
  PROVE  /\ Shape(t) /\ SameTurn(bid, t) /\ t.order = bid.order /\ t.review = None
         /\ t.fills = bid.fills /\ t.last = bid.last /\ t.revoked = bid.revoked
         /\ t.picks = bid.picks /\ t.completed = bid.completed /\ t.acting = acting
         /\ t.responses = bid.responses /\ t.disposition = bid.disposition
         /\ t.unresolved = bid.unresolved \ {m}
         /\ t.returning = IF bid.returning = m THEN None ELSE bid.returning
         /\ t.phase = bid.phase /\ t.held = bid.held
  <1> DEFINE s == [bid EXCEPT !.acting = acting]
             u == SettleSelected(s, m)
  <1>1. /\ s \in Documents /\ s.order = bid.order /\ s.cursor = bid.cursor
        /\ s.bidder = bid.bidder /\ s.phase = bid.phase /\ s.held = bid.held
        /\ s.last = bid.last /\ s.fills = bid.fills /\ s.review = bid.review
        /\ s.revoked = bid.revoked /\ s.picks = bid.picks /\ s.completed = bid.completed
        /\ s.acting = acting /\ s.responses = bid.responses
        /\ s.disposition = bid.disposition /\ s.unresolved = bid.unresolved
        /\ s.returning = bid.returning
    BY DEF Live, Shape, Documents
  <1>2. t = CloseReview(u, override)
    OBVIOUS
  <1> HIDE DEF s
  <1>3. Shape(s) /\ SameTurn(bid, s)
    BY <1>1, SameQueueReady DEF Live, Shape
  <1>4. /\ Shape(u) /\ SameTurn(s, u) /\ BesideContacts(s, u)
        /\ u.unresolved = s.unresolved \ {m}
        /\ u.returning = IF s.returning = m THEN None ELSE s.returning
    BY <1>3, SettledShape
  <1> HIDE DEF u
  <1>5. /\ Shape(t) /\ SameTurn(u, t) /\ BesideReview(u, t)
        /\ t.review = IF override THEN None ELSE u.review
    BY <1>2, <1>4, ClosedShape
  <1>6. QED
    BY <1>1, <1>3, <1>4, <1>5 DEF SameTurn, BesideContacts, BesideReview

LEMMA AssignStepped ==
  ASSUME Live(bid), NEW m \in Members, NEW override \in BOOLEAN, AssignActing(m, override)
  PROVE  Stepped
  <1> DEFINE s == CloseReview(SettleSelected([bid EXCEPT !.acting = @ \cup {m}], m), override)
             t == IF m = bid.bidder THEN Advance(s, bid.cursor + 1) ELSE s
  <1>1. /\ override \/ bid.review = None
        /\ Accept(t, override, IF override THEN m ELSE None)
    BY DEF AssignActing, MayAssign
  <1>2. bid.acting \cup {m} \in SUBSET Members /\ bid.cursor \in Nat
    BY DEF Live, Shape, Documents
  <1>3. /\ Shape(s) /\ SameTurn(bid, s) /\ s.order = bid.order /\ s.review = None
        /\ s.fills = bid.fills /\ s.last = bid.last
    BY <1>1, <1>2, DutyShape
  <1> HIDE DEF s
  <1>4. CASE m = bid.bidder
    <2>1. t = Advance(s, bid.cursor + 1) /\ bid.cursor + 1 \in Nat /\ bid.cursor + 1 >= bid.cursor
      BY <1>2, <1>4
    <2> HIDE DEF t
    <2>2. QED
      BY <1>1, <1>3, <2>1, AdvanceStepped DEF Shape, Live
  <1>5. CASE m # bid.bidder
    BY <1>1, <1>3, <1>5, QuietStepped
  <1>6. QED
    BY <1>4, <1>5

LEMMA ReleaseStepped ==
  ASSUME Live(bid), NEW m \in Members, NEW override \in BOOLEAN, ReleaseActing(m, override)
  PROVE  Stepped
  <1> DEFINE s == CloseReview(SettleSelected([bid EXCEPT !.acting = @ \ {m}], m), override)
  <1>1. override \/ bid.review = None
    BY DEF ReleaseActing, MayAssign
  <1>2. PICK t : /\ t = s \/ t = [s EXCEPT !.returning = m]
                 /\ Accept(t, override, IF override THEN m ELSE None)
    BY DEF ReleaseActing
  <1>3. bid.acting \ {m} \in SUBSET Members
    BY DEF Live, Shape, Documents
  <1>4. Shape(s) /\ SameTurn(bid, s) /\ s.order = bid.order /\ s.review = None
    BY <1>1, <1>3, DutyShape
  <1> HIDE DEF s
  <1>5. Shape(t) /\ SameTurn(s, t) /\ t.order = s.order /\ t.review = s.review
    <2>1. CASE t = s
      BY <1>4, <2>1 DEF SameTurn
    <2>2. CASE t = [s EXCEPT !.returning = m]
      <3>1. s \in Documents
        BY <1>4 DEF Shape
      <3>2. t \in Documents
        BY <2>2, <3>1 DEF Documents, Opt
      <3>3. BesideContacts(s, t)
        BY <2>2, <3>1 DEF Documents, BesideContacts
      <3>4. QED
        BY <1>4, <3>2, <3>3 DEF Shape, TurnPlaced, SameTurn, BesideContacts, Executing
    <2>3. QED
      BY <1>2, <2>1, <2>2
  <1>6. QED
    BY <1>1, <1>2, <1>4, <1>5, QuietStepped DEF SameTurn

LEMMA ContactStepped ==
  ASSUME Live(bid), NEW m \in Members,
         ContactAttempt(m) \/ DeclareUnreachable(m) \/ ReturnAtCurrentSequence(m)
  PROVE  /\ Stepped /\ Waits /\ SamePeople(bid, bid') /\ bid'.picks = bid.picks
         /\ Answerable(bid) => Answerable(bid')
         /\ \/ /\ bid'.unresolved = bid.unresolved /\ bid'.returning = bid.returning
            \/ /\ m \in Awarded(bid) => OwesADay(bid, m)
               /\ bid'.unresolved = bid.unresolved \cup {m} /\ bid'.returning = bid.returning
            \/ /\ m \notin Awarded(bid) /\ bid.returning = None
               /\ bid'.unresolved = bid.unresolved \ {m} /\ bid'.returning = m
  <1> DEFINE Contacts(s) ==
        \/ /\ s.unresolved = bid.unresolved /\ s.returning = bid.returning
        \/ /\ m \in Awarded(bid) => OwesADay(bid, m)
           /\ s.unresolved = bid.unresolved \cup {m} /\ s.returning = bid.returning
        \/ /\ m \notin Awarded(bid) /\ bid.returning = None
           /\ s.unresolved = bid.unresolved \ {m} /\ s.returning = m
  <1>1. bid \in Documents
    BY DEF Live, Shape
  <1>2. PICK s :
          /\ Accept(s, FALSE, None)
          /\ \/ s = [bid EXCEPT !.attempts[m] = @ + 1]
             \/ /\ s = [bid EXCEPT !.unresolved = @ \cup {m}]
                /\ m \in Awarded(bid) => OwesADay(bid, m)
             \/ /\ s = [bid EXCEPT !.unresolved = @ \ {m}, !.returning = m]
                /\ m \notin Awarded(bid) /\ bid.returning = None
    BY DEF ContactAttempt, DeclareUnreachable, ReturnAtCurrentSequence, AcceptOrdinary
  <1>3. /\ s \in Documents /\ s.order = bid.order /\ s.cursor = bid.cursor
        /\ s.bidder = bid.bidder /\ s.phase = bid.phase /\ s.held = bid.held
        /\ s.last = bid.last /\ s.fills = bid.fills /\ s.review = bid.review
        /\ SamePeople(bid, s) /\ s.completed = bid.completed /\ s.picks = bid.picks
        /\ Contacts(s)
    <2>1. CASE s = [bid EXCEPT !.attempts[m] = @ + 1]
      <3> DEFINE n == bid.attempts[m] + 1
      <3>1. n \in Nat
        BY <1>1 DEF Documents
      <3>2. s = [bid EXCEPT !.attempts[m] = n]
        BY <2>1
      <3> HIDE DEF n
      <3>3. s \in Documents
        BY <1>1, <3>1, <3>2 DEF Documents
      <3>4. QED
        BY <1>1, <3>2, <3>3 DEF Documents, SamePeople
    <2>2. CASE /\ s = [bid EXCEPT !.unresolved = @ \cup {m}]
               /\ m \in Awarded(bid) => OwesADay(bid, m)
      <3>1. s \in Documents
        BY <1>1, <2>2 DEF Documents
      <3>2. QED
        BY <1>1, <2>2, <3>1 DEF Documents, SamePeople
    <2>3. CASE /\ s = [bid EXCEPT !.unresolved = @ \ {m}, !.returning = m]
               /\ m \notin Awarded(bid) /\ bid.returning = None
      <3>1. s = [bid EXCEPT !.unresolved = @ \ {m}, !.returning = m]
        BY <2>3
      <3>2. s \in Documents
        BY <1>1, <3>1 DEF Documents, Opt
      <3>3. QED
        BY <1>1, <2>3, <3>2 DEF Documents, SamePeople
    <2>4. QED
      BY <1>2, <2>1, <2>2, <2>3
  <1>4. Shape(s) /\ SameTurn(bid, s)
    BY <1>3, SameQueueReady DEF Live, Shape
  <1>5. Stepped /\ Follows(s, FALSE) /\ (InQueue(bid) => InQueue(bid'))
    BY <1>2, <1>3, <1>4, QuietStepped
  <1>6. Contacts(bid')
    BY <1>3, <1>5 DEF Follows, BesideEvaluation
  <1>7. QED
    BY <1>3, <1>4, <1>5, <1>6, NobodyTouched, AnswerableBeside
       DEF Follows, BesideEvaluation, Waits, SameQueue, SamePeople

LEMMA DispositionStepped ==
  ASSUME Live(bid), NEW d \in Dispositions, Disposition(d)
  PROVE  /\ Stepped /\ SameQueue(bid, bid')
         /\ bid'.fills = bid.fills /\ bid'.revoked = bid.revoked /\ bid'.acting = bid.acting
         /\ bid'.responses = bid.responses /\ bid'.picks = bid.picks
         /\ Answerable(bid) => Answerable(bid')
         /\ \E m \in Members :
              /\ m = IF bid.returning # None THEN bid.returning ELSE bid.bidder
              /\ \/ bid.returning # None \/ bid.phase = "position_bid"
                 \/ DefersADay(bid, m) /\ Executing(bid) = "a_day_bid"
              /\ bid'.disposition = [bid.disposition EXCEPT ![m] = d]
              /\ bid'.unresolved \in {bid.unresolved, bid.unresolved \cup {m}}
              /\ bid'.returning = bid.returning \/ (bid'.returning = None /\ bid.returning = m)
              /\ \/ Waits
                 \/ /\ m = bid.bidder /\ InQueue(bid')
                    /\ \A i \in DOMAIN bid.order :
                         (i > bid.cursor /\ i < bid'.cursor) => ~Offers(bid, bid.order[i])
  <1> DEFINE m == IF bid.returning # None THEN bid.returning ELSE bid.bidder
             s == [bid EXCEPT !.disposition[m] = d,
                              !.unresolved = IF d = "UNREACHABLE" THEN @ \cup {m} ELSE @]
             t == IF ~Rules[d].advances THEN s
                  ELSE IF bid.returning = None THEN Advance(s, bid.cursor + 1)
                  ELSE SettleReturned(s, m)
  <1>1. /\ Accept(t, FALSE, None) /\ bid.review = None /\ m # None
        /\ \/ bid.returning # None \/ bid.phase = "position_bid"
           \/ DefersADay(bid, m) /\ Executing(bid) = "a_day_bid"
    BY DEF Disposition, AcceptOrdinary, IsOrdinaryADayTurn, Executing
  <1>2. /\ bid \in Documents /\ bid.cursor \in Nat /\ m \in Members
        /\ m = IF bid.returning # None THEN bid.returning ELSE bid.bidder
    BY <1>1 DEF Live, Shape, Documents, Opt
  <1> HIDE DEF m
  <1>3. /\ s \in Documents /\ s.order = bid.order /\ s.cursor = bid.cursor
        /\ s.bidder = bid.bidder /\ s.phase = bid.phase /\ s.held = bid.held
        /\ s.last = bid.last /\ s.fills = bid.fills /\ s.review = None
        /\ s.revoked = bid.revoked /\ s.acting = bid.acting /\ s.completed = bid.completed
        /\ s.responses = bid.responses /\ s.picks = bid.picks
        /\ s.disposition = [bid.disposition EXCEPT ![m] = d]
        /\ s.unresolved \in {bid.unresolved, bid.unresolved \cup {m}}
        /\ s.returning = bid.returning
    <2> DEFINE cases == IF d = "UNREACHABLE" THEN bid.unresolved \cup {m}
                                             ELSE bid.unresolved
    <2>1. cases \in SUBSET Members /\ m \in Members /\ bid \in Documents
      BY <1>2 DEF Documents
    <2>2. s = [bid EXCEPT !.disposition[m] = d, !.unresolved = cases]
      OBVIOUS
    <2> HIDE DEF s, cases
    <2>3. s \in Documents
      BY <2>1, <2>2 DEF Documents, Opt
    <2>4. s.unresolved = cases /\ s.disposition = [bid.disposition EXCEPT ![m] = d]
      BY <2>1, <2>2 DEF Documents
    <2>5. cases \in {bid.unresolved, bid.unresolved \cup {m}}
      BY DEF cases
    <2>6. QED
      BY <1>1, <2>1, <2>2, <2>3, <2>4, <2>5 DEF Documents
  <1> HIDE DEF s
  <1>4. Shape(s) /\ SameTurn(bid, s)
    BY <1>3, SameQueueReady DEF Live, Shape
  <1>5. Awarded(s) = Awarded(bid) /\ Given(s) = Given(bid)
    BY <1>3 DEF Awarded, Given, Filled
  <1>6. Answerable(bid) => Answerable(s)
    BY <1>3, <1>4, <1>5 DEF Answerable, SameTurn, TurnIsCompleted
  <1>7. CASE t = s \/ t = SettleReturned(s, m)
    <2> HIDE DEF t
    <2>1. /\ Shape(t) /\ SameTurn(s, t) /\ BesideContacts(s, t) /\ t.unresolved = s.unresolved
          /\ t.returning = s.returning \/ (t.returning = None /\ s.returning = m)
      <3>1. CASE t = s
        BY <1>4, <3>1 DEF BesideContacts, SameTurn
      <3>2. CASE t # s
        <4>1. t = [s EXCEPT !.returning = None] /\ s.returning = m
          BY <1>7, <3>2 DEF SettleReturned
        <4>2. QED
          BY <1>4, <4>1, ReturnedShape DEF Shape, Documents
      <3>3. QED
        BY <3>1, <3>2
    <2>2. Stepped /\ Follows(t, FALSE) /\ (InQueue(bid) => InQueue(bid'))
      BY <1>1, <1>3, <1>4, <2>1, QuietStepped DEF SameTurn, BesideContacts
    <2>3. Awarded(t) = Awarded(bid) /\ Given(t) = Given(bid) /\ t.picks = bid.picks
      BY <1>3, <2>1 DEF BesideContacts, Awarded, Given, Filled
    <2>4. bid'.picks = bid.picks
      BY <2>2, <2>3, PicksKept DEF Follows
    <2>5. Answerable(bid) => Answerable(t)
      BY <1>3, <1>6, <2>1, <2>3, <1>5 DEF Answerable, SameTurn, BesideContacts, TurnIsCompleted
    <2>6. Waits
      BY <1>3, <1>4, <2>1, <2>2
         DEF Follows, BesideEvaluation, BesideContacts, Waits, SameQueue, SameTurn
    <2>7. QED
      BY <1>1, <1>2, <1>3, <2>1, <2>2, <2>4, <2>5, <2>6
         DEF Follows, BesideEvaluation, BesideContacts, SameQueue
  <1>8. CASE t = Advance(s, bid.cursor + 1) /\ bid.returning = None
    <2>1. bid.cursor + 1 \in Nat /\ bid.cursor + 1 >= bid.cursor
      BY <1>2
    <2> HIDE DEF t
    <2>2. /\ Stepped /\ BesideEvaluation(s, bid') /\ InQueue(bid') /\ Answerable(bid')
          /\ bid'.picks = (s.picks \cap Awarded(s)) \cup Given(s)
          /\ \A i \in DOMAIN s.order :
               (i >= bid.cursor + 1 /\ i < bid'.cursor) => ~Offers(s, s.order[i])
      BY <1>1, <1>3, <1>4, <1>8, <2>1, AdvanceStepped DEF Shape, Live
    <2>3. bid'.picks = bid.picks
      BY <1>3, <1>5, <2>2, PicksKept
    <2>4. ASSUME NEW i \in DOMAIN bid.order, i > bid.cursor, i < bid'.cursor
          PROVE  ~Offers(bid, bid.order[i])
      <3>1. i \in Nat
        BY <1>2 DEF Documents
      <3>2. ~Offers(s, bid.order[i])
        BY <1>2, <1>3, <2>2, <2>4, <3>1
      <3>3. QED
        BY <1>3, <1>5, <3>2
           DEF Offers, OffersADay, OwesADay, DefersADay, HasOpenTurn, TurnsOf, BelongsToTurn,
               TurnIsCompleted, Filled, Seat
    <2>5. QED
      BY <1>1, <1>2, <1>3, <1>8, <2>2, <2>3, <2>4 DEF BesideEvaluation, SameQueue
  <1>9. QED
    BY <1>7, <1>8

\* What an override makes of the order: entries of the document behind the cursor.
LEMMA ReorderedTyped ==
  ASSUME Live(bid), NEW m \in Members, NEW ofStage \in BOOLEAN,
         ~ofStage => TurnsOf(bid, m) # {}, Postponed(m, ofStage) # <<>>
  PROVE  /\ Postponed(m, ofStage) \in Seq(Turn)
         /\ Reordered(m, ofStage) \in Seq(Turn) /\ Reordered(m, ofStage) # <<>>
         /\ \A i \in DOMAIN bid.order :
              i < bid.cursor => /\ i \in DOMAIN Reordered(m, ofStage)
                                /\ Reordered(m, ofStage)[i] = bid.order[i]
  <1> DEFINE order     == bid.order
             places    == (1 .. bid.cursor - 1) \cap DOMAIN order
             committed == [i \in places |-> order[i]]
             remaining == SubSeq(order, bid.cursor, Len(order))
             kept      == Among(remaining, Turn \ Moving(m, ofStage))
             own       == Among(remaining, Moving(m, ofStage))
             last      == Postponed(m, ofStage)
  <1>1. bid \in Documents /\ bid.cursor \in Nat \ {0}
    BY DEF Live, Shape, Documents
  <1>2. order \in Seq(Turn) /\ Len(order) \in Nat /\ DOMAIN order = 1 .. Len(order)
    BY <1>1, DocumentOrder, OrderTyped
  <1> HIDE DEF order
  <1>3. remaining \in Seq(Turn)
    BY <1>1, <1>2
  <1> HIDE DEF remaining
  <1>4. kept \in Seq(Turn) /\ own \in Seq(Turn)
    BY <1>3, AmongFilters DEF Filtered
  <1> HIDE DEF kept, own
  <1>5. last \in Seq(Turn)
    <2>1. last = IF own = <<>> /\ ~ofStage THEN <<order[First(TurnsOf(bid, m))]>> ELSE own
      BY DEF Postponed, own, remaining, order
    <2>2. ~ofStage => First(TurnsOf(bid, m)) \in DOMAIN order
      <3>1. TurnsOf(bid, m) \subseteq DOMAIN order /\ TurnsOf(bid, m) \subseteq Nat
        BY <1>2 DEF TurnsOf, order
      <3>2. TurnsOf(bid, m) # {} => First(TurnsOf(bid, m)) \in TurnsOf(bid, m)
        BY <3>1, FirstLeast
      <3>3. QED
        BY <3>1, <3>2
    <2>3. ~ofStage => order[First(TurnsOf(bid, m))] \in Turn
      BY <1>2, <2>2
    <2> HIDE DEF last
    <2>4. QED
      BY <1>4, <2>1, <2>3
  <1>6. PICK n \in Nat : places = 1 .. n /\ n <= Len(order)
    <2>1. CASE bid.cursor - 1 <= Len(order)
      <3>1. places = 1 .. bid.cursor - 1 /\ bid.cursor - 1 \in Nat
        BY <1>1, <1>2, <2>1
      <3>2. QED
        BY <2>1, <3>1
    <2>2. CASE ~(bid.cursor - 1 <= Len(order))
      <3>1. places = 1 .. Len(order)
        BY <1>1, <1>2, <2>2
      <3>2. QED
        BY <1>2, <3>1
    <2>3. QED
      BY <2>1, <2>2
  <1>7. committed \in Seq(Turn) /\ Len(committed) = n /\ DOMAIN committed = 1 .. n
    <2>1. committed = [i \in 1 .. n |-> order[i]]
      BY <1>6
    <2>2. \A i \in 1 .. n : order[i] \in Turn
      BY <1>2, <1>6
    <2> HIDE DEF committed
    <2>3. QED
      BY <2>1, <2>2
  <1>8. \A i \in 1 .. n : committed[i] = order[i]
    BY <1>6
  <1>9. \A i \in DOMAIN order : i < bid.cursor => i \in 1 .. n
    BY <1>1, <1>2, <1>6
  <1> HIDE DEF committed, places
  <1>10. Reordered(m, ofStage) = committed \o kept \o last
    BY DEF Reordered, committed, places, kept, remaining, order
  <1> HIDE DEF last
  <1>11. (committed \o kept) \in Seq(Turn) /\ Len(committed \o kept) = n + Len(kept)
         /\ \A i \in 1 .. n : (committed \o kept)[i] = order[i]
    BY <1>4, <1>7, <1>8
  <1> DEFINE front == committed \o kept
  <1>12. front \in Seq(Turn) /\ Len(front) \in Nat /\ n <= Len(front)
         /\ \A i \in 1 .. n : front[i] = order[i]
    BY <1>4, <1>11
  <1> HIDE DEF front
  <1>13. last # <<>> /\ Len(last) \in Nat
    BY <1>5 DEF last
  <1>14. /\ front \o last \in Seq(Turn) /\ front \o last # <<>>
         /\ \A i \in 1 .. n : i \in DOMAIN (front \o last) /\ (front \o last)[i] = order[i]
    BY <1>5, <1>12, <1>13
  <1>15. QED
    BY <1>5, <1>9, <1>10, <1>14 DEF front, last, order

LEMMA OverrideDeferStepped ==
  ASSUME Live(bid), NEW named \in Participants \cup {None}, NEW ofStage \in BOOLEAN,
         OverrideDefer(named, ofStage)
  PROVE  Stepped
  <1> DEFINE m == IF named # None THEN named
                  ELSE IF bid.returning # None THEN bid.returning ELSE bid.bidder
             last == Postponed(m, ofStage)
             who  == {n \in {last[i].member : i \in DOMAIN last} :
                        n \notin Awarded(bid) \/ OwesADay(bid, n)}
             order == Reordered(m, ofStage)
             told == [n \in Members |-> IF n \in who THEN "DEFER" ELSE bid.disposition[n]]
             base == SettleReturned(bid, m)
             s == [base EXCEPT !.order = order, !.unresolved = @ \cup who,
                               !.disposition = [n \in Members |-> IF n \in who THEN "DEFER" ELSE @[n]],
                               !.review = None]
             t == Advance(s, bid.cursor)
  <1>1. /\ Accept(t, TRUE, named) /\ m \in Participants /\ (~ofStage => TurnsOf(bid, m) # {})
        /\ who # {} /\ Len(s.order) <= MaxTurns
    BY DEF OverrideDefer
  <1>2. m \in Members
    <2> DEFINE Stage == [members : SUBSET Members, seats : SUBSET Positions, days : BOOLEAN]
    <2>1. Stages \in Seq(Stage) /\ \A x \in Stage : x.members \subseteq Members
      BY BidPolicy
    <2> HIDE DEF Stage
    <2>2. \A i \in StageIds : Stages[i] \in Stage
      BY <2>1 DEF StageIds
    <2> HIDE DEF m
    <2>3. QED
      BY <1>1, <2>1, <2>2 DEF Participants
  <1> HIDE DEF m
  <1>3. last # <<>>
    BY <1>1
  <1>4. /\ last \in Seq(Turn) /\ order \in Seq(Turn) /\ order # <<>>
        /\ \A i \in DOMAIN bid.order :
             i < bid.cursor => i \in DOMAIN order /\ order[i] = bid.order[i]
    BY <1>1, <1>2, <1>3, ReorderedTyped
  <1> HIDE DEF order
  <1>5. who \subseteq Members
    BY <1>4, OrderTyped
  <1> HIDE DEF last, who
  <1>6. /\ Shape(base) /\ SameTurn(bid, base) /\ BesideContacts(bid, base)
        /\ base.unresolved \subseteq bid.unresolved
    BY SettledShape DEF Live
  <1> HIDE DEF base
  <1>7. base \in Documents
    BY <1>6 DEF Shape
  <1>8. told \in [Members -> Opt(Dispositions)]
    <2>1. "DEFER" \in Dispositions /\ bid.disposition \in [Members -> Opt(Dispositions)]
      BY BidPolicy DEF Live, Shape, Documents
    <2>2. QED
      BY <2>1 DEF Opt
  <1> DEFINE cases == base.unresolved \cup who
  <1>9. s = [base EXCEPT !.order = order, !.unresolved = cases, !.disposition = told,
                         !.review = None]
    BY <1>6 DEF BesideContacts
  <1>10. cases \in SUBSET Members
    BY <1>5, <1>7 DEF Documents
  <1> HIDE DEF s, told, cases
  <1>11. s \in Documents
    BY <1>4, <1>7, <1>8, <1>9, <1>10 DEF Documents, Opt
  <1>12. /\ s.order = order /\ s.held = bid.held /\ s.phase = bid.phase
         /\ s.last = bid.last /\ s.fills = bid.fills /\ s.review = None
    BY <1>6, <1>7, <1>9 DEF Documents, BesideContacts
  <1> HIDE DEF t
  <1>13. /\ ((s.held # None) <=> (s.phase = "paused"))
         /\ s.last # None => s.fills[s.last] # None
         /\ bid.cursor \in Nat /\ bid.cursor >= bid.cursor
    BY <1>12 DEF Live, Shape, Documents
  <1>14. t = Advance(s, bid.cursor)
    BY DEF t
  <1>15. QED
    BY <1>1, <1>4, <1>11, <1>12, <1>13, <1>14, AdvanceStepped

LEMMA ContactingStepped ==
  ASSUME Live(bid), Contacting
  PROVE  Stepped
  BY ContactStepped, DispositionStepped, OverrideDeferStepped, AssignStepped, ReleaseStepped
     DEF Contacting

-----------------------------------------------------------------------------
(* Specialty adjudication.                                                 *)

LEMMA AheadRanked ==
  ASSUME NEW m, NEW p, NEW requester
  PROVE  /\ Ahead(m, p, requester) \in Seq(Members)
         /\ \A i \in DOMAIN Ahead(m, p, requester) :
              /\ Ahead(m, p, requester)[i] \in Ranked
              /\ Rank(Ahead(m, p, requester)[i]) < Rank(m)
  <1> DEFINE C == {c \in Ranked :
                     /\ Rank(c) < Rank(m)
                     /\ ~HoldsAnotherSeat(c, p) /\ c \notin bid.acting /\ ~RightsEnded(c)
                     /\ [seat |-> p, requester |-> requester, member |-> c] \notin bid.responses}
             q == Ahead(m, p, requester)
  <1>1. q = Among(Specialty.ranking, C) /\ Specialty.ranking \in Seq(Members)
    BY BidPolicy DEF Ahead
  <1>2. \A c \in C : c \in Ranked /\ Rank(c) < Rank(m)
    OBVIOUS
  <1> HIDE DEF C, q
  <1>3. Filtered(Specialty.ranking, Members, C, Len(Specialty.ranking), q)
    BY <1>1, AmongFilters
  <1>4. q \in Seq(Members) /\ DOMAIN q = 1 .. Len(q) /\ \A i \in DOMAIN q : q[i] \in C
    BY <1>3 DEF Filtered
  <1>5. QED
    BY <1>2, <1>4 DEF q

LEMMA StartSpecialtyStepped ==
  ASSUME Live(bid), NEW p \in Positions, StartSpecialty(p)
  PROVE  Stepped /\ SamePeople(bid, bid') /\ SameQueue(bid, bid')
  <1> DEFINE ahead  == Ahead(bid.bidder, p, bid.bidder)
             review == [seat |-> p, suspended |-> bid.bidder, candidates |-> ahead, at |-> 1]
             s      == [bid EXCEPT !.review = review]
  <1>1. /\ Accept(s, FALSE, None) /\ bid.phase = "position_bid" /\ bid.bidder # None
        /\ bid.bidder \in Ranked /\ ahead # <<>>
    BY DEF StartSpecialty, AcceptOrdinary
  <1>2. bid \in Documents /\ bid.bidder \in Members /\ Executing(bid) = "position_bid"
        /\ bid.cursor \in Nat
    BY <1>1 DEF Live, Shape, Documents, Opt, Executing
  <1>3. /\ ahead \in Seq(Members)
        /\ \A i \in DOMAIN ahead : ahead[i] \in Ranked /\ Rank(ahead[i]) < Rank(bid.bidder)
    BY AheadRanked
  <1> HIDE DEF ahead
  <1>4. 1 \in DOMAIN ahead
    BY <1>1, <1>3
  <1>5. review \in Reviews
    BY <1>2, <1>3 DEF Reviews
  <1>6. /\ review.at = 1 /\ review.candidates = ahead /\ review.suspended = bid.bidder
    OBVIOUS
  <1> HIDE DEF review
  <1>7. /\ s \in Documents /\ s.order = bid.order /\ s.cursor = bid.cursor
        /\ s.bidder = bid.bidder /\ s.phase = bid.phase /\ s.held = bid.held
        /\ s.last = bid.last /\ s.fills = bid.fills /\ s.review = review
        /\ SamePeople(bid, s) /\ s.completed = bid.completed
    BY <1>2, <1>5 DEF Documents, Opt, SamePeople
  <1> HIDE DEF s
  <1>8. /\ Shape(s) /\ SameTurn(bid, s) /\ Forward(s) /\ Len(s.order) <= MaxTurns
    BY <1>7, SameQueueReady DEF Live, Shape
  <1>9. Adjudicated(s)
    BY <1>1, <1>2, <1>3, <1>4, <1>6, <1>7, <1>8 DEF Adjudicated, SameTurn
  <1>10. Ready(s, FALSE) /\ GivenWell(s)
    BY <1>8, <1>9 DEF Ready, GivenWell
  <1>11. Stepped /\ Follows(s, FALSE)
    BY <1>1, <1>10, AcceptStepped
  <1>12. QED
    BY <1>7, <1>11 DEF Follows, BesideEvaluation, SamePeople, SameQueue

\* The adjudication goes on with the next candidate or is over.
LEMMA NextCandidateTyped ==
  ASSUME Live(bid), bid.review # None
  PROVE  /\ NextCandidate \in Opt(Reviews)
         /\ NextCandidate # None =>
              /\ NextCandidate.candidates = bid.review.candidates
              /\ NextCandidate.suspended = bid.review.suspended
              /\ NextCandidate.seat = bid.review.seat
              /\ NextCandidate.at \in DOMAIN bid.review.candidates
         /\ bid.review \in Reviews /\ Candidate \in Members \ {bid.bidder}
         /\ Candidate \in Ranked /\ Rank(Candidate) < Rank(bid.bidder)
  <1> DEFINE review == bid.review
  <1>1. review \in Reviews
    BY DEF Live, Shape, Documents, Opt
  <1>2. /\ review.at \in DOMAIN review.candidates
        /\ \A i \in DOMAIN review.candidates :
             review.candidates[i] \in Ranked /\ Rank(review.candidates[i]) < Rank(bid.bidder)
    BY DEF Live, Adjudicated
  <1>3. /\ Candidate \in Ranked /\ Rank(Candidate) < Rank(bid.bidder)
    BY <1>2 DEF Candidate
  <1>4. Candidate \in Members
    BY <1>1, <1>2 DEF Candidate, Reviews
  <1>5. Candidate # bid.bidder
    <2>1. \A i \in DOMAIN Specialty.ranking : i \in Nat
      BY BidPolicy
    <2>2. \A c \in Ranked : Rank(c) \in Nat
      BY <2>1 DEF Ranked, Rank
    <2>3. bid.bidder \in Ranked
      BY DEF Live, Adjudicated
    <2>4. QED
      BY <1>3, <2>2, <2>3
  <1>6. CASE NextCandidate # None
    <2>1. /\ NextCandidate = [review EXCEPT !.at = @ + 1]
          /\ review.at < Len(review.candidates)
      BY <1>6 DEF NextCandidate
    <2> HIDE DEF review
    <2>2. review.candidates \in Seq(Members) /\ review.at \in Nat
      BY <1>1 DEF Reviews
    <2>3. review.at + 1 \in DOMAIN review.candidates /\ review.at + 1 \in Nat
      BY <2>1, <2>2
    <2>4. QED
      BY <1>1, <1>3, <1>4, <1>5, <2>1, <2>3 DEF Reviews, Opt, review
  <1>7. CASE NextCandidate = None
    BY <1>1, <1>3, <1>4, <1>5, <1>7 DEF Opt
  <1>8. QED
    BY <1>6, <1>7

LEMMA RespondSpecialtyStepped ==
  ASSUME Live(bid), NEW d, RespondSpecialty(d)
  PROVE  /\ Stepped /\ SameQueue(bid, bid') /\ bid'.fills = bid.fills
         /\ bid'.acting = bid.acting /\ bid'.disposition = bid.disposition
         /\ bid.responses \subseteq bid'.responses
  <1> DEFINE answer == [seat |-> bid.review.seat, requester |-> bid.review.suspended,
                        member |-> Candidate]
             responses == bid.responses \cup {answer}
             s == [bid EXCEPT !.review = NextCandidate, !.responses = responses]
  <1>1. Accept(s, FALSE, None) /\ bid.review # None
    BY DEF RespondSpecialty, AcceptOrdinary
  <1>2. /\ NextCandidate \in Opt(Reviews)
        /\ NextCandidate # None =>
             /\ NextCandidate.candidates = bid.review.candidates
             /\ NextCandidate.suspended = bid.review.suspended
             /\ NextCandidate.seat = bid.review.seat
             /\ NextCandidate.at \in DOMAIN bid.review.candidates
        /\ bid.review \in Reviews /\ Candidate \in Members
    BY <1>1, NextCandidateTyped
  <1> HIDE DEF NextCandidate, Candidate
  <1>3. bid \in Documents /\ bid.cursor \in Nat
    BY DEF Live, Shape, Documents
  <1>4. responses \in SUBSET Responses /\ bid.responses \subseteq responses
    BY <1>2, <1>3 DEF Documents, Responses, Reviews
  <1> HIDE DEF responses
  <1>5. /\ s \in Documents /\ s.order = bid.order /\ s.cursor = bid.cursor
        /\ s.bidder = bid.bidder /\ s.phase = bid.phase /\ s.held = bid.held
        /\ s.last = bid.last /\ s.fills = bid.fills /\ s.review = NextCandidate
        /\ s.completed = bid.completed /\ s.acting = bid.acting
        /\ s.disposition = bid.disposition /\ s.responses = responses
    BY <1>2, <1>3, <1>4 DEF Documents
  <1> HIDE DEF s
  <1>6. /\ Shape(s) /\ SameTurn(bid, s) /\ Forward(s) /\ Len(s.order) <= MaxTurns
    BY <1>5, SameQueueReady DEF Live, Shape
  <1>7. Adjudicated(s)
    BY <1>1, <1>2, <1>5, <1>6 DEF Live, Adjudicated, SameTurn
  <1>8. Ready(s, FALSE) /\ GivenWell(s)
    BY <1>6, <1>7 DEF Ready, GivenWell
  <1>9. Stepped /\ Follows(s, FALSE)
    BY <1>1, <1>8, AcceptStepped
  <1>10. QED
    BY <1>4, <1>5, <1>9 DEF Follows, BesideEvaluation, SameQueue

LEMMA AcceptSpecialtyStepped ==
  ASSUME Live(bid), NEW p \in Positions, AcceptSpecialty(p)
  PROVE  /\ Stepped /\ bid'.completed = bid.completed /\ bid'.acting = bid.acting
         /\ bid'.disposition = bid.disposition /\ bid'.responses = bid.responses
         /\ p \in Filled(bid') /\ bid'.fills[p].member = Candidate
         /\ \A q \in Filled(bid') \ {p} : q \in Filled(bid) /\ bid'.fills[q] = bid.fills[q]
         /\ \A q \in Filled(bid) : bid.fills[q].member # Candidate =>
              q \in Filled(bid') /\ bid'.fills[q] = bid.fills[q]
         /\ \A i \in DOMAIN bid.order : bid.order[i].member # Candidate =>
              \E j \in DOMAIN bid'.order : bid'.order[j] = bid.order[i]
         /\ \A j \in DOMAIN bid'.order : \E i \in DOMAIN bid.order : bid'.order[j] = bid.order[i]
  <1> DEFINE others == {t \in Turn : t.member # Candidate}
             award  == Award(Candidate, p \notin Deferred, None)
             fills  == [q \in Positions |->
                          IF q = p THEN award
                          ELSE IF q \in Filled(bid) /\ bid.fills[q].member = Candidate
                          THEN None ELSE bid.fills[q]]
             goesOn == \E q \in Specialty.seats : fills[q] = None /\ q \notin bid.withdrawn
             last   == IF bid.last # None /\ fills[bid.last] = None THEN None ELSE bid.last
             order  == IF LeavesOrder(p) THEN Among(bid.order, others) ELSE bid.order
             review == IF goesOn THEN NextCandidate ELSE None
             s == [bid EXCEPT !.fills = fills, !.last = last, !.order = order,
                              !.review = review]
  <1>1. Accept(s, FALSE, None) /\ bid.review # None /\ bid.fills[p] = None
    BY DEF AcceptSpecialty, AcceptOrdinary, OpenSeat
  <1>2. /\ NextCandidate \in Opt(Reviews)
        /\ NextCandidate # None =>
             /\ NextCandidate.candidates = bid.review.candidates
             /\ NextCandidate.suspended = bid.review.suspended
             /\ NextCandidate.seat = bid.review.seat
             /\ NextCandidate.at \in DOMAIN bid.review.candidates
        /\ bid.review \in Reviews /\ Candidate \in Members \ {bid.bidder}
    BY <1>1, NextCandidateTyped
  <1>3. bid \in Documents /\ bid.cursor \in Nat \ {0} /\ bid.last \in Opt(Positions)
    BY DEF Live, Shape, Documents
  <1>4. award \in Awards /\ award # None /\ award.member = Candidate
    BY <1>2, NullIsNoRecord DEF Award, Awards, Opt
  <1>5. review \in {NextCandidate, None}
    OBVIOUS
  <1> HIDE DEF NextCandidate, Candidate, award, goesOn, review
  <1>6. /\ fills \in [Positions -> Opt(Awards)] /\ fills[p] = award
        /\ \A q \in Positions \ {p} : fills[q] # None =>
             fills[q] = bid.fills[q]
        /\ \A q \in Filled(bid) : bid.fills[q].member # Candidate => fills[q] = bid.fills[q]
    BY <1>1, <1>3, <1>4 DEF Documents, Opt, Filled
  <1> HIDE DEF fills
  <1>7. last \in Opt(Positions) /\ (last # None => fills[last] # None)
    BY <1>3, <1>6 DEF Opt
  <1>8. bid.order \in Seq(Turn) /\ Len(bid.order) \in Nat /\ DOMAIN bid.order = 1 .. Len(bid.order)
    BY <1>3, DocumentOrder, OrderTyped
  <1>9. bid.cursor \in DOMAIN bid.order /\ bid.order[bid.cursor].member = bid.bidder
    BY <1>1 DEF Live, Adjudicated, Shape, TurnPlaced
  <1>10. /\ order \in Seq(Turn) /\ Len(order) <= Len(bid.order) /\ bid.cursor \in DOMAIN order
         /\ \A i \in 1 .. bid.cursor : order[i] = bid.order[i]
         /\ \A i \in DOMAIN bid.order : bid.order[i].member # Candidate =>
              \E j \in DOMAIN order : order[j] = bid.order[i]
         /\ \A j \in DOMAIN order : \E i \in DOMAIN bid.order : order[j] = bid.order[i]
    <2>1. CASE ~LeavesOrder(p)
      BY <1>3, <1>8, <1>9, <2>1
    <2>2. CASE LeavesOrder(p)
      <3>1. \A i \in DOMAIN bid.order : i < bid.cursor => bid.order[i].member # Candidate
        <4>1. TurnsOf(bid, Candidate) \subseteq Nat /\ TurnsOf(bid, Candidate) # {}
              /\ First(TurnsOf(bid, Candidate)) >= bid.cursor
          BY <1>8, <2>2 DEF LeavesOrder, TurnsOf
        <4>2. \A i \in TurnsOf(bid, Candidate) : First(TurnsOf(bid, Candidate)) <= i
              /\ First(TurnsOf(bid, Candidate)) \in Nat
          BY <4>1, FirstLeast
        <4>3. \A i \in TurnsOf(bid, Candidate) : i >= bid.cursor
          BY <1>3, <4>1, <4>2
        <4>4. QED
          BY <1>3, <1>8, <4>3 DEF TurnsOf
      <3>2. \A i \in 1 .. bid.cursor : bid.order[i] \in others
        BY <1>2, <1>3, <1>8, <1>9, <3>1
      <3>3. /\ order = Among(bid.order, others)
            /\ \A i \in DOMAIN bid.order : bid.order[i].member # Candidate => bid.order[i] \in others
        BY <1>8, <2>2, OrderTyped
      <3> HIDE DEF order, others
      <3>4. Filtered(bid.order, Turn, others, Len(bid.order), order)
        BY <1>8, <3>3, AmongFilters
      <3>5. bid.cursor \in 0 .. Len(bid.order)
        BY <1>3, <1>8, <1>9
      <3>6. Len(order) >= bid.cursor /\ \A i \in 1 .. bid.cursor : order[i] = bid.order[i]
        BY <3>2, <3>4, <3>5 DEF Filtered
      <3>7. order \in Seq(Turn) /\ Len(order) <= Len(bid.order)
        BY <3>4 DEF Filtered
      <3>8. bid.cursor \in DOMAIN order
        BY <1>3, <3>6, <3>7
      <3>9. DOMAIN order = 1 .. Len(order)
        BY <3>7
      <3>10. /\ \A i \in DOMAIN bid.order : bid.order[i].member # Candidate =>
                  \E j \in DOMAIN order : order[j] = bid.order[i]
             /\ \A j \in DOMAIN order : \E i \in DOMAIN bid.order : order[j] = bid.order[i]
        BY <1>8, <3>3, <3>4, <3>9, ZenonT(30) DEF Filtered
      <3>11. QED
        BY <3>6, <3>7, <3>8, <3>10
    <2>3. QED
      BY <2>1, <2>2
  <1> HIDE DEF order, last, others
  <1>11. /\ s \in Documents /\ s.order = order /\ s.cursor = bid.cursor
         /\ s.bidder = bid.bidder /\ s.phase = bid.phase /\ s.held = bid.held
         /\ s.last = last /\ s.fills = fills /\ s.review = review
         /\ s.completed = bid.completed /\ s.acting = bid.acting
         /\ s.disposition = bid.disposition /\ s.responses = bid.responses
    <2>1. review \in Opt(Reviews)
      BY <1>2, <1>5 DEF Opt
    <2>2. s \in Documents
      BY <1>3, <1>6, <1>7, <1>10, <2>1 DEF Documents
    <2>3. QED
      BY <1>3, <2>2 DEF Documents
  <1> HIDE DEF s
  <1>12. SameTurn(bid, s)
    BY <1>11 DEF SameTurn, Executing
  <1>13. TurnPlaced(s)
    <2>1. order[bid.cursor] = bid.order[bid.cursor]
      BY <1>3, <1>10
    <2>2. QED
      BY <1>9, <1>10, <1>11, <1>12, <2>1 DEF TurnPlaced, SameTurn, Live, Shape
  <1>14. Shape(s)
    BY <1>7, <1>10, <1>11, <1>13 DEF Shape, Live
  <1>15. Forward(s)
    <2>1. \A i \in DOMAIN bid.order : i < bid.cursor => i \in 1 .. bid.cursor /\ i \in DOMAIN order
      BY <1>3, <1>8, <1>10
    <2>2. QED
      BY <1>3, <1>10, <1>11, <2>1 DEF Forward
  <1>16. Adjudicated(s)
    BY <1>1, <1>2, <1>5, <1>11, <1>12 DEF Live, Adjudicated, SameTurn
  <1>17. Len(s.order) <= MaxTurns
    <2>1. MaxTurns \in Nat /\ Len(order) \in Nat
      BY <1>10, BidPolicy
    <2>2. QED
      BY <1>8, <1>10, <1>11, <2>1 DEF Live
  <1>18. Ready(s, FALSE) /\ GivenWell(s)
    BY <1>12, <1>14, <1>15, <1>16, <1>17 DEF Ready, GivenWell
  <1>19. Stepped /\ Follows(s, FALSE)
    BY <1>1, <1>18, AcceptStepped
  <1>20. /\ bid'.fills = fills /\ bid'.order = order /\ bid'.completed = bid.completed
         /\ bid'.acting = bid.acting /\ bid'.disposition = bid.disposition
         /\ bid'.responses = bid.responses
    BY <1>11, <1>19 DEF Follows, BesideEvaluation
  <1>21. \A q \in Filled(bid') \ {p} : q \in Filled(bid) /\ bid'.fills[q] = bid.fills[q]
    BY <1>6, <1>20 DEF Filled
  <1>22. QED
    BY <1>4, <1>6, <1>10, <1>19, <1>20, <1>21 DEF Filled

LEMMA CloseSpecialtyStepped ==
  ASSUME Live(bid), CloseSpecialty
  PROVE  Stepped /\ SamePeople(bid, bid') /\ SameQueue(bid, bid')
  <1> DEFINE s == [bid EXCEPT !.review = None]
  <1>1. Accept(s, FALSE, None)
    BY DEF CloseSpecialty, AcceptOrdinary
  <1>2. /\ s \in Documents /\ s.order = bid.order /\ s.cursor = bid.cursor
        /\ s.bidder = bid.bidder /\ s.phase = bid.phase /\ s.held = bid.held
        /\ s.last = bid.last /\ s.fills = bid.fills /\ s.review = None
        /\ SamePeople(bid, s) /\ s.completed = bid.completed
    BY DEF Live, Shape, Documents, Opt, SamePeople
  <1> HIDE DEF s
  <1>3. Shape(s) /\ SameTurn(bid, s)
    BY <1>2, SameQueueReady DEF Live, Shape
  <1>4. Stepped /\ Follows(s, FALSE)
    BY <1>1, <1>2, <1>3, QuietStepped
  <1>5. QED
    BY <1>2, <1>4 DEF Follows, BesideEvaluation, SamePeople, SameQueue

LEMMA AdjudicatingStepped ==
  ASSUME Live(bid), Adjudicating
  PROVE  Stepped
  BY StartSpecialtyStepped, AcceptSpecialtyStepped, RespondSpecialtyStepped,
     CloseSpecialtyStepped DEF Adjudicating

-----------------------------------------------------------------------------
(* The inductive invariant and the theorems.                               *)

LEMMA SequencingLive ==
  ASSUME Live(bid), Sequencing
  PROVE  Live(bid') /\ Forward(bid') /\ ("alter_order" \notin Granted => GivenWell(bid'))
  BY PauseStepped, TransitionStepped, AlterOrderStepped, CompleteStepped
     DEF Sequencing, Stepped

LEMMA NextLive ==
  ASSUME Live(bid), Next
  PROVE  Live(bid') /\ Forward(bid') /\ ("alter_order" \notin Granted => GivenWell(bid'))
  BY SelectingStepped, PickingADayStepped, CorrectingStepped, SequencingLive,
     ContactingStepped, AdjudicatingStepped DEF Next, Stepped

LEMMA InitLive ==
  ASSUME Init
  PROVE  Live(bid) /\ Answerable(bid)
  <1>1. Turns \in Seq(Turn) /\ Turns # <<>> /\ Len(Turns) <= MaxTurns /\ Len(Turns) \in Nat
    BY BidPolicy
  <1>2. Turns[1].member \in Members /\ 1 \in DOMAIN Turns
    BY <1>1, OrderTyped
  <1>3. None \notin Members \cup Phases
    BY BidPolicy
  <1>4. bid \in Documents
    BY <1>1, <1>2 DEF Init, Documents, Opt, Phases
  <1>5. /\ bid.order = Turns /\ bid.cursor = 1 /\ bid.bidder = Turns[1].member
        /\ bid.phase = "position_bid" /\ bid.held = None /\ bid.last = None
        /\ bid.review = None /\ bid.picks = {} /\ bid.owing = <<>>
        /\ bid.completed = {} /\ bid.acting = {}
        /\ bid.fills = [p \in Positions |-> None]
    BY DEF Init
  <1>6. Filled(bid) = {}
    BY <1>5 DEF Filled
  <1>7. Awarded(bid) = {} /\ Given(bid) = {} /\ Evaluable(bid)
    BY <1>6 DEF Awarded, Given, Evaluable
  <1>8. Shape(bid)
    BY <1>1, <1>2, <1>3, <1>4, <1>5 DEF Shape, TurnPlaced, Executing
  <1>9. MaxTurns \in Nat
    BY BidPolicy
  <1>10. QED
    BY <1>1, <1>5, <1>7, <1>8, <1>9
       DEF Live, Adjudicated, Paid, Answerable, Executing, TurnIsCompleted

Invariant == Live(bid)

\* TypeOK: the document keeps the shape of BidSessionState.
THEOREM DocumentTyped == Spec => []TypeOK
  <1>1. Init => Invariant
    BY InitLive DEF Invariant
  <1>2. Invariant /\ [Next]_bid => Invariant'
    BY NextLive DEF Invariant
  <1>3. Invariant => TypeOK
    <2>1. SUFFICES ASSUME Live(bid) PROVE TypeOK
      BY DEF Invariant
    <2>2. bid.cursor \in 1 .. MaxTurns + 1
      BY <2>1, BidPolicy DEF Live, Shape, Documents
    <2>3. bid.review # None => bid.review \in Reviews
      BY <2>1 DEF Live, Shape, Documents, Opt
    <2>4. bid.review # None => bid.review.at \in DOMAIN bid.review.candidates
      BY <2>1 DEF Live, Adjudicated
    <2>5. QED
      BY <2>1, <2>2, <2>3, <2>4
         DEF Live, Shape, Documents, TypeOK, Sequenced, Awards, Revocations, Reviews, Responses
  <1>4. QED
    BY <1>1, <1>2, <1>3, PTL DEF Spec

\* NeverRewinds: no command, whatever is granted, goes back to a passed turn or
\* rewrites the passed part of the order.
THEOREM PassedStaysPassed == Spec => NeverRewinds
  <1>1. Init => Invariant
    BY InitLive DEF Invariant
  <1>2. Invariant /\ [Next]_bid => Invariant'
    BY NextLive DEF Invariant
  <1>3. Invariant /\ [Next]_bid =>
          [/\ bid'.cursor >= bid.cursor
           /\ \A i \in DOMAIN bid.order :
                i < bid.cursor => i \in DOMAIN bid'.order /\ bid'.order[i] = bid.order[i]]_bid
    BY NextLive DEF Forward, Invariant
  <1>4. QED
    BY <1>1, <1>2, <1>3, PTL DEF Spec, NeverRewinds

\* TurnsGivenAreUsable: every turn that moves goes to somebody who can answer it.
\* Without the assumption it is false: an ordinary alteration of the order puts
\* the entry at the cursor in turn without asking whether its member has a seat.
THEOREM TurnsCanBeAnswered ==
  ASSUME "alter_order" \notin Granted
  PROVE  Spec => TurnsGivenAreUsable
  <1>1. Init => Invariant
    BY InitLive DEF Invariant
  <1>2. Invariant /\ [Next]_bid => Invariant'
    BY NextLive DEF Invariant
  <1>3. ASSUME Invariant, [Next]_bid
        PROVE  [<<Executing(bid)', bid'.cursor, bid'.bidder>>
                  # <<Executing(bid), bid.cursor, bid.bidder>> => Usable(bid')]_bid
    <2>1. SUFFICES ASSUME Next, ~SameTurn(bid, bid')
                   PROVE  Usable(bid')
      BY <1>3 DEF SameTurn, Executing
    <2>2. Live(bid') /\ Answerable(bid')
      BY <1>3, <2>1, NextLive DEF GivenWell, Invariant
    <2>3. Executing(bid') \in {"position_bid", "a_day_bid", "complete"}
      BY <2>2, BidPolicy DEF Live, Shape, Documents, Executing, Phases, Opt
    <2>4. QED
      BY <2>2, <2>3 DEF Usable, Answerable, Live, Shape, TurnPlaced
  <1>4. QED
    BY <1>1, <1>2, <1>3, PTL DEF Spec, TurnsGivenAreUsable

-----------------------------------------------------------------------------
(* Everybody is asked.                                                     *)

\* Whoever has not been asked has an entry of the order still to come.
Asking(s) ==
  /\ InQueue(s) /\ s.completed = {} /\ s.acting = {}
  /\ \A m \in Participants :
       HasBeenAsked(s, m) \/ \E i \in DOMAIN s.order : i >= s.cursor /\ s.order[i].member = m

LEMMA ParticipantsTyped ==
  Participants \subseteq Members
  <1> DEFINE Stage == [members : SUBSET Members, seats : SUBSET Positions, days : BOOLEAN]
  <1>1. \A stage \in Stage : stage.members \subseteq Members
    OBVIOUS
  <1>2. Stages \in Seq(Stage)
    BY BidPolicy
  <1> HIDE DEF Stage
  <1>3. \A i \in DOMAIN Stages : Stages[i] \in Stage
    BY <1>2
  <1>4. QED
    BY <1>1, <1>3 DEF Participants, StageIds

LEMMA OpenUntilCompleted ==
  ASSUME NEW s, s.completed = {}, NEW m
  PROVE  HasOpenTurn(s, m)
  BY DEF HasOpenTurn, TurnIsCompleted

\* The queue waits.
LEMMA AskingWaits ==
  ASSUME Asking(bid), Waits, bid'.acting = bid.acting,
         \A m \in Participants : HasBeenAsked(bid, m) => HasBeenAsked(bid', m)
  PROVE  Asking(bid')
  BY DEF Asking, Waits, SameQueue

\* The queue goes on from a bidder who has been asked.
LEMMA AskingPast ==
  ASSUME Live(bid), Live(bid'), Asking(bid), SameQueue(bid, bid'), InQueue(bid'),
         bid'.acting = bid.acting,
         \A m \in Participants : HasBeenAsked(bid, m) => HasBeenAsked(bid', m),
         HasBeenAsked(bid', bid.bidder),
         \A i \in DOMAIN bid.order :
           (i > bid.cursor /\ i < bid'.cursor) =>
             \/ TurnIsCompleted(bid, bid.order[i])
             \/ bid.order[i].member \in bid.acting \cup Awarded(bid')
  PROVE  Asking(bid')
  <1>1. /\ bid.cursor \in Nat /\ \A i \in DOMAIN bid.order : i \in Nat
        /\ bid'.cursor \in Nat
    <2>1. \A s : s \in Documents => s.cursor \in Nat
      BY DEF Documents
    <2>2. bid \in Documents /\ bid' \in Documents
      BY DEF Live, Shape
    <2>3. QED
      BY <2>1, <2>2, DocumentOrder, OrderTyped
  <1>2. bid.cursor \in DOMAIN bid.order => bid.order[bid.cursor].member = bid.bidder
    <2>1. Executing(bid) \in {"position_bid", "a_day_bid", "complete"}
      BY BidPolicy DEF Live, Shape, Documents, Executing, Phases, Opt
    <2>2. QED
      BY <2>1 DEF Live, Shape, TurnPlaced, Asking, InQueue
  <1>3. ASSUME NEW m \in Participants, ~HasBeenAsked(bid', m)
        PROVE  \E i \in DOMAIN bid'.order : i >= bid'.cursor /\ bid'.order[i].member = m
    <2>1. PICK i \in DOMAIN bid.order : i >= bid.cursor /\ bid.order[i].member = m
      BY <1>3 DEF Asking
    <2>2. i # bid.cursor
      BY <1>2, <1>3, <2>1
    <2>3. ~TurnIsCompleted(bid, bid.order[i])
      BY DEF Asking, TurnIsCompleted
    <2>4. m \notin bid.acting \cup Awarded(bid')
      BY <1>3 DEF Asking, HasBeenAsked
    <2>5. ~(i > bid.cursor /\ i < bid'.cursor)
      BY <2>1, <2>3, <2>4
    <2>6. i \in Nat /\ i > bid.cursor
      BY <1>1, <2>1, <2>2
    <2>7. i >= bid'.cursor
      BY <1>1, <2>5, <2>6
    <2>8. QED
      BY <2>1, <2>7 DEF SameQueue
  <1>4. QED
    BY <1>3 DEF Asking, SameQueue
LEMMA StillAsked ==
  ASSUME Live(bid), SamePeople(bid, bid'),
         NEW m, \/ bid'.unresolved = bid.unresolved /\ bid'.returning = bid.returning
                \/ bid'.unresolved = bid.unresolved \cup {m} /\ bid'.returning = bid.returning
                \/ /\ bid.returning = None
                   /\ bid'.unresolved = bid.unresolved \ {m} /\ bid'.returning = m
                \/ /\ m \in Awarded(bid') /\ bid'.unresolved = bid.unresolved \ {m}
                   /\ bid'.returning = IF bid.returning = m THEN None ELSE bid.returning
  PROVE  StayAsked
  <1>1. Awarded(bid') = Awarded(bid) /\ None \notin Members
    BY BidPolicy DEF SamePeople, Awarded, Filled
  <1>2. QED
    BY <1>1 DEF StayAsked, HasBeenAsked, SamePeople

\* An award makes the member asked, and the bidder's moves the queue.
LEMMA AwardAsking ==
  ASSUME Live(bid), Asking(bid), NEW m \in Members, NEW p \in Positions, NEW aDay \in BOOLEAN,
         bid.review = None, bid.fills[p] = None,
         AcceptOrdinary(Selected(m, p, aDay, FALSE))
  PROVE  Asking(bid')
  <1>1. /\ Stepped /\ SameQueue(bid, bid') /\ bid'.acting = bid.acting
        /\ Awarded(bid') = Awarded(bid) \cup {m}
        /\ bid'.disposition = bid.disposition /\ bid'.revoked = bid.revoked
        /\ bid'.unresolved = bid.unresolved \ {m}
        /\ bid'.returning = IF bid.returning = m THEN None ELSE bid.returning
        /\ m # bid.bidder => Waits
        /\ m = bid.bidder =>
             /\ InQueue(bid')
             /\ \A i \in DOMAIN bid.order :
                  (i > bid.cursor /\ i < bid'.cursor) =>
                    \/ TurnIsCompleted(bid, bid.order[i])
                    \/ bid.order[i].member \in bid.acting \cup Awarded(bid')
    BY SelectionStepped
  <1>2. \A n \in Participants : HasBeenAsked(bid, n) => HasBeenAsked(bid', n)
    BY <1>1 DEF HasBeenAsked
  <1>3. HasBeenAsked(bid', m)
    BY <1>1 DEF HasBeenAsked
  <1>4. CASE m # bid.bidder
    BY <1>1, <1>2, <1>4, AskingWaits
  <1>5. CASE m = bid.bidder
    BY <1>1, <1>2, <1>3, <1>5, AskingPast DEF Stepped
  <1>6. QED
    BY <1>4, <1>5

LEMMA RecordADayAsking ==
  ASSUME Live(bid), Asking(bid), NEW m \in Members, RecordADay(m)
  PROVE  Asking(bid')
  <1>1. /\ Stepped /\ SamePeople(bid, bid') /\ SameQueue(bid, bid')
        /\ bid'.unresolved = bid.unresolved \ {m}
        /\ bid'.returning = IF bid.returning = m THEN None ELSE bid.returning
        /\ bid.bidder = m /\ m \in Awarded(bid) \ bid.picks
        /\ \/ /\ ~IsOrdinaryADayTurn(bid) /\ bid'.cursor = bid.cursor
              /\ bid.cursor \notin DOMAIN bid.order => InQueue(bid')
           \/ /\ InQueue(bid')
              /\ \A i \in DOMAIN bid.order :
                   (i > bid.cursor /\ i < bid'.cursor) =>
                     \/ TurnIsCompleted(bid, bid.order[i])
                     \/ bid.order[i].member \in bid.acting \cup Awarded(bid')
    BY RecordADayStepped
  <1>2. Awarded(bid') = Awarded(bid)
    BY <1>1 DEF SamePeople, Awarded, Filled
  <1>3. StayAsked
    BY <1>1, <1>2, StillAsked
  <1>4. Participants \subseteq Members
    BY ParticipantsTyped
  <1>5. CASE IsOrdinaryADayTurn(bid) \/ InQueue(bid')
    <2>1. CASE ~IsOrdinaryADayTurn(bid) /\ bid'.cursor = bid.cursor
      BY <1>1, <1>3, <1>4, <1>5, <2>1, AskingWaits DEF Waits, StayAsked, SamePeople
    <2>2. CASE \A i \in DOMAIN bid.order :
                 (i > bid.cursor /\ i < bid'.cursor) =>
                   \/ TurnIsCompleted(bid, bid.order[i])
                   \/ bid.order[i].member \in bid.acting \cup Awarded(bid')
      <3>1. HasBeenAsked(bid', bid.bidder)
        BY <1>1, <1>2 DEF HasBeenAsked
      <3>2. QED
        BY <1>1, <1>3, <1>4, <1>5, <2>2, <3>1, AskingPast DEF StayAsked, Stepped
    <2>3. QED
      BY <1>1, <2>1, <2>2
  <1>6. CASE ~IsOrdinaryADayTurn(bid) /\ bid.cursor \in DOMAIN bid.order
    <2>1. bid.phase = "a_day_bid" /\ Executing(bid) = "a_day_bid"
      BY DEF RecordADay, Executing
    <2>2. bid.order[bid.cursor].member = m
      BY <1>1, <1>6, <2>1 DEF Asking, InQueue
    <2>3. DefersADay(bid, m)
      BY <1>1, OpenUntilCompleted
         DEF Asking, DefersADay, Live, Paid, Evaluable, Given, Awarded
    <2>4. m # None
      BY BidPolicy
    <2>5. QED
      BY <1>1, <1>6, <2>1, <2>2, <2>3, <2>4 DEF IsOrdinaryADayTurn
  <1>7. QED
    BY <1>1, <1>5, <1>6

LEMMA AlterOrderAsking ==
  ASSUME Live(bid), Asking(bid), NEW source \in Bijection(Editable, Editable),
         AlterOrder(source, FALSE)
  PROVE  Asking(bid')
  <1>1. /\ SamePeople(bid, bid') /\ bid'.completed = bid.completed
        /\ bid'.unresolved = bid.unresolved /\ bid'.returning = bid.returning
        /\ DOMAIN bid'.order = DOMAIN bid.order
        /\ \A i \in DOMAIN bid.order :
             /\ i \notin Editable => bid'.order[i] = bid.order[i]
             /\ i \in Editable => \E j \in Editable : bid'.order[j] = bid.order[i]
        /\ bid'.cursor = bid.cursor /\ InQueue(bid')
    <2>1. FALSE \in BOOLEAN
      OBVIOUS
    <2>2. bid.completed = {}
      BY DEF Asking
    <2>3. QED
      BY <2>1, <2>2, AlterOrderStepped
  <1>2. bid.cursor \in Nat \ {0} /\ Len(bid.order) \in Nat /\ DOMAIN bid.order = 1 .. Len(bid.order)
    BY DocumentOrder, OrderTyped DEF Live, Shape, Documents
  <1>3. Editable \subseteq DOMAIN bid.order /\ \A j \in Editable : j >= bid.cursor
    BY <1>2 DEF Editable, Remaining
  <1> HIDE DEF Editable
  <1>4. Awarded(bid') = Awarded(bid)
    BY <1>1 DEF SamePeople, Awarded, Filled
  <1>5. \A m : HasBeenAsked(bid, m) <=> HasBeenAsked(bid', m)
    BY <1>1, <1>4 DEF HasBeenAsked, SamePeople
  <1>6. ASSUME NEW i \in DOMAIN bid.order, i >= bid.cursor
        PROVE  \E j \in DOMAIN bid'.order : j >= bid'.cursor /\ bid'.order[j] = bid.order[i]
    BY <1>1, <1>3, <1>6
  <1>7. QED
    BY <1>1, <1>5, <1>6 DEF Asking, SamePeople

\* A session is completed only when a returned participant has a seat.
LEMMA CompleteAsking ==
  ASSUME Live(bid), Asking(bid), CompleteSession
  PROVE  Asking(bid')
  <1>1. /\ Waits /\ SamePeople(bid, bid')
        /\ bid'.unresolved = bid.unresolved /\ bid'.returning = None
    BY CompleteStepped
  <1>2. Gaps = {}
    BY DEF CompleteSession
  <1>3. ASSUME NEW m \in Participants, m = bid.returning
        PROVE  m \in Awarded(bid)
    <2>1. HasOpenTurn(bid, m)
      BY OpenUntilCompleted DEF Asking
    <2>2. QED
      BY <1>2, <1>3, <2>1 DEF Gaps, Asking
  <1>4. Awarded(bid') = Awarded(bid)
    BY <1>1 DEF SamePeople, Awarded, Filled
  <1>5. \A m \in Participants : HasBeenAsked(bid, m) => HasBeenAsked(bid', m)
    BY <1>1, <1>3, <1>4 DEF HasBeenAsked, SamePeople
  <1>6. QED
    BY <1>1, <1>5, AskingWaits DEF SamePeople

LEMMA DispositionAsking ==
  ASSUME Live(bid), Asking(bid), NEW d \in Dispositions, Disposition(d)
  PROVE  Asking(bid')
  <1>1. /\ Stepped /\ SameQueue(bid, bid')
        /\ bid'.fills = bid.fills /\ bid'.revoked = bid.revoked /\ bid'.acting = bid.acting
        /\ \E m \in Members :
             /\ bid'.disposition = [bid.disposition EXCEPT ![m] = d]
             /\ bid'.unresolved \in {bid.unresolved, bid.unresolved \cup {m}}
             /\ bid'.returning = bid.returning \/ (bid'.returning = None /\ bid.returning = m)
             /\ \/ Waits
                \/ /\ m = bid.bidder /\ InQueue(bid')
                   /\ \A i \in DOMAIN bid.order :
                        (i > bid.cursor /\ i < bid'.cursor) => ~Offers(bid, bid.order[i])
    BY DispositionStepped
  <1>2. PICK m \in Members :
          /\ bid'.disposition = [bid.disposition EXCEPT ![m] = d]
          /\ bid'.unresolved \in {bid.unresolved, bid.unresolved \cup {m}}
          /\ bid'.returning = bid.returning \/ (bid'.returning = None /\ bid.returning = m)
          /\ \/ Waits
             \/ /\ m = bid.bidder /\ InQueue(bid')
                /\ \A i \in DOMAIN bid.order :
                     (i > bid.cursor /\ i < bid'.cursor) => ~Offers(bid, bid.order[i])
    BY <1>1
  <1>3. Awarded(bid') = Awarded(bid)
    BY <1>1 DEF Awarded, Filled
  <1>4. /\ bid'.disposition[m] # None
        /\ \A n \in Members \ {m} : bid'.disposition[n] = bid.disposition[n]
    BY <1>2, BidPolicy DEF Live, Shape, Documents
  <1>5. HasBeenAsked(bid', m)
    BY <1>4 DEF HasBeenAsked
  <1>6. Participants \subseteq Members
    BY ParticipantsTyped
  <1>7. \A n \in Participants : HasBeenAsked(bid, n) => HasBeenAsked(bid', n)
    BY <1>1, <1>2, <1>3, <1>4, <1>5, <1>6 DEF HasBeenAsked
  <1>8. CASE Waits
    BY <1>1, <1>7, <1>8, AskingWaits
  <1>9. CASE /\ m = bid.bidder /\ InQueue(bid')
             /\ \A i \in DOMAIN bid.order :
                  (i > bid.cursor /\ i < bid'.cursor) => ~Offers(bid, bid.order[i])
    <2>1. \A i \in DOMAIN bid.order :
            ~Offers(bid, bid.order[i]) =>
              \/ TurnIsCompleted(bid, bid.order[i])
              \/ bid.order[i].member \in bid.acting \cup Awarded(bid')
      BY <1>3 DEF Offers
    <2>2. QED
      BY <1>1, <1>5, <1>7, <1>9, <2>1, AskingPast DEF Stepped
  <1>10. QED
    BY <1>2, <1>8, <1>9

LEMMA NextAsking ==
  ASSUME Live(bid), Asking(bid), Next,
         "force" \notin Granted, "approve_transition" \notin Granted
  PROVE  Asking(bid')
  <1>1. Participants \subseteq Members
    BY ParticipantsTyped
  <1>2. ASSUME Selecting
        PROVE  Asking(bid')
    <2>1. PICK m \in Members, p \in Positions, aDay \in BOOLEAN :
            /\ bid.review = None /\ bid.fills[p] = None
            /\ AcceptOrdinary(Selected(m, p, aDay, FALSE))
      BY <1>2, OrdinarySelection
    <2>2. QED
      BY <2>1, AwardAsking
  <1>3. ASSUME PickingADay
        PROVE  Asking(bid')
    BY <1>3, RecordADayAsking DEF PickingADay, DirectADay, Permitted
  <1>4. ASSUME Correcting
        PROVE  Asking(bid')
    BY <1>1, <1>4, CorrectingStepped, AskingWaits DEF StayAsked
  <1>5. ASSUME Sequencing
        PROVE  Asking(bid')
    <2>1. ASSUME Pause \/ Resume
          PROVE  Asking(bid')
      BY <1>1, <2>1, PauseStepped, StillAsked, AskingWaits DEF StayAsked
    <2>2. ASSUME NEW source \in Bijection(Editable, Editable), NEW override \in BOOLEAN,
                 AlterOrder(source, override)
          PROVE  AlterOrder(source, FALSE)
      BY <2>2 DEF AlterOrder, Permitted
    <2>3. ASSUME NEW st, NEW override, NEW prior, NEW withdraw, NEW restore,
                 TransitionStage(st, override, prior, withdraw, restore)
          PROVE  FALSE
      BY <2>3 DEF TransitionStage, Permitted
    <2>4. QED
      BY <1>5, <2>1, <2>2, <2>3, AlterOrderAsking, CompleteAsking DEF Sequencing
  <1>6. ASSUME Contacting
        PROVE  Asking(bid')
    <2>1. ASSUME NEW m \in Members,
                 ContactAttempt(m) \/ DeclareUnreachable(m) \/ ReturnAtCurrentSequence(m)
          PROVE  Asking(bid')
      BY <1>1, <2>1, ContactStepped, StillAsked, AskingWaits DEF StayAsked
    <2>2. QED
      BY <1>6, <2>1, DispositionAsking
         DEF Contacting, OverrideDefer, AssignActing, ReleaseActing, MayAssign, Permitted
  <1>7. ~Adjudicating
    BY DEF Adjudicating, StartSpecialty, AcceptSpecialty, RespondSpecialty, CloseSpecialty,
           Permitted
  <1>8. QED
    BY <1>2, <1>3, <1>4, <1>5, <1>6, <1>7 DEF Next

AskingInvariant == Live(bid) /\ Asking(bid)

\* EveryoneAsked: when the selections are over every participant has a seat, a
\* disposition, a contact case or a revocation.  Every participant has an entry,
\* as computeFrozenStageOrder makes one for each member of each stage.  A stage
\* transition may pass over entries of stages that it does not complete, and an
\* override goes anywhere, so neither is granted to anyone here.
THEOREM EveryoneAskedInTurn ==
  ASSUME "force" \notin Granted, "approve_transition" \notin Granted,
         \A m \in Participants : \E i \in DOMAIN Turns : Turns[i].member = m
  PROVE  Spec => []EveryoneAsked
  <1>1. Init => AskingInvariant
    <2>1. SUFFICES ASSUME Init PROVE AskingInvariant
      OBVIOUS
    <2>2. /\ bid.order = Turns /\ bid.cursor = 1 /\ bid.phase = "position_bid"
          /\ bid.completed = {} /\ bid.acting = {}
      BY <2>1 DEF Init
    <2>3. \A i \in DOMAIN Turns : i >= 1
      BY BidPolicy
    <2>4. Asking(bid)
      BY <2>2, <2>3 DEF Asking, InQueue, Executing
    <2>5. QED
      BY <2>1, <2>4, InitLive DEF AskingInvariant
  <1>2. AskingInvariant /\ [Next]_bid => AskingInvariant'
    BY NextLive, NextAsking DEF AskingInvariant
  <1>3. AskingInvariant => EveryoneAsked
    <2>1. SUFFICES ASSUME Live(bid), Asking(bid), bid.phase = "complete",
                          NEW m \in Participants
                   PROVE  HasBeenAsked(bid, m)
      BY DEF AskingInvariant, EveryoneAsked, HasBeenAsked
    <2>2. bid.cursor \notin DOMAIN bid.order
      BY <2>1 DEF Asking, InQueue, Executing
    <2>3. bid.cursor \in Nat \ {0} /\ Len(bid.order) \in Nat /\ DOMAIN bid.order = 1 .. Len(bid.order)
      BY <2>1, DocumentOrder, OrderTyped DEF Live, Shape, Documents
    <2>4. ~\E i \in DOMAIN bid.order : i >= bid.cursor /\ bid.order[i].member = m
      BY <2>2, <2>3
    <2>5. QED
      BY <2>1, <2>4 DEF Asking
  <1>4. QED
    BY <1>1, <1>2, <1>3, PTL DEF Spec
-----------------------------------------------------------------------------
(* Contacts are settled.                                                   *)

LEMMA OwingKept ==
  ASSUME SameQueue(bid, bid'), NEW m, m \in bid.picks <=> m \in bid'.picks,
         \A p \in Filled(bid) :
           bid.fills[p].member = m => p \in Filled(bid') /\ bid'.fills[p] = bid.fills[p],
         OwesADay(bid, m)
  PROVE  OwesADay(bid', m)
  <1>1. HasOpenTurn(bid', m)
    BY DEF OwesADay, DefersADay, HasOpenTurn, TurnsOf, TurnIsCompleted, SameQueue
  <1>2. PICK p \in Filled(bid) :
          /\ bid.fills[p].member = m /\ ~bid.fills[p].aDay
          /\ p \in Deferred \/ bid.fills[p].deferral = p
    BY DEF OwesADay, DefersADay
  <1>3. p \in Filled(bid') /\ bid'.fills[p] = bid.fills[p]
    BY <1>2
  <1>4. QED
    BY <1>1, <1>2, <1>3 DEF OwesADay, DefersADay

\* What the commands have in common that change nobody's award or A-Day.
LEMMA SettledBeside ==
  ASSUME ContactSettled, SameQueue(bid, bid'), bid'.fills = bid.fills,
         bid'.picks = bid.picks, NEW m, m \in Awarded(bid) => OwesADay(bid, m),
         bid'.unresolved \subseteq bid.unresolved \cup {m},
         bid'.returning \in {bid.returning, None, m}, Live(bid)
  PROVE  ContactSettled'
  <1>1. SUFFICES ASSUME NEW n \in Awarded(bid'), ~OwesADay(bid', n)
                 PROVE  n \notin bid'.unresolved /\ n # bid'.returning
    BY DEF ContactSettled
  <1>2. n \in Awarded(bid) /\ n \in Members /\ n # None
    BY <1>1, MembersTyped DEF Awarded, Filled
  <1>3. Filled(bid') = Filled(bid)
    BY DEF Filled
  <1>4. ~OwesADay(bid, n)
    BY <1>1, <1>3, OwingKept
  <1>5. QED
    BY <1>2, <1>4 DEF ContactSettled

LEMMA AwardSettled ==
  ASSUME Live(bid), Answerable(bid), ContactSettled,
         NEW m \in Members, NEW p \in Positions, NEW aDay \in BOOLEAN,
         bid.review = None, bid.fills[p] = None,
         AcceptOrdinary(Selected(m, p, aDay, FALSE))
  PROVE  Answerable(bid') /\ ContactSettled'
  <1>1. /\ SameQueue(bid, bid')
        /\ Filled(bid') = Filled(bid) \cup {p}
        /\ \A q \in Filled(bid) : bid'.fills[q] = bid.fills[q]
        /\ Awarded(bid') = Awarded(bid) \cup {m}
        /\ \A n \in Members \ {m} : n \in Given(bid') <=> n \in Given(bid)
        /\ bid'.picks = (bid.picks \cap Awarded(bid')) \cup Given(bid')
        /\ bid'.unresolved = bid.unresolved \ {m}
        /\ bid'.returning = IF bid.returning = m THEN None ELSE bid.returning
        /\ Answerable(bid')
    BY SelectionStepped
  <1>2. SUFFICES ASSUME NEW n \in Awarded(bid'), ~OwesADay(bid', n), n # m
                 PROVE  n \notin bid'.unresolved /\ n # bid'.returning
    BY <1>1, BidPolicy DEF ContactSettled
  <1>3. n \in Awarded(bid) /\ n \in Members /\ n # None
    BY <1>1, <1>2, MembersTyped
  <1>4. n \in bid.picks <=> n \in bid'.picks
    BY <1>1, <1>2, <1>3 DEF Live, Paid
  <1>5. ~OwesADay(bid, n)
    BY <1>1, <1>2, <1>4, OwingKept
  <1>6. QED
    BY <1>1, <1>2, <1>3, <1>5 DEF ContactSettled

LEMMA RecordADaySettled ==
  ASSUME Live(bid), ContactSettled, NEW m \in Members, RecordADay(m)
  PROVE  Answerable(bid') /\ ContactSettled'
  <1>1. /\ SamePeople(bid, bid') /\ SameQueue(bid, bid') /\ Answerable(bid')
        /\ bid'.unresolved = bid.unresolved \ {m}
        /\ bid'.returning = IF bid.returning = m THEN None ELSE bid.returning
        /\ bid'.picks = bid.picks \cup {m}
    BY RecordADayStepped
  <1>2. SUFFICES ASSUME NEW n \in Awarded(bid'), ~OwesADay(bid', n), n # m
                 PROVE  n \notin bid'.unresolved /\ n # bid'.returning
    BY <1>1, BidPolicy DEF ContactSettled
  <1>3. n \in Awarded(bid) /\ n \in Members /\ n # None /\ Filled(bid') = Filled(bid)
    BY <1>1, <1>2, MembersTyped DEF SamePeople, Awarded, Filled
  <1>4. ~OwesADay(bid, n)
    BY <1>1, <1>2, <1>3, OwingKept DEF SamePeople
  <1>5. QED
    BY <1>1, <1>2, <1>3, <1>4 DEF ContactSettled

LEMMA DispositionSettled ==
  ASSUME Live(bid), Answerable(bid), ContactSettled,
         NEW d \in Dispositions, Disposition(d)
  PROVE  Answerable(bid') /\ ContactSettled'
  <1>1. /\ SameQueue(bid, bid') /\ bid'.fills = bid.fills /\ bid'.picks = bid.picks
        /\ Answerable(bid')
        /\ \E m \in Members :
             /\ m = IF bid.returning # None THEN bid.returning ELSE bid.bidder
             /\ \/ bid.returning # None \/ bid.phase = "position_bid"
                \/ DefersADay(bid, m) /\ Executing(bid) = "a_day_bid"
             /\ bid'.unresolved \in {bid.unresolved, bid.unresolved \cup {m}}
             /\ bid'.returning = bid.returning \/ (bid'.returning = None /\ bid.returning = m)
    BY DispositionStepped
  <1>2. PICK m \in Members :
          /\ m = IF bid.returning # None THEN bid.returning ELSE bid.bidder
          /\ \/ bid.returning # None \/ bid.phase = "position_bid"
             \/ DefersADay(bid, m) /\ Executing(bid) = "a_day_bid"
          /\ bid'.unresolved \in {bid.unresolved, bid.unresolved \cup {m}}
          /\ bid'.returning = bid.returning \/ (bid'.returning = None /\ bid.returning = m)
    BY <1>1
  <1>3. m \in Awarded(bid) => OwesADay(bid, m)
    <2>1. CASE bid.returning # None
      BY <1>2, <2>1 DEF ContactSettled
    <2>2. CASE bid.returning = None /\ bid.phase = "position_bid"
      BY <1>2, <2>2 DEF Answerable, Executing
    <2>3. CASE bid.returning = None /\ DefersADay(bid, m) /\ Executing(bid) = "a_day_bid"
      BY <1>2, <2>3 DEF Answerable, OwesADay
    <2>4. QED
      BY <1>2, <2>1, <2>2, <2>3
  <1>4. QED
    BY <1>1, <1>2, <1>3, SettledBeside

LEMMA NoCorrection ==
  ASSUME "force" \notin Granted, "amend_selection" \notin Granted
  PROVE  ~Correcting
  <1>1. ASSUME NEW s, NEW m, NEW override, AcceptCorrection(s, m, override)
        PROVE  FALSE
    BY <1>1 DEF AcceptCorrection, Permitted
  <1>2. ASSUME NEW m, NEW override
        PROVE  ~CorrectRevoke(m, override)
    BY <1>1 DEF CorrectRevoke
  <1>3. ASSUME NEW m, NEW p, NEW aDay, NEW override
        PROVE  ~CorrectReplace(m, p, aDay, override)
    BY <1>1 DEF CorrectReplace
  <1>4. ASSUME NEW p, NEW aDay
        PROVE  ~Amend(p, aDay)
    BY DEF Amend, Permitted
  <1>5. QED
    BY <1>2, <1>3, <1>4 DEF Correcting

LEMMA NextSettled ==
  ASSUME Live(bid), Answerable(bid), ContactSettled, Next,
         "force" \notin Granted, "approve_transition" \notin Granted,
         "amend_selection" \notin Granted, "alter_order" \notin Granted
  PROVE  Answerable(bid') /\ ContactSettled'
  <1>1. ASSUME Selecting
        PROVE  Answerable(bid') /\ ContactSettled'
    <2>1. PICK m \in Members, p \in Positions, aDay \in BOOLEAN :
            /\ bid.review = None /\ bid.fills[p] = None
            /\ AcceptOrdinary(Selected(m, p, aDay, FALSE))
      BY <1>1, OrdinarySelection
    <2>2. QED
      BY <2>1, AwardSettled
  <1>2. ASSUME PickingADay
        PROVE  Answerable(bid') /\ ContactSettled'
    BY <1>2, RecordADaySettled DEF PickingADay, DirectADay, Permitted
  <1>3. ~Correcting
    BY NoCorrection
  <1>4. ASSUME Sequencing
        PROVE  Answerable(bid') /\ ContactSettled'
    <2>1. \A m : None \in Awarded(bid) => OwesADay(bid, None)
      BY MembersTyped
    <2>2. ASSUME Pause \/ Resume
          PROVE  Answerable(bid') /\ ContactSettled'
      BY <2>1, <2>2, PauseStepped, AnswerableBeside, SettledBeside DEF Waits, SamePeople
    <2>3. ASSUME CompleteSession
          PROVE  Answerable(bid') /\ ContactSettled'
      BY <2>1, <2>3, CompleteStepped, SettledBeside DEF Waits, SamePeople
    <2>4. ASSUME NEW st, NEW override, NEW prior, NEW withdraw, NEW restore,
                 TransitionStage(st, override, prior, withdraw, restore)
          PROVE  FALSE
      BY <2>4 DEF TransitionStage, Permitted
    <2>5. ASSUME NEW source, NEW override, AlterOrder(source, override)
          PROVE  FALSE
      BY <2>5 DEF AlterOrder, Permitted
    <2>6. QED
      BY <1>4, <2>2, <2>3, <2>4, <2>5 DEF Sequencing
  <1>5. ASSUME Contacting
        PROVE  Answerable(bid') /\ ContactSettled'
    <2>1. ASSUME NEW m \in Members,
                 ContactAttempt(m) \/ DeclareUnreachable(m) \/ ReturnAtCurrentSequence(m)
          PROVE  Answerable(bid') /\ ContactSettled'
      <3>1. /\ Waits /\ SamePeople(bid, bid') /\ bid'.picks = bid.picks /\ Answerable(bid')
            /\ \/ /\ bid'.unresolved = bid.unresolved /\ bid'.returning = bid.returning
               \/ /\ m \in Awarded(bid) => OwesADay(bid, m)
                  /\ bid'.unresolved = bid.unresolved \cup {m}
                  /\ bid'.returning = bid.returning
               \/ /\ m \notin Awarded(bid) /\ bid.returning = None
                  /\ bid'.unresolved = bid.unresolved \ {m} /\ bid'.returning = m
        BY <2>1, ContactStepped
      <3>2. None \notin Awarded(bid)
        BY MembersTyped
      <3>3. CASE bid'.unresolved = bid.unresolved /\ bid'.returning = bid.returning
        BY <3>1, <3>2, <3>3, SettledBeside DEF Waits, SamePeople
      <3>4. CASE m \in Awarded(bid) => OwesADay(bid, m)
        BY <3>1, <3>4, SettledBeside DEF Waits, SamePeople
      <3>5. QED
        BY <3>1, <3>3, <3>4
    <2>2. QED
      BY <1>5, <2>1, DispositionSettled
         DEF Contacting, OverrideDefer, AssignActing, ReleaseActing, MayAssign, Permitted
  <1>6. ~Adjudicating
    BY DEF Adjudicating, StartSpecialty, AcceptSpecialty, RespondSpecialty, CloseSpecialty,
           Permitted
  <1>7. QED
    BY <1>1, <1>2, <1>3, <1>4, <1>5, <1>6 DEF Next

SettledInvariant == Live(bid) /\ Answerable(bid) /\ ContactSettled

\* ContactSettled: nobody who has a seat and owes no A-Day stays unresolved or
\* returning.  The commands assumed away do leave a contact open: an accepted
\* specialty, a replacement and an amendment settle none, a transition ends
\* turns, and an altered order may put a seated member in turn.
THEOREM ContactsSettled ==
  ASSUME "force" \notin Granted, "approve_transition" \notin Granted,
         "amend_selection" \notin Granted, "alter_order" \notin Granted
  PROVE  Spec => []ContactSettled
  <1>1. Init => SettledInvariant
    <2>1. SUFFICES ASSUME Init PROVE SettledInvariant
      OBVIOUS
    <2>2. Awarded(bid) = {}
      BY <2>1 DEF Init, Awarded, Filled
    <2>3. QED
      BY <2>1, <2>2, InitLive DEF SettledInvariant, ContactSettled
  <1>2. SettledInvariant /\ [Next]_bid => SettledInvariant'
    <2>1. SUFFICES ASSUME SettledInvariant, [Next]_bid PROVE SettledInvariant'
      OBVIOUS
    <2>2. CASE Next
      BY <2>1, <2>2, NextLive, NextSettled DEF SettledInvariant
    <2>3. CASE bid' = bid
      BY <2>1, <2>3 DEF SettledInvariant, ContactSettled
    <2>4. QED
      BY <2>1, <2>2, <2>3
  <1>3. SettledInvariant => ContactSettled
    BY DEF SettledInvariant
  <1>4. QED
    BY <1>1, <1>2, <1>3, PTL DEF Spec

-----------------------------------------------------------------------------
(* A specialty seat goes by the ranking.                                   *)

\* Nobody ranked before m, who gets p, has a right to it that he was not asked for.
Priority(s, p, m) ==
  \A c \in Ranked \ Awarded(s) :
    Rank(c) < Rank(m) =>
      \/ s.disposition[c] # None \/ ~HasOpenTurn(s, c)
      \/ \E r \in s.responses :
           r.seat = p /\ r.member = c /\ (r.requester = m \/ Rank(m) < Rank(r.requester))

LEMMA PriorityOfEach ==
  PriorityRespected <=>
    \A p \in Specialty.seats \cap Filled(bid) : Priority(bid, p, bid.fills[p].member)
  BY DEF PriorityRespected, Priority, Answered

\* A command gives nobody a right to a specialty seat that he did not have.
RightsOnlyEnd ==
  /\ Awarded(bid) \subseteq Awarded(bid') /\ bid.responses \subseteq bid'.responses
  /\ \A c \in Members : bid.disposition[c] # None => bid'.disposition[c] # None
  /\ \A c \in Members \ Awarded(bid') : ~HasOpenTurn(bid, c) => ~HasOpenTurn(bid', c)

LEMMA RankedTyped == Ranked \subseteq Members
  BY BidPolicy DEF Ranked

LEMMA PriorityKept ==
  ASSUME RightsOnlyEnd, NEW p, NEW m, Priority(bid, p, m)
  PROVE  Priority(bid', p, m)
  BY RankedTyped DEF RightsOnlyEnd, Priority

LEMMA PriorityOfAward ==
  ASSUME NEW m, NEW p \in Specialty.seats, NEW requester, MayBeAwarded(m, p, requester),
         bid.acting = {}, requester = m \/ Rank(m) < Rank(requester)
  PROVE  Priority(bid, p, m)
  <1> DEFINE C == {c \in Ranked :
                     /\ Rank(c) < Rank(m)
                     /\ ~HoldsAnotherSeat(c, p) /\ c \notin bid.acting /\ ~RightsEnded(c)
                     /\ [seat |-> p, requester |-> requester, member |-> c] \notin bid.responses}
  <1>1. Among(Specialty.ranking, C) = <<>> /\ Specialty.ranking \in Seq(Members)
    BY BidPolicy DEF MayBeAwarded, Ahead
  <1> HIDE DEF C
  <1>2. Filtered(Specialty.ranking, Members, C, Len(Specialty.ranking), <<>>)
    BY <1>1, AmongFilters
  <1>3. \A i \in DOMAIN Specialty.ranking : Specialty.ranking[i] \notin C
    <2>1. DOMAIN Specialty.ranking = 1 .. Len(Specialty.ranking)
      BY <1>1
    <2>2. QED
      BY <1>2, <2>1 DEF Filtered
  <1>4. SUFFICES ASSUME NEW c \in Ranked, c \notin Awarded(bid), Rank(c) < Rank(m),
                        bid.disposition[c] = None, HasOpenTurn(bid, c)
                 PROVE  [seat |-> p, requester |-> requester, member |-> c] \in bid.responses
    BY DEF Priority
  <1>5. c \notin C
    BY <1>3, <1>4 DEF Ranked
  <1>6. ~HoldsAnotherSeat(c, p)
    BY <1>4 DEF HoldsAnotherSeat, Awarded
  <1>7. ~RightsEnded(c)
    BY <1>4, BidPolicy DEF RightsEnded, RuleOf
  <1>8. QED
    BY <1>4, <1>5, <1>6, <1>7 DEF C

\* A command that awards nothing.
LEMMA PriorityUntouched ==
  ASSUME PriorityRespected, RightsOnlyEnd, bid'.fills = bid.fills
  PROVE  PriorityRespected'
  <1>1. Filled(bid') = Filled(bid)
    BY DEF Filled
  <1>2. \A p \in Specialty.seats \cap Filled(bid') : Priority(bid', p, bid'.fills[p].member)
    BY <1>1, PriorityOfEach, PriorityKept
  <1>3. PriorityRespected' <=>
          \A p \in Specialty.seats \cap Filled(bid') : Priority(bid', p, bid'.fills[p].member)
    BY DEF PriorityRespected, Priority, Answered
  <1>4. QED
    BY <1>2, <1>3

LEMMA OpenTurnsKept ==
  ASSUME SameQueue(bid, bid'), NEW c
  PROVE  HasOpenTurn(bid', c) <=> HasOpenTurn(bid, c)
  BY DEF SameQueue, HasOpenTurn, TurnsOf, TurnIsCompleted

\* A command that leaves awards, dispositions and order alone.
LEMMA RightsKept ==
  ASSUME SameQueue(bid, bid'), bid'.fills = bid.fills, bid'.disposition = bid.disposition,
         bid.responses \subseteq bid'.responses
  PROVE  RightsOnlyEnd
  BY OpenTurnsKept DEF RightsOnlyEnd, Awarded, Filled

LEMMA RecordSelectionPriority ==
  ASSUME Live(bid), PriorityRespected, bid.acting = {},
         NEW m \in Members, NEW p \in Positions, RecordSelection(m, p)
  PROVE  PriorityRespected' /\ bid'.acting = {}
  <1>1. /\ bid.review = None /\ bid.fills[p] = None /\ MayBeAwarded(m, p, m)
        /\ AcceptOrdinary(Selected(m, p, TRUE, FALSE)) /\ TRUE \in BOOLEAN
    BY DEF RecordSelection, Selectable, OpenSeat, Requester
  <1>2. /\ SameQueue(bid, bid') /\ bid'.acting = bid.acting
        /\ bid'.disposition = bid.disposition /\ bid'.responses = bid.responses
        /\ Filled(bid') = Filled(bid) \cup {p} /\ bid'.fills[p].member = m
        /\ \A q \in Filled(bid) : bid'.fills[q] = bid.fills[q]
        /\ Awarded(bid') = Awarded(bid) \cup {m}
    BY <1>1, SelectionStepped
  <1>3. RightsOnlyEnd
    BY <1>2, OpenTurnsKept DEF RightsOnlyEnd
  <1>4. ASSUME NEW q \in Specialty.seats \cap Filled(bid')
        PROVE  Priority(bid', q, bid'.fills[q].member)
    <2>1. CASE q = p
      BY <1>1, <1>2, <1>3, <1>4, <2>1, PriorityOfAward, PriorityKept
    <2>2. CASE q # p
      BY <1>2, <1>3, <1>4, <2>2, PriorityOfEach, PriorityKept
    <2>3. QED
      BY <2>1, <2>2
  <1>5. QED
    BY <1>2, <1>4 DEF PriorityRespected, Priority, Answered

LEMMA TransitionRights ==
  ASSUME SamePeople(bid, bid'), bid'.order = bid.order, bid.completed \subseteq bid'.completed
  PROVE  RightsOnlyEnd
  <1>1. \A c : ~HasOpenTurn(bid, c) => ~HasOpenTurn(bid', c)
    BY DEF HasOpenTurn, TurnsOf, TurnIsCompleted
  <1>2. QED
    BY <1>1 DEF RightsOnlyEnd, SamePeople, Awarded, Filled

LEMMA AlterOrderRights ==
  ASSUME Live(bid), NEW source \in Bijection(Editable, Editable), NEW override \in BOOLEAN,
         AlterOrder(source, override)
  PROVE  RightsOnlyEnd
  <1>1. /\ SamePeople(bid, bid') /\ bid'.completed = bid.completed
        /\ DOMAIN bid'.order = DOMAIN bid.order
        /\ \A i \in DOMAIN bid.order :
             /\ i \notin Editable => bid'.order[i] = bid.order[i]
             /\ i \in Editable => \E j \in Editable : bid'.order[i] = bid.order[j]
    BY AlterOrderStepped
  <1>2. \A i \in Editable : ~TurnIsCompleted(bid, bid.order[i])
    BY DEF Editable
  <1>3. Editable \subseteq DOMAIN bid.order
    <2>1. bid.cursor \in Nat \ {0} /\ Len(bid.order) \in Nat /\ DOMAIN bid.order = 1 .. Len(bid.order)
      BY DocumentOrder, OrderTyped DEF Live, Shape, Documents
    <2>2. QED
      BY <2>1 DEF Editable, Remaining
  <1> HIDE DEF Editable
  <1>4. ASSUME NEW c, ~HasOpenTurn(bid, c)
        PROVE  ~HasOpenTurn(bid', c)
    <2>1. /\ TurnsOf(bid, c) # {}
          /\ \A i \in TurnsOf(bid, c) : TurnIsCompleted(bid, bid.order[i])
      BY <1>4 DEF HasOpenTurn
    <2>2. \A i \in TurnsOf(bid, c) : i \notin Editable /\ bid'.order[i] = bid.order[i]
      BY <1>1, <1>2, <2>1 DEF TurnsOf
    <2>3. ASSUME NEW i \in TurnsOf(bid', c)
          PROVE  i \in TurnsOf(bid, c)
      <3>1. CASE i \in Editable
        <4>1. PICK j \in Editable : bid'.order[i] = bid.order[j]
          BY <1>1, <1>3, <3>1
        <4>2. j \in TurnsOf(bid, c)
          BY <1>3, <2>3, <4>1 DEF TurnsOf
        <4>3. QED
          BY <2>2, <4>2
      <3>2. CASE i \notin Editable
        BY <1>1, <2>3, <3>2 DEF TurnsOf
      <3>3. QED
        BY <3>1, <3>2
    <2>4. TurnsOf(bid', c) = TurnsOf(bid, c)
      BY <1>1, <2>2, <2>3 DEF TurnsOf
    <2>5. QED
      BY <1>1, <2>1, <2>2, <2>4 DEF HasOpenTurn, TurnIsCompleted
  <1>5. QED
    BY <1>1, <1>4 DEF RightsOnlyEnd, SamePeople, Awarded, Filled

\* The accepted candidate comes before the suspended bidder.
LEMMA AcceptSpecialtyPriority ==
  ASSUME Live(bid), PriorityRespected, bid.acting = {}, NEW p \in Positions,
         AcceptSpecialty(p)
  PROVE  PriorityRespected' /\ bid'.acting = {}
  <1>1. bid.review # None /\ MayBeAwarded(Candidate, p, bid.review.suspended)
    BY DEF AcceptSpecialty
  <1>2. Rank(Candidate) < Rank(bid.review.suspended)
    BY <1>1, NextCandidateTyped DEF Live, Adjudicated
  <1> HIDE DEF Candidate
  <1>3. /\ bid'.completed = bid.completed /\ bid'.acting = bid.acting
        /\ bid'.disposition = bid.disposition /\ bid'.responses = bid.responses
        /\ p \in Filled(bid') /\ bid'.fills[p].member = Candidate
        /\ \A q \in Filled(bid') \ {p} : q \in Filled(bid) /\ bid'.fills[q] = bid.fills[q]
        /\ \A q \in Filled(bid) : bid.fills[q].member # Candidate =>
             q \in Filled(bid') /\ bid'.fills[q] = bid.fills[q]
        /\ \A i \in DOMAIN bid.order : bid.order[i].member # Candidate =>
             \E j \in DOMAIN bid'.order : bid'.order[j] = bid.order[i]
        /\ \A j \in DOMAIN bid'.order : \E i \in DOMAIN bid.order : bid'.order[j] = bid.order[i]
    BY AcceptSpecialtyStepped
  <1>4. Candidate \in Awarded(bid') /\ Awarded(bid) \subseteq Awarded(bid')
    BY <1>3 DEF Awarded
  <1>5. ASSUME NEW c, c # Candidate, ~HasOpenTurn(bid, c)
        PROVE  ~HasOpenTurn(bid', c)
    BY <1>3, <1>5 DEF HasOpenTurn, TurnsOf, TurnIsCompleted
  <1>6. RightsOnlyEnd
    BY <1>3, <1>4, <1>5 DEF RightsOnlyEnd
  <1>7. ASSUME NEW q \in Specialty.seats \cap Filled(bid')
        PROVE  Priority(bid', q, bid'.fills[q].member)
    <2>1. CASE q = p
      BY <1>1, <1>2, <1>3, <1>6, <1>7, <2>1, PriorityOfAward, PriorityKept
    <2>2. CASE q # p
      BY <1>3, <1>6, <1>7, <2>2, PriorityOfEach, PriorityKept
    <2>3. QED
      BY <2>1, <2>2
  <1>8. QED
    BY <1>3, <1>7 DEF PriorityRespected, Priority, Answered

LEMMA DispositionRights ==
  ASSUME Live(bid), NEW d \in Dispositions, Disposition(d)
  PROVE  RightsOnlyEnd
  <1>1. /\ SameQueue(bid, bid') /\ bid'.fills = bid.fills
        /\ bid'.responses = bid.responses
        /\ \E m \in Members : bid'.disposition = [bid.disposition EXCEPT ![m] = d]
    BY DispositionStepped
  <1>2. \A c \in Members : bid.disposition[c] # None => bid'.disposition[c] # None
    BY <1>1, BidPolicy DEF Live, Shape, Documents
  <1>3. QED
    BY <1>1, <1>2, OpenTurnsKept DEF RightsOnlyEnd, Awarded, Filled

LEMMA NextPriority ==
  ASSUME Live(bid), PriorityRespected, bid.acting = {}, Next,
         ~Fallback, "force" \notin Granted, "amend_selection" \notin Granted
  PROVE  PriorityRespected' /\ bid'.acting = {}
  <1>1. ASSUME Selecting
        PROVE  PriorityRespected' /\ bid'.acting = {}
    BY <1>1, RecordSelectionPriority
       DEF Selecting, ForceSelection, FallbackSelection, DirectSelection, Permitted
  <1>2. ASSUME PickingADay
        PROVE  PriorityRespected' /\ bid'.acting = {}
    BY <1>2, RecordADayStepped, RightsKept, PriorityUntouched
       DEF PickingADay, DirectADay, Permitted, SamePeople
  <1>3. ~Correcting
    BY NoCorrection
  <1>4. ASSUME Sequencing
        PROVE  PriorityRespected' /\ bid'.acting = {}
    <2>1. ASSUME Pause \/ Resume
          PROVE  PriorityRespected' /\ bid'.acting = {}
      BY <2>1, PauseStepped, RightsKept, PriorityUntouched DEF Waits, SamePeople
    <2>2. ASSUME CompleteSession
          PROVE  PriorityRespected' /\ bid'.acting = {}
      BY <2>2, CompleteStepped, RightsKept, PriorityUntouched DEF Waits, SamePeople
    <2>3. ASSUME NEW st \in StageIds, NEW override \in BOOLEAN, NEW prior \in BOOLEAN,
                 NEW withdraw \in SUBSET Biddable, NEW restore \in SUBSET Biddable,
                 TransitionStage(st, override, prior, withdraw, restore)
          PROVE  PriorityRespected' /\ bid'.acting = {}
      BY <2>3, TransitionStepped, TransitionRights, PriorityUntouched DEF SamePeople
    <2>4. ASSUME NEW source \in Bijection(Editable, Editable), NEW override \in BOOLEAN,
                 AlterOrder(source, override)
          PROVE  PriorityRespected' /\ bid'.acting = {}
      BY <2>4, AlterOrderStepped, AlterOrderRights, PriorityUntouched DEF SamePeople
    <2>5. QED
      BY <1>4, <2>1, <2>2, <2>3, <2>4 DEF Sequencing
  <1>5. ASSUME Contacting
        PROVE  PriorityRespected' /\ bid'.acting = {}
    <2>1. ASSUME NEW m \in Members,
                 ContactAttempt(m) \/ DeclareUnreachable(m) \/ ReturnAtCurrentSequence(m)
          PROVE  PriorityRespected' /\ bid'.acting = {}
      BY <2>1, ContactStepped, RightsKept, PriorityUntouched DEF Waits, SamePeople
    <2>2. ASSUME NEW d \in Dispositions, Disposition(d)
          PROVE  PriorityRespected' /\ bid'.acting = {}
      BY <2>2, DispositionStepped, DispositionRights, PriorityUntouched
    <2>3. QED
      BY <1>5, <2>1, <2>2
         DEF Contacting, OverrideDefer, AssignActing, ReleaseActing, MayAssign, Permitted
  <1>6. ASSUME Adjudicating
        PROVE  PriorityRespected' /\ bid'.acting = {}
    <2>1. ASSUME NEW p \in Positions, StartSpecialty(p)
          PROVE  PriorityRespected' /\ bid'.acting = {}
      BY <2>1, StartSpecialtyStepped, RightsKept, PriorityUntouched DEF SamePeople
    <2>2. ASSUME CloseSpecialty
          PROVE  PriorityRespected' /\ bid'.acting = {}
      BY <2>2, CloseSpecialtyStepped, RightsKept, PriorityUntouched DEF SamePeople
    <2>3. ASSUME NEW d \in Dispositions, RespondSpecialty(d)
          PROVE  PriorityRespected' /\ bid'.acting = {}
      BY <2>3, RespondSpecialtyStepped, RightsKept, PriorityUntouched
    <2>4. QED
      BY <1>6, <2>1, <2>2, <2>3, AcceptSpecialtyPriority DEF Adjudicating
  <1>7. QED
    BY <1>1, <1>2, <1>3, <1>4, <1>5, <1>6 DEF Next

PriorityInvariant == Live(bid) /\ bid.acting = {} /\ PriorityRespected

\* PriorityRespected: whoever is ranked before the member who got a specialty
\* seat has a seat, a disposition, no turn left, or answered for this seat and
\* this request or one from further below.  The seats that go without the ranking
\* are assumed away: those of a fallback tier, of overrides and of corrections.
THEOREM SpecialtyByRank ==
  ASSUME ~Fallback, "force" \notin Granted, "amend_selection" \notin Granted
  PROVE  Spec => []PriorityRespected
  <1>1. Init => PriorityInvariant
    BY InitLive DEF PriorityInvariant, PriorityRespected, Init, Filled
  <1>2. PriorityInvariant /\ [Next]_bid => PriorityInvariant'
    <2>1. SUFFICES ASSUME PriorityInvariant, [Next]_bid PROVE PriorityInvariant'
      OBVIOUS
    <2>2. CASE Next
      BY <2>1, <2>2, NextLive, NextPriority DEF PriorityInvariant
    <2>3. CASE bid' = bid
      BY <2>1, <2>3 DEF PriorityInvariant, PriorityRespected, Answered
    <2>4. QED
      BY <2>1, <2>2, <2>3
  <1>3. PriorityInvariant => PriorityRespected
    BY DEF PriorityInvariant
  <1>4. QED
    BY <1>1, <1>2, <1>3, PTL DEF Spec

===============================================================================
