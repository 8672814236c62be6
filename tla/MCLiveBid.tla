----------------------------- MODULE MCLiveBid -----------------------------
(* Small frozen policies for LiveBid. *)
EXTENDS LiveBid

CONSTANTS m1, m2, m3, p1, p2, p3

\* A rank stage for m1 and m2, then a Days stage for m2 and m3.
MCMembers   == {m1, m2, m3}
MCPositions == {p1, p2, p3}
MCStages ==
  <<[members |-> {m1, m2}, seats |-> {p1, p2}, days |-> FALSE],
    [members |-> {m2, m3}, seats |-> {p3},     days |-> TRUE]>>
MCTurns ==
  <<[member |-> m1, stage |-> 1], [member |-> m2, stage |-> 1],
    [member |-> m2, stage |-> 2], [member |-> m3, stage |-> 2]>>
MCDeferred  == {p2}
MCSpecialty == [seats |-> {p1, p2}, ranking |-> <<m3, m1, m2>>]
\* The same with fewer people, for the runs with administrator overrides.
TwoMembers == {m1, m2}
TwoSeats   == {p1, p2}

\* One stage, both its seats contested by specialty candidates.
OneStage == <<[members |-> {m1, m2}, seats |-> {p1, p2}, days |-> FALSE]>>
OneTurns == <<[member |-> m1, stage |-> 1], [member |-> m2, stage |-> 1]>>

NoSpecialty == [seats |-> {}, ranking |-> <<>>]
OneSeat     == [seats |-> {p2}, ranking |-> <<m2, m1>>]

\* The bound of the run with overrides: how many things are out of the ordinary
\* at a time (members on acting duty, seats withdrawn, awards in correction,
\* members deferred, turns given again).
MaxIrregular == 2
Irregular ==
  Cardinality(bid.acting) + Cardinality(bid.withdrawn)
    + Cardinality({m \in Members : bid.revoked[m] # None})
    + Cardinality({m \in Members : bid.disposition[m] # None})
    + Cardinality({i \in DOMAIN bid.order : i > Len(Turns)})
FewIrregular == Irregular <= MaxIrregular

Rule(advances, terminal, retains) ==
  [advances |-> advances, terminal |-> terminal, retains |-> retains]

\* bid-policy rules: a pass and a deferral keep the right, a refusal ends it.
MCRules ==
  [d \in {"DEFER", "DECLINED", "UNREACHABLE"} |->
     CASE d = "DEFER"    -> Rule(TRUE, FALSE, TRUE)
       [] d = "DECLINED" -> Rule(TRUE, TRUE, FALSE)
       [] OTHER          -> Rule(TRUE, FALSE, TRUE)]
=============================================================================
