------------------------------- MODULE MCADay -------------------------------
(* Small frozen policies for ADay. *)
EXTENDS ADay

CONSTANTS m1, m2, p1, p2, p3, G1, G2

MCMembers   == {m1, m2}
MCPositions == {p1, p2}
MCStages == <<[members |-> {m1, m2}, seats |-> {p1, p2}, days |-> FALSE]>>
MCTurns  == <<[member |-> m1, stage |-> 1], [member |-> m2, stage |-> 1]>>
NoSpecialty == [seats |-> {}, ranking |-> <<>>]
MCRules == [d \in {"DEFER", "DECLINED"} |->
   [advances |-> TRUE, terminal |-> d = "DECLINED", retains |-> d = "DEFER"]]
MCShift == [p \in MCPositions |-> "A"]

\* Three seats on two shifts.
TwoShiftSeats  == {p1, p2, p3}
TwoShifts      == [p \in TwoShiftSeats |-> IF p = p1 THEN "A" ELSE "B"]
TwoShiftStages == <<[members |-> {m1, m2}, seats |-> {p1, p2, p3}, days |-> FALSE]>>

\* At most one of m1 and whoever sits on p2 may be off on the same day.
OneScope == {[members |-> {m1}, seats |-> {p2}, shifts |-> {"A"}, maximum |-> 1]}
=============================================================================
