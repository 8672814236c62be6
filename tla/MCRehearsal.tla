---------------------------- MODULE MCRehearsal ----------------------------
(* A mock with two members and two positions, and the requests of Rehearsal. *)
EXTENDS Rehearsal, TLC

CONSTANTS m1, m2, p1, p2, k1, k2, k3, w1, w2

MCOrder == <<m1, m2>>
MCRules == <<p1, p2>>
MCEligible == {<<m1, p1>>, <<m2, p1>>, <<m2, p2>>}

Auto(k, n, expected) ==
  [key |-> k, op |-> "auto_bid", expected |-> expected, count |-> n,
   member |-> None, seat |-> None, force |-> FALSE]
Manual(k, m, p, force, expected) ==
  [key |-> k, op |-> "manual_pick", expected |-> expected, count |-> 0,
   member |-> m, seat |-> p, force |-> force]

\* Three commands on the same review, two of them with one key, and one on the next.
MCRequests == {Auto(k1, 1, 0), Manual(k2, m2, p1, FALSE, 0), Manual(k1, m1, p2, TRUE, 0),
               Auto(k3, 2, 1)}

WorkerSymmetry == Permutations({w1, w2})
=============================================================================
