------------------------- MODULE MCCanonicalCommand -------------------------
(* Instances of CanonicalCommand for TLC.                                  *)
EXTENDS CanonicalCommand

Cmd(id, kind, expected) == [id |-> id, kind |-> kind, expected |-> expected]

\* Two freezes of a rehearsal, and a second request under the first id.
FreezeRequests ==
  {Cmd("c1", "freeze", 0), Cmd("c1", "freeze", 1), Cmd("c2", "freeze", 0)}

\* A freeze and a live command that compete for the first sequence number, and
\* a live command on the next one.
LateRequests ==
  {Cmd("c1", "live", 0), Cmd("c2", "live", 1), Cmd("c3", "freeze", 0)}

\* Live commands on the same sequence and on the next one, one id used twice.
LiveRequests == {Cmd("c1", "live", 0), Cmd("c2", "live", 1), Cmd("c2", "live", 0)}

=============================================================================
