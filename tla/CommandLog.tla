----------------------------- MODULE CommandLog -----------------------------
(***************************************************************************)
(* What the canonical command service promises its clients: a log of       *)
(* commands that only grows, one command per sequence number; one verdict  *)
(* per command id, which never changes; and answers that agree with the    *)
(* log and the verdicts at the moment they are given.  There is no DO, no  *)
(* batch and no failure here.                                              *)
(***************************************************************************)
EXTENDS Naturals

CONSTANTS CommandIds, Requests, None

VARIABLES
  head,      \* the last sequence number, or None before the log is opened
  log,       \* the accepted commands: {[seq, id]}
  verdict,   \* by command id: None or [req, code, seq]
  told       \* the answers given

vars == <<head, log, verdict, told>>

Permanent == {"REJECTED", "SESSION_FROZEN", "STALE_SEQUENCE", "LEGACY_STATE_REQUIRES_IMPORT"}

Init ==
  /\ head = None
  /\ log = {}
  /\ verdict = [c \in CommandIds |-> None]
  /\ told = {}

Open ==
  /\ head = None
  /\ head' = 0
  /\ UNCHANGED <<log, verdict, told>>

\* The command takes the sequence number after the one it expected.
Accept(r) ==
  /\ verdict[r.id] = None
  /\ head \in {None, r.expected}
  /\ head' = r.expected + 1
  /\ log' = log \cup {[seq |-> r.expected + 1, id |-> r.id]}
  /\ verdict' = [verdict EXCEPT ![r.id] =
                   [req |-> r, code |-> "ACCEPTED", seq |-> r.expected + 1]]
  /\ UNCHANGED told

Refuse(r, code) ==
  /\ verdict[r.id] = None
  /\ code = "STALE_SEQUENCE" => head # r.expected
  /\ verdict' = [verdict EXCEPT ![r.id] = [req |-> r, code |-> code, seq |-> 0]]
  /\ UNCHANGED <<head, log, told>>

Tell(answer) == told' = told \cup {answer} /\ UNCHANGED <<head, log, verdict>>

\* The verdict on this very request
TellVerdict(r) ==
  verdict[r.id] # None /\ verdict[r.id].req = r /\ Tell(verdict[r.id])

\* The id has a verdict, on another request.
TellReused(r) ==
  /\ verdict[r.id] # None /\ verdict[r.id].req # r
  /\ Tell([req |-> r, code |-> "COMMAND_ID_REUSED", seq |-> 0])

\* No verdict, and the log has moved past the request for good.
TellOvertaken(r) ==
  /\ verdict[r.id] = None
  /\ head # None /\ head > r.expected
  /\ Tell([req |-> r, code |-> "STALE_SEQUENCE", seq |-> 0])

\* No verdict yet; the client may try again.
TellBusy(r) ==
  /\ verdict[r.id] = None
  /\ Tell([req |-> r, code |-> "NORMAL_MUTATION_LEASE_ACTIVE", seq |-> 0])

Next ==
  \/ Open
  \/ \E r \in Requests :
       \/ Accept(r) \/ TellVerdict(r) \/ TellReused(r) \/ TellOvertaken(r) \/ TellBusy(r)
       \/ \E code \in Permanent : Refuse(r, code)

Spec == Init /\ [][Next]_vars

=============================================================================
