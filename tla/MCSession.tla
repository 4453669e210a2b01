----------------------------- MODULE MCSession -----------------------------
(* Instances of SessionProtocol for TLC.                                   *)
EXTENDS SessionProtocol

CONSTANTS alice, bob, a1, a2, b1

MCAgents == {a1, a2, b1}
MCRoster == [u \in {alice, bob} |-> IF u = alice THEN {a1, a2} ELSE {b1}]
MCRosterOne == [u \in {alice, bob} |-> IF u = alice THEN {a1} ELSE {b1}]

(* A session the invited owner has just accepted, everything delivered.    *)
AcceptedLog ==
  << [actor |-> alice, agent |-> a1, seq |-> 1, kind |-> "TASK_REQUEST", body |-> b1],
     [actor |-> bob, agent |-> b1, seq |-> 1, kind |-> "ACCEPTANCE", body |-> b1] >>

AcceptedSession(status) ==
  [status |-> status, log |-> AcceptedLog,
   agent |-> [u \in Users |-> IF u = alice THEN a1 ELSE b1]]

AcceptedInit ==
  /\ sess = [n \in Users |-> AcceptedSession(IF n = alice THEN "active" ELSE "accepted")]
  /\ due = [n \in Users |-> FALSE]
  /\ queue = [n \in Users |-> {}]
  /\ pending = [n \in Users |-> 0]
  /\ mailbox = [n \in Users |-> << >>]
  /\ call = [n \in Users |-> [t \in Threads |-> Idle]]

AcceptedSpec == AcceptedInit /\ [][Next]_vars
=============================================================================
