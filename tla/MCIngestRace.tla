---------------------------- MODULE MCIngestRace ----------------------------
(* Instances of IngestRace for TLC: bob's node, in a session bob has been  *)
(* invited to or has accepted.                                             *)
EXTENDS IngestRace

CONSTANTS alice, bob, a1, b1, w1, w2

MCAgents == {a1, b1}

Message(u, agent, seq, kind, body) ==
  [actor |-> u, agent |-> agent, seq |-> seq, kind |-> kind, body |-> body]

Invitation == Message(alice, a1, 1, "TASK_REQUEST", b1)
Acceptance == Message(bob, b1, 1, "ACCEPTANCE", b1)

Agreed == [u \in {alice, bob} |-> IF u = alice THEN a1 ELSE b1]

Invited == [status |-> "peer_review", agent |-> Agreed, log |-> <<Invitation>>]
Accepted == [status |-> "active", agent |-> Agreed, log |-> <<Invitation, Acceptance>>]

MCOpenings == {Invited, Accepted}

Questions == {Message(alice, a1, 2, "QUESTION", "q2"), Message(alice, a1, 3, "QUESTION", "q3")}
OwnMessages == {[agent |-> b1, kind |-> "ANSWER", body |-> "m"],
                [agent |-> b1, kind |-> "CANCEL", body |-> "cancel"],
                [agent |-> b1, kind |-> "ACCEPTANCE", body |-> b1]}
=============================================================================
