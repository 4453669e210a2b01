---------------------------- MODULE SessionStore ----------------------------
(***************************************************************************)
(* What one node stores about a session, and the operations of             *)
(* transport/v11.py and audit/writer.py on it, as functions from a stored  *)
(* session to the next one.                                                *)
(*                                                                         *)
(* A stored session is a record                                            *)
(*   status  sessions.status, or "none" while there is no row              *)
(*   agent   sender_agent_id / receiver_agent_id, by user (NoAgent: NULL)  *)
(*   log     session_events that carry a sequence, in event_order          *)
(***************************************************************************)
EXTENDS SessionReducer, Sequences, FiniteSetsExt, SequencesExt

CONSTANTS Initiator, Receiver,   \* the two owners (usernames)
          Agents,                \* agent ids of both rosters
          NoAgent,               \* no agent requested (NULL)
          MaxTurns               \* turn_limit, the same at both nodes

Users == {Initiator, Receiver}
AgentIds == Agents \cup Users     \* owner usernames double as agent ids

ASSUME UsersAssumption == Initiator # Receiver
ASSUME AgentsAssumption == NoAgent \notin AgentIds
ASSUME MaxTurnsAssumption == MaxTurns \in 1 .. 12

NoSession == [status |-> "none", agent |-> [u \in Users |-> NoAgent],
              log |-> << >>]

EventsOf(log, u) == {i \in DOMAIN log : log[i].actor = u}

(* COALESCE(MAX(sequence), 0) over the events of one actor.                *)
LastSequence(log, u) == Max({log[i].seq : i \in EventsOf(log, u)} \cup {0})

CurrentTurn(log) ==
  Cardinality({i \in DOMAIN log : log[i].kind \in TurnConsumingKinds})

ReconstructSessionState(s) ==
  [status |-> s.status,
   turn |-> CurrentTurn(s.log),
   limit |-> MaxTurns,
   seqs |-> [u \in Users |-> LastSequence(s.log, u)],
   agent |-> [u \in Users |-> IF s.agent[u] = NoAgent THEN u ELSE s.agent[u]],
   receiver |-> Receiver]

SameSlot(log, e) == {i \in EventsOf(log, e.actor) : log[i].seq = e.seq}

CheckSequenceConflict(log, e) ==
  IF SameSlot(log, e) = {} THEN "new"
  ELSE IF log[Min(SameSlot(log, e))].body = e.body THEN "duplicate"
  ELSE "conflict"

ApplyNodeCommand(s, target) ==
  [s EXCEPT !.status = ProcessNodeCommand(@, target)]

(* The row INSERTed for a first TASK_REQUEST, whose body is the requested  *)
(* agent; an existing row past its expires_at is marked expired instead.   *)
OpenSession(s, due, e) ==
  IF s.status = "none"
  THEN [status |-> "draft", log |-> << >>,
        agent |-> [u \in Users |-> IF u = Initiator THEN e.agent ELSE e.body]]
  ELSE IF due /\ s.status \notin TerminalStates
       THEN ApplyNodeCommand(s, "expired")
       ELSE s

(* verify_and_build_envelope: a known agent id must match, except that an  *)
(* acceptance names the receiver's agent afresh.                           *)
Verified(s, e) ==
  \/ s.agent[e.actor] \in {NoAgent, e.agent}
  \/ e.actor = Receiver /\ e.kind = "ACCEPTANCE"

(* A response to an invitation still queued or delivered counts as made    *)
(* under review.                                                           *)
UnderReview(st, e) ==
  IF /\ st.status \in {"queued", "delivered"}
     /\ e.kind \in {"ACCEPTANCE", "DECLINE", "CLARIFICATION"}
  THEN [st EXCEPT !.status = "peer_review"]
  ELSE st

(* Faulty variant: an invitation starts the session by itself.             *)
SettledActive(me, status, e) ==
  IF status = "sent" /\ e.actor # me THEN "active" ELSE status

(* The status the node finally stores: it acknowledges for itself what the *)
(* peer sent.                                                              *)
SettledStatus(me, status, e) ==
  CASE status = "sent" /\ e.actor # me ->
         IF e.kind = "TASK_REQUEST" THEN "peer_review" ELSE "delivered"
    [] status = "accepted" /\ e.actor # me -> "active"
    [] OTHER -> status

StoreEnvelope(me, s, e) ==
  LET st == ProcessPeerEnvelope(UnderReview(ReconstructSessionState(s), e), e)
  IN  [status |-> SettledStatus(me, st.status, e),
       agent |-> IF e.kind = "ACCEPTANCE"
                 THEN [s.agent EXCEPT ![Receiver] = e.body] ELSE s.agent,
       log |-> Append(s.log, e)]

(* ingest_envelope, for the node's own envelopes and for the peer's: the   *)
(* stored session afterwards and whether it is acknowledged "delivered".   *)
(* A repeated envelope is acknowledged again but not stored again; every   *)
(* other refusal leaves what opening the session did (a draft row, an      *)
(* expiry).                                                                *)
IngestEnvelope(me, s, due, e) ==
  LET o == OpenSession(s, due, e)
      slot == CheckSequenceConflict(o.log, e)
      accepted == /\ Verified(o, e)
                  /\ slot = "new"
                  /\ PeerEnvelopeAdmitted(
                       UnderReview(ReconstructSessionState(o), e), e)
  IN  IF s.status = "none" /\ e.kind # "TASK_REQUEST"
      THEN [ok |-> FALSE, sess |-> s]
      ELSE [ok |-> accepted \/ (Verified(o, e) /\ slot = "duplicate"),
            sess |-> IF accepted THEN StoreEnvelope(me, o, e) ELSE o]

(* Faulty variant: the last number is used again.                          *)
RepeatedEnvelope(me, s, agent, kind, body) ==
  [actor |-> me, agent |-> agent, seq |-> LastSequence(s.log, me),
   kind |-> kind, body |-> body]

(* The envelope a node builds for its next own message.                    *)
NextEnvelope(me, s, agent, kind, body) ==
  [actor |-> me, agent |-> agent, seq |-> LastSequence(s.log, me) + 1,
   kind |-> kind, body |-> body]
=============================================================================
