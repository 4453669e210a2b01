--------------------------- MODULE SessionReducer ---------------------------
(***************************************************************************)
(* The pure session state machine of kin-node: the transition matrix       *)
(* (session/transition_matrix.py) and the reducer that judges signed       *)
(* envelopes, node commands and owner commands (session/reducer.py).       *)
(*                                                                         *)
(* A session state is a record                                             *)
(*   status  one of Statuses            turn   turn-consuming events so far *)
(*   limit   max_turns                  seqs   last sequence of each user   *)
(*   agent   the agent id registered for each user                         *)
(*   receiver  the invited user                                            *)
(* An envelope is a record actor, agent, seq, kind, body; body stands for  *)
(* the payload (equal bodies are payloads with equal content hashes).      *)
(* Signatures and content hashes of envelopes are valid: they are made by  *)
(* the nodes themselves.  last_resumable_status is left out: it is never   *)
(* persisted and no guard reads it.                                        *)
(***************************************************************************)
EXTENDS Naturals

TerminalStates == {"completed", "failed", "cancelled", "expired", "declined"}

ValidTransitions ==
  [draft       |-> {"sent", "cancelled", "expired"},
   sent        |-> {"queued", "delivered", "accepted", "failed", "expired"},
   queued      |-> {"delivered", "accepted", "failed", "expired"},
   delivered   |-> {"peer_review", "accepted", "failed", "expired"},
   peer_review |-> {"accepted", "declined", "needs_clarification",
                    "cancelled", "expired"},
   needs_clarification |-> {"peer_review", "cancelled", "failed", "expired"},
   accepted    |-> {"active", "cancelled", "expired"},
   active      |-> {"awaiting_owner_approval", "awaiting_peer", "paused",
                    "completed", "failed", "cancelled", "expired"},
   awaiting_owner_approval |->
                   {"active", "paused", "failed", "cancelled", "expired"},
   awaiting_peer |-> {"active", "paused", "failed", "cancelled", "expired"},
   paused      |-> {"active", "cancelled", "failed", "expired"},
   completed   |-> {},
   failed      |-> {},
   cancelled   |-> {},
   expired     |-> {},
   declined    |-> {}]

Statuses == DOMAIN ValidTransitions

IsValidTransition(from, to) == to \in ValidTransitions[from]

(* The status each kind of envelope asks for; "keep" leaves the status.    *)
PeerKindTransition ==
  [TASK_REQUEST |-> "sent",          ACCEPTANCE |-> "accepted",
   DECLINE |-> "declined",           CLARIFICATION |-> "needs_clarification",
   PROPOSAL |-> "active",            COUNTERPROPOSAL |-> "active",
   FINDING |-> "active",             QUESTION |-> "active",
   ANSWER |-> "active",              ARTIFACT_OFFER |-> "active",
   ARTIFACT_ACCEPT |-> "active",     PLAN |-> "active",
   APPROVAL_REQUEST |-> "awaiting_owner_approval",
   FINAL_RESULT |-> "completed",     CANCEL |-> "cancelled",
   STATUS_EVENT |-> "keep",          PARTICIPANT_CHANGED |-> "keep",
   APPROVAL_DECISION |-> "keep"]

Kinds == DOMAIN PeerKindTransition

TurnConsumingKinds ==
  {"TASK_REQUEST", "PROPOSAL", "COUNTERPROPOSAL", "FINDING", "QUESTION",
   "ANSWER", "ARTIFACT_OFFER", "ARTIFACT_ACCEPT"}

TargetStatus(st, kind) ==
  IF PeerKindTransition[kind] = "keep" THEN st.status
                                       ELSE PeerKindTransition[kind]

(* The invited user may accept under another agent, and straight from any  *)
(* status before acceptance.                                               *)
IsUnacceptedReceiverAccept(st, e) ==
  /\ e.kind = "ACCEPTANCE"
  /\ e.actor = st.receiver
  /\ st.status \in {"draft", "sent", "queued", "delivered", "peer_review"}

(* Faulty variants of the reducer's checks, for mutation testing: any      *)
(* sequence number passes; one turn too many passes.                       *)
PeerEnvelopeUnordered(st, e) ==
  /\ st.status \notin TerminalStates
  /\ e.agent = st.agent[e.actor] \/ IsUnacceptedReceiverAccept(st, e)
  /\ \/ TargetStatus(st, e.kind) = st.status
     \/ IsValidTransition(st.status, TargetStatus(st, e.kind))
     \/ IsUnacceptedReceiverAccept(st, e)

PeerEnvelopeOverLimit(st, e) ==
  /\ PeerEnvelopeUnordered(st, e)
  /\ e.seq = st.seqs[e.actor] + 1
  /\ e.kind \in TurnConsumingKinds => st.turn <= st.limit

(* The checks of process_peer_envelope in their order.  The owner-only     *)
(* role check never fires: every participant of a stored session has role  *)
(* "owner".                                                                *)
PeerEnvelopeAdmitted(st, e) ==
  LET target == TargetStatus(st, e.kind) IN
  /\ st.status \notin TerminalStates
  /\ e.actor \in DOMAIN st.agent
  /\ e.agent = st.agent[e.actor] \/ IsUnacceptedReceiverAccept(st, e)
  /\ e.seq = st.seqs[e.actor] + 1
  /\ \/ target = st.status
     \/ IsValidTransition(st.status, target)
     \/ IsUnacceptedReceiverAccept(st, e)
  /\ e.kind \in TurnConsumingKinds =>
       st.turn < st.limit \/ target \in TerminalStates

ProcessPeerEnvelope(st, e) ==
  [st EXCEPT !.status = TargetStatus(st, e.kind),
             !.turn = IF e.kind \in TurnConsumingKinds THEN @ + 1 ELSE @,
             !.seqs[e.actor] = e.seq,
             !.agent[e.actor] = IF e.kind = "ACCEPTANCE" THEN e.body ELSE @]

(* Faulty variant: the matrix is not consulted.                            *)
NodeCommandUnchecked(status, target) == target

(* mark_queued, mark_delivered, ...: a node command names its target       *)
(* status; one the matrix forbids leaves the status alone.                 *)
ProcessNodeCommand(status, target) ==
  IF IsValidTransition(status, target) THEN target ELSE status

(* Faulty variant: a denied approval cancels the session.                  *)
DenialCancels ==
  [owner_pause |-> "paused", owner_resume |-> "active",
   owner_cancel |-> "cancelled", approve |-> "active", deny |-> "cancelled"]

OwnerCommandTarget ==
  [owner_pause |-> "paused", owner_resume |-> "active",
   owner_cancel |-> "cancelled", approve |-> "active", deny |-> "paused"]

OwnerCommandAllowed(status, action) ==
  /\ status \notin TerminalStates
  /\ \/ OwnerCommandTarget[action] = status
     \/ IsValidTransition(status, OwnerCommandTarget[action])
=============================================================================
