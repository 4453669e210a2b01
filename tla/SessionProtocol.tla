-------------------------- MODULE SessionProtocol --------------------------
(***************************************************************************)
(* Two kin nodes run one session over transport/v11.py: the owner's        *)
(* commands, the agent turns of session/orchestrator.py, direct HTTP       *)
(* delivery to the peer's /v1.1/sessions handler, the relay fallback, the  *)
(* durable outbound queue and the background loop of node/app.py that      *)
(* retries the queue and polls the relay.                                  *)
(*                                                                         *)
(* A POST to the peer takes several steps: the caller commits its own copy *)
(* of the envelope, the peer's handler ingests it, the caller acts on the  *)
(* reply.  Requests and replies may be lost (the httpx.RequestError paths),*)
(* processes may crash between any two steps, and the callers of a node    *)
(* run at once: an owner command ("fg"), an agent turn ("turn") and the    *)
(* background loop ("bg").  One ingest_envelope is one step here;          *)
(* IngestRace takes it apart.                                              *)
(***************************************************************************)
EXTENDS SessionStore

CONSTANTS Roster,          \* the agents of each owner
          Ops,             \* the owner and agent operations in this instance
          TurnKinds,       \* the kinds of message an agent turn may produce
          Bodies,          \* what an agent message may say
          MaxSequence,     \* bound on the messages of one owner
          MaxMail,         \* bound on the envelopes in one mailbox
          MaxApprovals,    \* bound on undecided approvals of one owner
          CrashingThreads, \* the threads that may crash
          OtherBudgets     \* the session also has runtime, artifact or cost
                           \* budgets (they may run out before any turn)

ASSUME RosterAssumption == Roster \in [Users -> SUBSET Agents]
ASSUME TurnKindsAssumption ==
  TurnKinds \subseteq {"PROPOSAL", "COUNTERPROPOSAL", "FINDING", "QUESTION",
                       "ANSWER", "PLAN", "APPROVAL_REQUEST", "FINAL_RESULT"}
ASSUME BoundsAssumption ==
  /\ MaxSequence \in Nat \ {0} /\ MaxMail \in Nat /\ MaxApprovals \in Nat
  /\ OtherBudgets \in BOOLEAN

VARIABLES sess,     \* each node's stored session
          due,      \* the session's expires_at has passed on the node's clock
          queue,    \* outbound_envelope_queue: rows env, state
          pending,  \* undecided approvals
          mailbox,  \* the relay's mailbox of each user, oldest first
          call      \* what each thread of a node is in the middle of

vars == <<sess, due, queue, pending, mailbox, call>>

Threads == {"fg", "turn", "bg"}
Peer(n) == IF n = Initiator THEN Receiver ELSE Initiator

Idle == [op |-> "idle"]
Posting(op, e) == [op |-> op, env |-> e, phase |-> "post"]

(* A thread's call moves to another phase, or is over.                     *)
Becomes(n, t, c) == call' = [call EXCEPT ![n][t] = c]
Phase(n, t, p) == Becomes(n, t, [call[n][t] EXCEPT !.phase = p])
Finish(n, t) == Becomes(n, t, Idle)

SetSession(n, s) == sess' = [sess EXCEPT ![n] = s]
NodeCommand(n, target) == SetSession(n, ApplyNodeCommand(sess[n], target))
IngestAt(n, e) == IngestEnvelope(n, sess[n], due[n], e)

PendingRow(e) == [env |-> e, state |-> "pending"]

(* UNIQUE(session_id, sequence, recipient_username)                        *)
RowTaken(n, e) == \E row \in queue[n] : row.env.seq = e.seq

(* INSERT ... ON CONFLICT DO NOTHING                                       *)
Enqueue(n, e) ==
  queue' = [queue EXCEPT ![n] = IF RowTaken(n, e) THEN @
                                ELSE @ \cup {PendingRow(e)}]

SetRow(n, e, state) ==
  queue' = [queue EXCEPT ![n] = (@ \ {PendingRow(e)})
                                  \cup {[env |-> e, state |-> state]}]

Init ==
  /\ sess = [n \in Users |-> NoSession]
  /\ due = [n \in Users |-> FALSE]
  /\ queue = [n \in Users |-> {}]
  /\ pending = [n \in Users |-> 0]
  /\ mailbox = [n \in Users |-> << >>]
  /\ call = [n \in Users |-> [t \in Threads |-> Idle]]

-----------------------------------------------------------------------------
(* Owner commands                                                          *)

Exists(n) == sess[n].status # "none"
HasRoom(n) == LastSequence(sess[n].log, n) < MaxSequence

(* The agent id registered for the node's own owner.                       *)
OwnAgent(n) == ReconstructSessionState(sess[n]).agent[n]

(* dispatch_session, up to the POST.  The self-ingested TASK_REQUEST opens *)
(* the initiator's own row.                                                *)
Dispatch ==
  /\ "dispatch" \in Ops
  /\ ~Exists(Initiator)
  /\ call[Initiator]["fg"] = Idle
  /\ \E agent \in Roster[Initiator], requested \in Roster[Receiver] \cup {NoAgent} :
       LET e == NextEnvelope(Initiator, NoSession, agent, "TASK_REQUEST", requested)
       IN  /\ SetSession(Initiator, IngestAt(Initiator, e).sess)
           /\ Becomes(Initiator, "fg", Posting("dispatch", e))
  /\ UNCHANGED <<due, queue, pending, mailbox>>

(* Faulty variant: the refusal of the node's own ingest is ignored.        *)
SendUnchecked(n, op, agent, kind, body) ==
  LET e == NextEnvelope(n, sess[n], agent, kind, body) IN
  /\ Exists(n)
  /\ HasRoom(n)
  /\ call[n]["fg"] = Idle
  /\ SetSession(n, IngestAt(n, e).sess)
  /\ Becomes(n, "fg", Posting(op, e))
  /\ UNCHANGED <<due, queue, pending, mailbox>>

(* send_session_message, up to the POST: an envelope the node's own ingest *)
(* refuses is not sent (the caller sees TransportError).                   *)
SendSessionMessage(n, op, agent, kind, body) ==
  LET e == NextEnvelope(n, sess[n], agent, kind, body)
      r == IngestAt(n, e)
  IN  /\ Exists(n)
      /\ HasRoom(n)
      /\ call[n]["fg"] = Idle
      /\ SetSession(n, r.sess)
      /\ IF r.ok THEN Becomes(n, "fg", Posting(op, e)) ELSE UNCHANGED call
      /\ UNCHANGED <<due, queue, pending, mailbox>>

(* respond_to_session, by the invited owner.                               *)
Accept(agent) ==
  /\ "accept" \in Ops
  /\ SendSessionMessage(Receiver, "send", agent, "ACCEPTANCE", agent)

Decline(agent) ==
  /\ "decline" \in Ops
  /\ SendSessionMessage(Receiver, "send", agent, "DECLINE", "declined")

Clarify(agent) ==
  /\ "clarify" \in Ops
  /\ SendSessionMessage(Receiver, "send", agent, "CLARIFICATION", "clarify")

(* send_human_message_to_session_action: the message is sent under the     *)
(* owner's username.                                                       *)
HumanKind(n) ==
  IF sess[n].status \in {"peer_review", "needs_clarification"}
  THEN "CLARIFICATION" ELSE "QUESTION"

HumanMessage(n) ==
  /\ "human" \in Ops
  /\ SendSessionMessage(n, "send", n, HumanKind(n), "human")

(* tag_in_handoff: the change of agent is announced first; the node's own  *)
(* record of its agent changes when the announcement is on its way.        *)
TagIn(n, agent) ==
  /\ "tag_in" \in Ops
  /\ sess[n].agent[n] # agent
  /\ SendSessionMessage(n, "tag_in", OwnAgent(n), "PARTICIPANT_CHANGED", agent)

(* pause_session and resume_session: the status is committed, then a       *)
(* STATUS_EVENT is self-ingested; nothing is sent.                         *)
OwnerStatusEvent(n, action, target, body) ==
  LET s == [sess[n] EXCEPT !.status = target]
      e == NextEnvelope(n, s, OwnAgent(n), "STATUS_EVENT", body)
  IN  /\ Exists(n)
      /\ HasRoom(n)
      /\ OwnerCommandAllowed(sess[n].status, action)
      /\ SetSession(n, IngestEnvelope(n, s, due[n], e).sess)

Pause(n) ==
  /\ "pause" \in Ops
  /\ OwnerStatusEvent(n, "owner_pause", "paused", "owner_paused")
  /\ UNCHANGED <<due, queue, pending, mailbox, call>>

Resume(n) ==
  /\ "resume" \in Ops
  /\ OwnerStatusEvent(n, "owner_resume", "active", "owner_resumed")
  /\ UNCHANGED <<due, queue, pending, mailbox, call>>

(* cancel_session: a self-ingested CANCEL under the sender's agent id,     *)
(* whoever cancels; nothing is sent.                                       *)
CancelEnvelope(n) ==
  LET agent == sess[n].agent[Initiator] IN
  NextEnvelope(n, sess[n], agent, "CANCEL", "cancel")

(* Faulty variant: the status changes without a signed event.              *)
CancelUnsigned(n) ==
  /\ "cancel" \in Ops
  /\ Exists(n)
  /\ OwnerCommandAllowed(sess[n].status, "owner_cancel")
  /\ SetSession(n, [sess[n] EXCEPT !.status = "cancelled"])
  /\ UNCHANGED <<due, queue, pending, mailbox, call>>

Cancel(n) ==
  /\ "cancel" \in Ops
  /\ Exists(n)
  /\ HasRoom(n)
  /\ SetSession(n, IngestAt(n, CancelEnvelope(n)).sess)
  /\ UNCHANGED <<due, queue, pending, mailbox, call>>

(* decide_approval: the owner's decision on an undecided approval moves    *)
(* the session and settles the approval.                                   *)
DecideApproval(n, decision) ==
  /\ pending[n] > 0
  /\ OwnerCommandAllowed(sess[n].status, decision)
  /\ SetSession(n, [sess[n] EXCEPT !.status = OwnerCommandTarget[decision]])
  /\ pending' = [pending EXCEPT ![n] = @ - 1]
  /\ UNCHANGED <<due, queue, mailbox, call>>

-----------------------------------------------------------------------------
(* Agent turns: advance_session_turn                                       *)

(* A turn is refused in these statuses, and without a registered agent.    *)
TurnRefused(n) ==
  \/ sess[n].status \in TerminalStates \cup {"awaiting_owner_approval", "paused"}
  \/ OwnAgent(n) \notin Roster[n]

TurnsUsedUp(n) == CurrentTurn(sess[n].log) >= MaxTurns

(* A budget is used up: the session pauses.                                *)
TurnExhausted(n) ==
  /\ "turn" \in Ops
  /\ Exists(n) /\ ~TurnRefused(n)
  /\ TurnsUsedUp(n) \/ OtherBudgets
  /\ call[n]["turn"] = Idle
  /\ OwnerStatusEvent(n, "owner_pause", "paused", "owner_paused")
  /\ UNCHANGED <<due, queue, pending, mailbox, call>>

(* The adapter is called under the agent registered at this moment.        *)
TurnInvoke(n) ==
  /\ "turn" \in Ops
  /\ Exists(n) /\ ~TurnRefused(n) /\ ~TurnsUsedUp(n)
  /\ HasRoom(n)
  /\ call[n]["turn"] = Idle
  /\ Becomes(n, "turn", [op |-> "turn", agent |-> OwnAgent(n)])
  /\ UNCHANGED <<sess, due, queue, pending, mailbox>>

Invoked(n) == call[n]["turn"].op = "turn" /\ Finish(n, "turn")

(* A retryable error, or no message.                                       *)
TurnWithoutMessage(n) ==
  /\ Invoked(n)
  /\ UNCHANGED <<sess, due, queue, pending, mailbox>>

(* A hard error, an output the validator rejects, a denied message or an   *)
(* oversized artifact.                                                     *)
TurnFails(n) ==
  /\ Invoked(n)
  /\ NodeCommand(n, "failed")
  /\ UNCHANGED <<due, queue, pending, mailbox>>

TurnNeedsApproval(n) ==
  /\ Invoked(n)
  /\ pending[n] < MaxApprovals
  /\ pending' = [pending EXCEPT ![n] = @ + 1]
  /\ NodeCommand(n, "awaiting_owner_approval")
  /\ UNCHANGED <<due, queue, mailbox>>

(* The message is self-ingested and queued for the peer, whatever its own  *)
(* ingest said; a row already there for its sequence is an IntegrityError. *)
TurnMessage(n, kind, body) ==
  LET e == NextEnvelope(n, sess[n], call[n]["turn"].agent, kind, body) IN
  /\ Invoked(n)
  /\ HasRoom(n)
  /\ SetSession(n, IngestAt(n, e).sess)
  /\ Enqueue(n, e)
  /\ UNCHANGED <<due, pending, mailbox>>

-----------------------------------------------------------------------------
(* Direct delivery                                                         *)

Calling(n, t, p) == call[n][t].op \notin {"idle", "turn", "poll"} /\ call[n][t].phase = p

(* The peer's process_v11_session_envelope answers; a rejection is a 4xx.  *)
PostHandled(n, t) ==
  LET r == IngestAt(Peer(n), call[n][t].env) IN
  /\ Calling(n, t, "post")
  /\ SetSession(Peer(n), r.sess)
  /\ Phase(n, t, IF r.ok THEN "ok" ELSE "rejected")
  /\ UNCHANGED <<due, queue, pending, mailbox>>

(* A lost reply, like a lost request, is an httpx.RequestError to the      *)
(* caller, which turns to the relay.                                       *)
PostReplyLost(n, t) ==
  /\ Calling(n, t, "post")
  /\ SetSession(Peer(n), IngestAt(Peer(n), call[n][t].env).sess)
  /\ Phase(n, t, "relay")
  /\ UNCHANGED <<due, queue, pending, mailbox>>

PostUnreachable(n, t) ==
  /\ Calling(n, t, "post")
  /\ Phase(n, t, "relay")
  /\ UNCHANGED <<sess, due, queue, pending, mailbox>>

(* tag_in_handoff's last statement, whichever way the announcement went.   *)
AfterSend(n, c) ==
  IF c.op = "tag_in"
  THEN SetSession(n, [sess[n] EXCEPT !.agent[n] = c.env.body])
  ELSE UNCHANGED sess

(* The caller learns that the peer has processed the envelope.             *)
PostAccepted(n, t) ==
  LET c == call[n][t] IN
  /\ Calling(n, t, "ok")
  /\ Finish(n, t)
  /\ CASE c.op = "dispatch" -> NodeCommand(n, "delivered") /\ UNCHANGED queue
       [] c.op = "retry" -> /\ NodeCommand(n, "delivered")
                            /\ SetRow(n, c.env, "delivered")
       [] OTHER -> AfterSend(n, c) /\ UNCHANGED queue
  /\ UNCHANGED <<due, pending, mailbox>>

(* A 4xx ends a dispatch and a retry, and with them the session; a plain   *)
(* send goes on to the relay.                                              *)
PostRejected(n, t) ==
  LET c == call[n][t] IN
  /\ Calling(n, t, "rejected")
  /\ CASE c.op = "dispatch" -> /\ NodeCommand(n, "failed")
                               /\ Finish(n, t) /\ UNCHANGED queue
       [] c.op = "retry" -> /\ NodeCommand(n, "failed")
                            /\ SetRow(n, c.env, "failed")
                            /\ Finish(n, t)
       [] OTHER -> Phase(n, t, "relay") /\ UNCHANGED <<sess, queue>>
  /\ UNCHANGED <<due, pending, mailbox>>

-----------------------------------------------------------------------------
(* The relay and the outbound queue                                        *)

Deposit(n, e) ==
  /\ Len(mailbox[Peer(n)]) < MaxMail
  /\ mailbox' = [mailbox EXCEPT ![Peer(n)] = Append(@, e)]

(* Faulty variant: a relay upload counts as delivery.                      *)
RelayAcceptedAsDelivered(n, t) ==
  /\ Calling(n, t, "relay")
  /\ Deposit(n, call[n][t].env)
  /\ Finish(n, t)
  /\ NodeCommand(n, "delivered")
  /\ UNCHANGED <<due, queue, pending>>

(* The relay confirms that it holds the envelope.                          *)
RelayAccepted(n, t) ==
  LET c == call[n][t] IN
  /\ Calling(n, t, "relay")
  /\ Deposit(n, c.env)
  /\ Finish(n, t)
  /\ CASE c.op = "dispatch" -> NodeCommand(n, "queued") /\ UNCHANGED queue
       [] c.op = "retry" -> SetRow(n, c.env, "relayed") /\ UNCHANGED sess
       [] OTHER -> AfterSend(n, c) /\ UNCHANGED queue
  /\ UNCHANGED <<due, pending>>

(* Faulty variant: an envelope neither path took is not queued.            *)
RelayUnavailableDropped(n, t) ==
  /\ Calling(n, t, "relay")
  /\ Finish(n, t)
  /\ UNCHANGED <<sess, due, queue, pending, mailbox>>

(* No relay, or no confirmation from it (it may hold the envelope all the  *)
(* same): the envelope waits in the queue, where a retried one stays.      *)
RelayUnavailable(n, t) ==
  LET c == call[n][t] IN
  /\ Calling(n, t, "relay")
  /\ Deposit(n, c.env) \/ UNCHANGED mailbox
  /\ Finish(n, t)
  /\ IF c.op = "retry" THEN UNCHANGED queue ELSE Enqueue(n, c.env)
  /\ AfterSend(n, c)
  /\ UNCHANGED <<due, pending>>

(* retry_outbound_queue, one row: the backoff (next_retry_at) decides      *)
(* which pending rows are due, in any order.                               *)
RetryRow(n, row) ==
  /\ call[n]["bg"] = Idle
  /\ row.state = "pending"
  /\ CASE sess[n].status \in TerminalStates ->
            SetRow(n, row.env, "abandoned") /\ UNCHANGED <<sess, call>>
       [] sess[n].status \notin TerminalStates /\ due[n] ->
            /\ SetRow(n, row.env, "expired")
            /\ NodeCommand(n, "expired")
            /\ UNCHANGED call
       [] OTHER -> /\ Becomes(n, "bg", Posting("retry", row.env))
                   /\ UNCHANGED <<sess, queue>>
  /\ UNCHANGED <<due, pending, mailbox>>

(* poll_relay_and_process: the inbox is fetched once and gone through in   *)
(* order; what is ingested is acknowledged to the relay, which deletes it  *)
(* (unless the acknowledgement is lost); what is refused stays.            *)
PollFetch(n) ==
  /\ call[n]["bg"] = Idle
  /\ mailbox[n] # << >>
  /\ Becomes(n, "bg", [op |-> "poll", pos |-> 1, left |-> Len(mailbox[n])])
  /\ UNCHANGED <<sess, due, queue, pending, mailbox>>

Polled(n, removed) ==
  LET c == call[n]["bg"] IN
  IF c.left = 1 THEN Finish(n, "bg")
  ELSE Becomes(n, "bg", [op |-> "poll", left |-> c.left - 1,
                         pos |-> IF removed THEN c.pos ELSE c.pos + 1])

PollMessage(n) ==
  LET pos == call[n]["bg"].pos
      r == IngestAt(n, mailbox[n][pos])
  IN  /\ call[n]["bg"].op = "poll"
      /\ SetSession(n, r.sess)
      /\ \/ /\ r.ok
            /\ mailbox' = [mailbox EXCEPT ![n] = RemoveAt(@, pos)]
            /\ Polled(n, TRUE)
         \/ Polled(n, FALSE) /\ UNCHANGED mailbox
      /\ UNCHANGED <<due, queue, pending>>

(* The relay drops mail after seven days: not before the session of its    *)
(* sender, created earlier with the same lifetime, is due.                 *)
RelayExpiry(n) ==
  /\ due[Peer(n)]
  /\ call[n]["bg"].op # "poll"
  /\ \E pos \in DOMAIN mailbox[n] :
       mailbox' = [mailbox EXCEPT ![n] = RemoveAt(@, pos)]
  /\ UNCHANGED <<sess, due, queue, pending, call>>

-----------------------------------------------------------------------------
(* The environment                                                         *)

Deadline(n) ==
  /\ "expire" \in Ops
  /\ Exists(n) /\ ~due[n]
  /\ due' = [due EXCEPT ![n] = TRUE]
  /\ UNCHANGED <<sess, queue, pending, mailbox, call>>

Crash(n, t) ==
  /\ t \in CrashingThreads
  /\ call[n][t] # Idle
  /\ Finish(n, t)
  /\ UNCHANGED <<sess, due, queue, pending, mailbox>>

Commands(n) ==
  \/ HumanMessage(n)
  \/ \E agent \in Roster[n] : TagIn(n, agent)
  \/ Pause(n) \/ Resume(n) \/ Cancel(n)
  \/ \E decision \in {"approve", "deny"} : DecideApproval(n, decision)

Responses ==
  \/ \E agent \in Roster[Receiver] : Accept(agent)
  \/ \E agent \in Roster[Receiver] \cup {Receiver} : Decline(agent) \/ Clarify(agent)

Turns(n) ==
  \/ TurnExhausted(n) \/ TurnInvoke(n) \/ TurnWithoutMessage(n)
  \/ TurnFails(n) \/ TurnNeedsApproval(n)
  \/ \E kind \in TurnKinds, body \in Bodies : TurnMessage(n, kind, body)

Delivery(n, t) ==
  \/ PostHandled(n, t) \/ PostReplyLost(n, t) \/ PostUnreachable(n, t)
  \/ PostAccepted(n, t) \/ PostRejected(n, t)
  \/ RelayAccepted(n, t) \/ RelayUnavailable(n, t)

Background(n) ==
  \/ \E row \in queue[n] : RetryRow(n, row)
  \/ PollFetch(n) \/ PollMessage(n)

Next ==
  \/ Dispatch
  \/ Responses
  \/ \E n \in Users :
       \/ Commands(n) \/ Turns(n) \/ Background(n)
       \/ \E t \in Threads : Delivery(n, t) \/ Crash(n, t)
       \/ RelayExpiry(n) \/ Deadline(n)

Spec == Init /\ [][Next]_vars

-----------------------------------------------------------------------------
(* Every variable keeps its shape: stored sessions, queue rows, mail and   *)
(* thread states of transport/v11.py and session/orchestrator.py.          *)
Envelopes ==
  [actor : Users, agent : AgentIds, seq : 1 .. MaxSequence, kind : Kinds,
   body : Bodies \cup AgentIds \cup {NoAgent} \cup
     {"declined", "clarify", "human", "owner_paused", "owner_resumed", "cancel"}]

Sessions ==
  [status : Statuses \cup {"none"},
   agent : [Users -> AgentIds \cup {NoAgent}],
   log : Seq(Envelopes)]

CallStates ==
  {Idle}
  \cup [op : {"dispatch", "send", "tag_in", "retry"}, env : Envelopes,
        phase : {"post", "ok", "rejected", "relay"}]
  \cup [op : {"turn"}, agent : AgentIds]
  \cup [op : {"poll"}, pos : Nat \ {0}, left : Nat \ {0}]

TypeOK ==
  /\ sess \in [Users -> Sessions]
  /\ due \in [Users -> BOOLEAN]
  /\ queue \in [Users -> SUBSET [env : Envelopes,
        state : {"pending", "delivered", "relayed", "failed", "abandoned", "expired"}]]
  /\ pending \in [Users -> 0 .. MaxApprovals]
  /\ mailbox \in [Users -> Seq(Envelopes)]
  /\ call \in [Users -> [Threads -> CallStates]]

-----------------------------------------------------------------------------
(* Safety                                                                  *)

(* Terminal states are immutable (transition_matrix.TERMINAL_STATES, the   *)
(* first check of process_peer_envelope): no late reply, retry, poll,      *)
(* owner command or agent turn moves a finished session or adds to its     *)
(* transcript.                                                             *)
TerminalImmutable ==
  [][\A n \in Users :
       sess[n].status \in TerminalStates =>
         sess'[n].status = sess[n].status /\ sess'[n].log = sess[n].log]_vars

(* Each owner's events are stored once each, in the order they were        *)
(* numbered and without a gap, however the deliveries were repeated or     *)
(* reordered (check_sequence_conflict and the OUT_OF_ORDER check): an      *)
(* event's number is one more than the last of its actor before it.        *)
LogContiguous ==
  \A n \in Users : \A i \in DOMAIN sess[n].log :
    LET e == sess[n].log[i] IN
    e.seq = LastSequence(SubSeq(sess[n].log, 1, i - 1), e.actor) + 1

(* What a node has stored of its peer is what the peer stored of itself    *)
(* (symmetric self-processing in send_session_message).                    *)
SentBy(u, log) == SelectSeq(log, LAMBDA e : e.actor = u)

PeerPrefix ==
  \A n \in Users :
    IsPrefix(SentBy(n, sess[Peer(n)].log), SentBy(n, sess[n].log))

(* An envelope its node has committed never vanishes while both sides are  *)
(* open and not past their lifetime: the peer has it, a call, the queue or *)
(* the relay still holds it, or the queue records that the peer refused it *)
(* (the Direct -> Relay -> Local Queue fallback and its retries).  It does *)
(* not hold of the STATUS_EVENTs of pause_session and resume_session, whose *)
(* docstring (transport/v11.py:1376) says "Pause local participation and    *)
(* transmit a STATUS_EVENT to peer.": they are numbered and never sent.     *)
Closed == \E n \in Users : due[n] \/ sess[n].status \in TerminalStates

Has(log, e) == \E i \in DOMAIN log : log[i] = e

InFlight(n, e) ==
  \/ \E t \in Threads : call[n][t].op \in {"dispatch", "send", "tag_in", "retry"}
                       /\ call[n][t].env = e
  \/ PendingRow(e) \in queue[n]
  \/ Has(mailbox[Peer(n)], e)

Custody ==
  Closed \/ \A n \in Users : \A i \in DOMAIN sess[n].log :
    LET e == sess[n].log[i] IN
    e.actor = n => \/ Has(sess[Peer(n)].log, e)
                   \/ InFlight(n, e)
                   \/ [env |-> e, state |-> "failed"] \in queue[n]

(* KIN-V1.1-MASTER-SPEC.md:534: "Relay unavailable: preserve locally       *)
(* queued outbound envelope and report retry state."  No queued envelope   *)
(* is given up while its addressee is open and the lifetime has not run    *)
(* out.                                                                    *)
QueuePreserved ==
  \A n \in Users : \A row \in queue[n] :
    row.state \in {"failed", "abandoned"} =>
      \/ \E u \in Users : due[u]
      \/ sess[Peer(n)].status \in TerminalStates

(* "Delivered" is a processing acknowledgement, never a relay upload: a    *)
(* delivered row or a delivered invitation is in the peer's transcript.    *)
DeliveredIsProcessed ==
  /\ \A n \in Users : \A row \in queue[n] :
       row.state = "delivered" => Has(sess[Peer(n)].log, row.env)
  /\ sess[Initiator].status = "delivered" => sess[Receiver].log # << >>

(* No session is accepted or under way on either node before the invited   *)
(* owner's node has recorded that owner's acceptance (the ACCEPTANCE row   *)
(* of PEER_KIND_TRANSITION_MAP, the settling at the end of                 *)
(* ingest_envelope).                                                       *)
UnderWay == {"accepted", "active", "awaiting_owner_approval", "awaiting_peer",
             "paused", "completed"}

NeverSilentlyActivated ==
  \A n \in Users : sess[n].status \in UnderWay =>
    \E i \in DOMAIN sess[Receiver].log :
      /\ sess[Receiver].log[i].actor = Receiver
      /\ sess[Receiver].log[i].kind = "ACCEPTANCE"

(* Neither node's transcript ever exceeds the turn limit                   *)
(* (TURN_LIMIT_EXCEEDED in process_peer_envelope).                         *)
TurnBound == \A n \in Users : CurrentTurn(sess[n].log) <= MaxTurns

(* How a session ended is on record: completed, declined and cancelled     *)
(* sessions end in the signed FINAL_RESULT, DECLINE or CANCEL that ended   *)
(* them, on each node by itself.                                           *)
Outcome == [completed |-> "FINAL_RESULT", declined |-> "DECLINE",
            cancelled |-> "CANCEL"]

OutcomeSigned ==
  \A n \in Users : sess[n].status \in DOMAIN Outcome =>
    /\ sess[n].log # << >>
    /\ Last(sess[n].log).kind = Outcome[sess[n].status]

(* KIN-V1.1-MASTER-SPEC.md:486: "Pause / resume | Stop without losing      *)
(* context | Resume requires an owner action": a paused session becomes    *)
(* active only by its owner's resume or approval.                          *)
ResumeNeedsOwner ==
  [][\A n \in Users :
       sess[n].status = "paused" /\ sess'[n].status = "active" =>
         Resume(n) \/ DecideApproval(n, "approve")]_vars

-----------------------------------------------------------------------------
(* Liveness                                                                *)

(* Every HTTP call returns or times out; the background loop runs every    *)
(* five seconds and takes up each due row and the inbox again and again;   *)
(* of infinitely many attempts to reach the peer or to go through the      *)
(* inbox, one is not cut short.                                            *)
Fairness ==
  \A n \in Users :
    /\ \A t \in {"fg", "bg"} : WF_vars(Delivery(n, t))
    /\ \A k \in 1 .. MaxSequence :
         SF_vars(\E row \in queue[n] : row.env.seq = k /\ RetryRow(n, row))
    /\ SF_vars(PostHandled(n, "bg"))
    /\ SF_vars(PollFetch(n))
    /\ SF_vars(PollMessage(n))

FairSpec == Spec /\ Fairness

(* The invitation reaches the invited owner's node, and the answer the     *)
(* initiator's, unless a side finishes or falls due first: unreachable     *)
(* peers, relay outages, lost replies and crashes of the background loop   *)
(* only delay them (retry_outbound_queue, poll_relay_and_process).         *)
FirstMessageArrives ==
  \A n \in Users :
    (LastSequence(sess[n].log, n) >= 1) ~>
      (LastSequence(sess[Peer(n)].log, n) >= 1 \/ Closed)
=============================================================================
