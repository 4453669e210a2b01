---------------------------- MODULE SessionProofs ----------------------------
(***************************************************************************)
(* Safety of SessionProtocol for every roster, turn limit and bound: IInv  *)
(* is inductive, and every step changes every stored session legally.      *)
(***************************************************************************)
EXTENDS SessionSteps

(* A leaf that names no prover is tried with SMT, then with Zenon.         *)
USE SMTT(20), ZenonT(20)

-----------------------------------------------------------------------------
(* IInv is inductive: one lemma for each action                            *)

(* Steps that change sessions only.                                        *)
LEMMA SessionOnly ==
  ASSUME IInv, SessStep, UNCHANGED <<due, queue, pending, mailbox, call>>
  PROVE  IInv'
<1>1. \A m \in Users : sess'[m].status = "none" => sess[m].status = "none"
  BY DEF SessStep, LegalChange
<1>2. NothingBeforeSession'
  BY <1>1 DEF IInv, NothingBeforeSession
<1>3. SessOK'
  BY DEF SessStep, SessOK
<1> QED BY <1>2, <1>3
  DEF IInv, DueOK, QueueOK, PendingOK, MailOK, CallOK, PollInRange

(* Steps that also move one thread of a node that has a session.           *)
LEMMA SessionAndCall ==
  ASSUME IInv, SessStep, UNCHANGED <<due, queue, pending, mailbox>>,
         NEW n \in Users, sess[n].status # "none" \/ sess'[n].status # "none",
         NEW t \in Threads, NEW c \in HonestCalls, c.op # "poll", Becomes(n, t, c)
  PROVE  IInv'
<1>1. /\ CallOK' /\ call'[n][t] = c
      /\ \A u \in Threads : u # t => call'[n][u] = call[n][u]
      /\ \A m \in Users \ {n} : call'[m] = call[m]
  BY BecomesCall DEF IInv
<1>2. NoPoll(n)
  BY <1>1, MailKept DEF NoPoll, IInv, Threads
<1>3. OnlyAt(n)
  BY <1>1 DEF OnlyAt
<1>4. ShapesNext
  BY <1>1 DEF ShapesNext, IInv, DueOK, QueueOK, PendingOK, MailOK
<1> QED BY <1>2, <1>3, <1>4, NodeStep

(* dispatch_session opens the initiator's session and starts the POST.     *)
LEMMA DispatchInv ==
  ASSUME IInv, Dispatch
  PROVE  SessStep /\ IInv'
<1>1. PICK agent \in Roster[Initiator], requested \in Roster[Receiver] \cup {NoAgent} :
        LET e == NextEnvelope(Initiator, NoSession, agent, "TASK_REQUEST", requested)
        IN  /\ SetSession(Initiator, IngestAt(Initiator, e).sess)
            /\ Becomes(Initiator, "fg", Posting("dispatch", e))
  BY DEF Dispatch
<1> DEFINE e == NextEnvelope(Initiator, NoSession, agent, "TASK_REQUEST", requested)
<1>2. e \in HonestEnvelopes /\ e.kind = "TASK_REQUEST"
  BY DispatchEnvelope
<1>3. /\ SetSession(Initiator, IngestAt(Initiator, e).sess)
      /\ Becomes(Initiator, "fg", Posting("dispatch", e))
  BY <1>1
<1> HIDE DEF e
<1>4. Initiator \in Users /\ "fg" \in Threads
  BY DEF Users, Threads
<1>5. SessStep /\ sess'[Initiator].status # "none"
  BY <1>2, <1>3, <1>4, IngestStep DEF IInv, IngestLegal
<1>6. Posting("dispatch", e) \in HonestCalls /\ Posting("dispatch", e).op # "poll"
  BY <1>2, NextCalls
<1>7. UNCHANGED <<due, queue, pending, mailbox>>
  BY DEF Dispatch
<1> QED BY <1>3, <1>4, <1>5, <1>6, <1>7, SessionAndCall

(* send_session_message, for every command that calls it.                  *)
LEMMA SendInv ==
  ASSUME IInv, NEW n \in Users, NEW op, NEW agent, NEW kind, NEW body,
         Sendable(op, agent, kind, body),
         SendSessionMessage(n, op, agent, kind, body)
  PROVE  SessStep /\ IInv'
<1> DEFINE e == NextEnvelope(n, sess[n], agent, kind, body)
<1>1. SessStep
  BY SendStep DEF IInv
<1>2. /\ sess[n].status # "none" /\ HasRoom(n)
      /\ UNCHANGED <<due, queue, pending, mailbox>>
      /\ UNCHANGED call \/ Becomes(n, "fg", Posting(op, e))
  BY DEF SendSessionMessage, Exists
<1>3. e \in HonestEnvelopes /\ e.kind = kind
  BY <1>2, OwnEnvelope DEF Sendable, IInv
<1>4. op \in {"send", "tag_in"} /\ (op = "tag_in" => kind = "PARTICIPANT_CHANGED")
  BY DEF Sendable
<1> HIDE DEF e
<1>5. Posting(op, e) \in HonestCalls /\ Posting(op, e).op # "poll"
  BY <1>3, <1>4, NextCalls
<1>6. CASE UNCHANGED call
  BY <1>1, <1>2, <1>6, SessionOnly
<1>7. CASE Becomes(n, "fg", Posting(op, e))
  BY <1>1, <1>2, <1>5, <1>7, SessionAndCall DEF Threads
<1> QED BY <1>1, <1>2, <1>6, <1>7

(* pause_session, resume_session and the pause of an exhausted turn.       *)
LEMMA PauseResumeInv ==
  ASSUME IInv, NEW n \in Users, Pause(n) \/ Resume(n) \/ TurnExhausted(n)
  PROVE  SessStep /\ IInv' /\ sess[n].status \in UnderWay
<1>1. /\ OwnerCommandTarget["owner_pause"] = "paused"
      /\ OwnerCommandTarget["owner_resume"] = "active"
  BY DEF OwnerCommandTarget
<1>2. \/ OwnerStatusEvent(n, "owner_pause", OwnerCommandTarget["owner_pause"], "owner_paused")
      \/ OwnerStatusEvent(n, "owner_resume", OwnerCommandTarget["owner_resume"], "owner_resumed")
  BY <1>1 DEF Pause, Resume, TurnExhausted
<1>3. SessStep /\ sess[n].status \in UnderWay
  BY <1>2, OwnerStatusEventStep DEF IInv
<1>4. UNCHANGED <<due, queue, pending, mailbox, call>>
  BY DEF Pause, Resume, TurnExhausted
<1> QED BY <1>3, <1>4, SessionOnly

(* cancel_session.                                                         *)
LEMMA CancelInv ==
  ASSUME IInv, NEW n \in Users, Cancel(n)
  PROVE  SessStep /\ IInv'
<1> DEFINE e == CancelEnvelope(n)
<1>1. /\ sess[n].status # "none" /\ HasRoom(n)
      /\ SetSession(n, IngestAt(n, e).sess)
      /\ UNCHANGED <<due, queue, pending, mailbox, call>>
  BY DEF Cancel, Exists
<1>2. sess[n].agent[Initiator] \in AgentIds
  BY <1>1 DEF IInv, SessOK, Stored
<1>3. e \in HonestEnvelopes
  <2>1. e = NextEnvelope(n, sess[n], sess[n].agent[Initiator], "CANCEL", "cancel")
    BY DEF CancelEnvelope
  <2> HIDE DEF e
  <2>2. "CANCEL" \in Kinds /\ "cancel" \in Bodies \cup AgentIds \cup Texts
    BY KindsDef DEF Texts
  <2> QED BY <1>1, <1>2, <2>1, <2>2, OwnEnvelope DEF IInv
<1> HIDE DEF e
<1>4. SessStep
  BY <1>1, <1>3, IngestStep DEF IInv
<1> QED BY <1>1, <1>4, SessionOnly

(* decide_approval settles one undecided approval.                         *)
LEMMA DecideApprovalInv ==
  ASSUME IInv, NEW n \in Users, NEW decision \in {"approve", "deny"},
         DecideApproval(n, decision)
  PROVE  SessStep /\ IInv' /\ sess[n].status \in UnderWay
<1> DEFINE st == OwnerCommandTarget[decision]
           t == [sess[n] EXCEPT !.status = st]
<1>1. /\ pending[n] > 0 /\ OwnerCommandAllowed(sess[n].status, decision)
      /\ SetSession(n, t) /\ pending' = [pending EXCEPT ![n] = @ - 1]
      /\ UNCHANGED <<due, queue, mailbox, call>>
  BY DEF DecideApproval
<1>2. sess[n].status # "none"
  BY <1>1 DEF IInv, NothingBeforeSession
<1>3. st = OwnerCommandTarget[decision] /\ t = [sess[n] EXCEPT !.status = st]
  OBVIOUS
<1>4. sess[n] \in Stored
  BY DEF IInv, SessOK
<1> HIDE DEF st, t
<1>5. LegalChange(sess[n], t) /\ sess[n].status \in UnderWay
  BY <1>1, <1>2, <1>3, <1>4, OwnerCommandEffect
<1>6. SessStep
  BY <1>1, <1>5, SetStep DEF IInv
<1>7. PendingOK' /\ \A m \in Users \ {n} : pending'[m] = pending[m]
  BY <1>1, BoundsAssumption DEF IInv, PendingOK
<1>8. ShapesNext
  BY <1>1, <1>7 DEF ShapesNext, IInv, DueOK, QueueOK, MailOK, CallOK
<1>9. OnlyAt(n) /\ NoPoll(n)
  BY <1>1, <1>7, MailKept DEF OnlyAt, NoPoll, IInv
<1> QED BY <1>2, <1>5, <1>6, <1>8, <1>9, NodeStep

(* An agent turn runs only where there is a session.                       *)
LEMMA InvokedFacts ==
  ASSUME IInv, NEW n \in Users, Invoked(n)
  PROVE  /\ sess[n].status # "none" /\ call[n]["turn"].agent \in AgentIds
         /\ Becomes(n, "turn", Idle)
<1>1. call[n]["turn"].op = "turn" /\ Becomes(n, "turn", Idle)
  BY DEF Invoked, Finish
<1>2. call[n]["turn"] \in HonestCalls
  BY DEF IInv, CallOK, Threads
<1>3. call[n]["turn"].agent \in AgentIds
  BY <1>1, <1>2 DEF HonestCalls, Idle, Sendings, SendOps
<1>4. sess[n].status # "none"
  BY <1>1 DEF IInv, NothingBeforeSession, Threads
<1> QED BY <1>1, <1>3, <1>4

(* The adapter call of advance_session_turn begins.                        *)
LEMMA TurnInvokeInv ==
  ASSUME IInv, NEW n \in Users, TurnInvoke(n)
  PROVE  SessStep /\ IInv'
<1> DEFINE c == [op |-> "turn", agent |-> OwnAgent(n)]
<1>1. /\ sess[n].status # "none" /\ Becomes(n, "turn", c)
      /\ UNCHANGED <<sess, due, queue, pending, mailbox>>
  BY DEF TurnInvoke, Exists
<1>2. c \in HonestCalls /\ c.op # "poll"
  BY OwnAgentType DEF IInv, HonestCalls
<1> HIDE DEF c
<1>3. SessStep
  BY <1>1, KeepStep DEF IInv
<1> QED BY <1>1, <1>2, <1>3, SessionAndCall DEF Threads

(* A turn ends without a message, or with the session failed.              *)
LEMMA TurnEndsInv ==
  ASSUME IInv, NEW n \in Users, TurnWithoutMessage(n) \/ TurnFails(n)
  PROVE  SessStep /\ IInv'
<1>1. Invoked(n) /\ UNCHANGED <<due, queue, pending, mailbox>>
  BY DEF TurnWithoutMessage, TurnFails
<1>2. sess[n].status # "none" /\ Becomes(n, "turn", Idle)
  BY <1>1, InvokedFacts
<1>3. UNCHANGED sess \/ NodeCommand(n, "failed")
  BY DEF TurnWithoutMessage, TurnFails
<1>4. SessStep
  BY <1>2, <1>3, KeepStep, NodeCommandStep DEF IInv
<1>5. Idle \in HonestCalls /\ Idle.op # "poll"
  BY NextCalls
<1> QED BY <1>1, <1>2, <1>4, <1>5, SessionAndCall DEF Threads

(* A turn's message needs the owner's approval.                            *)
LEMMA TurnNeedsApprovalInv ==
  ASSUME IInv, NEW n \in Users, TurnNeedsApproval(n)
  PROVE  SessStep /\ IInv'
<1>1. /\ Invoked(n) /\ pending[n] < MaxApprovals
      /\ pending' = [pending EXCEPT ![n] = @ + 1]
      /\ NodeCommand(n, "awaiting_owner_approval") /\ UNCHANGED <<due, queue, mailbox>>
  BY DEF TurnNeedsApproval
<1>2. sess[n].status # "none" /\ Becomes(n, "turn", Idle)
  BY <1>1, InvokedFacts
<1>3. SessStep
  BY <1>1, <1>2, NodeCommandStep DEF IInv
<1>4. Idle \in HonestCalls /\ Idle.op # "poll"
  BY NextCalls
<1>5. /\ CallOK' /\ call'[n]["bg"] = call[n]["bg"]
      /\ \A m \in Users \ {n} : call'[m] = call[m]
  BY <1>2, <1>4, BecomesCall DEF IInv, Threads
<1>6. PendingOK' /\ \A m \in Users \ {n} : pending'[m] = pending[m]
  BY <1>1, BoundsAssumption DEF IInv, PendingOK
<1>7. ShapesNext
  BY <1>1, <1>5, <1>6 DEF ShapesNext, IInv, DueOK, QueueOK, MailOK
<1>8. OnlyAt(n) /\ NoPoll(n)
  BY <1>1, <1>5, <1>6, MailKept DEF OnlyAt, NoPoll, IInv
<1> QED BY <1>2, <1>3, <1>7, <1>8, NodeStep

(* A turn's message is stored and queued.                                  *)
LEMMA TurnMessageInv ==
  ASSUME IInv, NEW n \in Users, NEW kind \in TurnKinds, NEW body \in Bodies,
         TurnMessage(n, kind, body)
  PROVE  SessStep /\ IInv'
<1> DEFINE e == NextEnvelope(n, sess[n], call[n]["turn"].agent, kind, body)
<1>1. /\ Invoked(n) /\ HasRoom(n) /\ SetSession(n, IngestAt(n, e).sess)
      /\ Enqueue(n, e) /\ UNCHANGED <<due, pending, mailbox>>
  BY DEF TurnMessage
<1>2. /\ sess[n].status # "none" /\ call[n]["turn"].agent \in AgentIds
      /\ Becomes(n, "turn", Idle)
  BY <1>1, InvokedFacts
<1>3. e \in HonestEnvelopes
  <2>1. /\ kind \in Kinds /\ kind # "TASK_REQUEST"
        /\ kind \notin {"ACCEPTANCE", "PARTICIPANT_CHANGED"}
    BY TurnKindsAssumption, KindsDef
  <2> DEFINE agent == call[n]["turn"].agent
  <2>2. e = NextEnvelope(n, sess[n], agent, kind, body) /\ agent \in AgentIds
    BY <1>2
  <2>3. SessOK /\ HasRoom(n)
    BY <1>1 DEF IInv
  <2> HIDE DEF e, agent
  <2> QED BY <2>1, <2>2, <2>3, OwnEnvelope
<1> HIDE DEF e
<1>4. SessStep
  BY <1>1, <1>3, IngestStep DEF IInv
<1>5. Idle \in HonestCalls
  BY NextCalls
<1>6. /\ CallOK' /\ call'[n]["bg"] = call[n]["bg"]
      /\ \A m \in Users \ {n} : call'[m] = call[m]
  BY <1>2, <1>5, BecomesCall DEF IInv, Threads
<1>7. QueueOK' /\ \A m \in Users \ {n} : queue'[m] = queue[m]
  BY <1>1, <1>3, QueueRows DEF IInv
<1>8. ShapesNext
  BY <1>1, <1>6, <1>7 DEF ShapesNext, IInv, DueOK, PendingOK, MailOK
<1>9. OnlyAt(n) /\ NoPoll(n)
  BY <1>1, <1>6, <1>7, MailKept DEF OnlyAt, NoPoll, IInv
<1> QED BY <1>2, <1>4, <1>8, <1>9, NodeStep

(* A step of a delivery: the thread moves on, a row may change and the     *)
(* relay may take the envelope.                                            *)
LEMMA DeliveryStep ==
  ASSUME IInv, SessStep, NEW n \in Users, sess[n].status # "none",
         NEW t \in Threads, NEW c \in HonestCalls, c.op # "poll", Becomes(n, t, c),
         NEW e \in HonestEnvelopes,
         \/ UNCHANGED queue
         \/ Enqueue(n, e)
         \/ \E state \in RowStates : SetRow(n, e, state),
         UNCHANGED mailbox \/ Deposit(n, e),
         UNCHANGED <<due, pending>>
  PROVE  IInv'
<1>1. /\ CallOK' /\ call'[n][t] = c
      /\ \A u \in Threads : u # t => call'[n][u] = call[n][u]
      /\ \A m \in Users \ {n} : call'[m] = call[m]
  BY BecomesCall DEF IInv
<1>2. QueueOK' /\ \A m \in Users \ {n} : queue'[m] = queue[m]
  <2>1. CASE UNCHANGED queue
    BY <2>1 DEF IInv, QueueOK
  <2>2. CASE ~UNCHANGED queue
    BY <2>2, QueueRows DEF IInv
  <2> QED BY <2>1, <2>2
<1>3. MailOK' /\ \A m \in Users : Len(mailbox[m]) <= Len(mailbox'[m])
  BY MailKept, DepositMail DEF IInv
<1>4. ShapesNext
  BY <1>1, <1>2, <1>3 DEF ShapesNext, IInv, DueOK, PendingOK
<1>5. OnlyAt(n) /\ NoPoll(n)
  BY <1>1, <1>2, <1>3 DEF OnlyAt, NoPoll, Threads
<1> QED BY <1>4, <1>5, NodeStep

(* The POST: the peer ingests the envelope, or is never reached.           *)
LEMMA PostInv ==
  ASSUME IInv, NEW n \in Users, NEW t \in Threads,
         PostHandled(n, t) \/ PostReplyLost(n, t) \/ PostUnreachable(n, t)
  PROVE  SessStep /\ IInv'
<1> DEFINE c == call[n][t]
<1>1. PICK p \in {"ok", "rejected", "relay"} :
        Becomes(n, t, [c EXCEPT !.phase = p])
  BY DEF PostHandled, PostReplyLost, PostUnreachable, Phase
<1>2. Calling(n, t, "post") /\ UNCHANGED <<due, queue, pending, mailbox>>
  BY DEF PostHandled, PostReplyLost, PostUnreachable
<1>3. c \in Sendings /\ c.env \in HonestEnvelopes /\ sess[n].status # "none"
  BY <1>2, CallingFacts DEF IInv
<1>4. UNCHANGED sess \/ SetSession(Peer(n), IngestAt(Peer(n), c.env).sess)
  BY DEF PostHandled, PostReplyLost, PostUnreachable
<1> HIDE DEF c
<1>5. Peer(n) \in Users
  BY DEF Peer, Users
<1>6. SessStep
  BY <1>3, <1>4, <1>5, KeepStep, IngestStep DEF IInv
<1>7. [c EXCEPT !.phase = p] \in HonestCalls /\ [c EXCEPT !.phase = p].op # "poll"
  BY ZenonT(30), <1>3, NextCalls
<1> QED BY ZenonT(30), <1>1, <1>2, <1>3, <1>6, <1>7, SessionAndCall

(* The caller acts on the peer's answer.                                   *)
LEMMA AnswerInv ==
  ASSUME IInv, NEW n \in Users, NEW t \in Threads,
         PostAccepted(n, t) \/ PostRejected(n, t)
  PROVE  SessStep /\ IInv'
<1> DEFINE c == call[n][t]
<1>1. Calling(n, t, "ok") \/ Calling(n, t, "rejected")
  BY DEF PostAccepted, PostRejected
<1>2. c \in Sendings /\ c.env \in HonestEnvelopes /\ sess[n].status # "none"
  BY <1>1, CallingFacts DEF IInv
<1>3. \/ NodeCommand(n, "delivered") \/ NodeCommand(n, "failed")
      \/ AfterSend(n, c) \/ UNCHANGED sess
  BY DEF PostAccepted, PostRejected
<1>4. UNCHANGED queue \/ \E state \in RowStates : SetRow(n, c.env, state)
  BY DEF PostAccepted, PostRejected, RowStates
<1>5. Becomes(n, t, Idle) \/ Becomes(n, t, [c EXCEPT !.phase = "relay"])
  BY DEF PostAccepted, PostRejected, Finish, Phase
<1>6. UNCHANGED <<due, pending, mailbox>>
  BY DEF PostAccepted, PostRejected
<1> HIDE DEF c
<1>7. SessStep
  BY <1>2, <1>3, NodeCommandStep, AfterSendStep, KeepStep DEF IInv
<1>8. \E d \in HonestCalls : d.op # "poll" /\ Becomes(n, t, d)
  BY ZenonT(30), <1>2, <1>5, NextCalls
<1> QED BY ZenonT(30), <1>2, <1>4, <1>6, <1>7, <1>8, DeliveryStep

(* The relay fallback and the outbound queue.                              *)
LEMMA RelayInv ==
  ASSUME IInv, NEW n \in Users, NEW t \in Threads,
         RelayAccepted(n, t) \/ RelayUnavailable(n, t)
  PROVE  SessStep /\ IInv'
<1> DEFINE c == call[n][t]
<1>1. Calling(n, t, "relay")
  BY DEF RelayAccepted, RelayUnavailable
<1>2. c \in Sendings /\ c.env \in HonestEnvelopes /\ sess[n].status # "none"
  BY <1>1, CallingFacts DEF IInv
<1>3. NodeCommand(n, "queued") \/ AfterSend(n, c) \/ UNCHANGED sess
  BY DEF RelayAccepted, RelayUnavailable
<1>4. \/ UNCHANGED queue \/ Enqueue(n, c.env)
      \/ \E state \in RowStates : SetRow(n, c.env, state)
  BY DEF RelayAccepted, RelayUnavailable, RowStates
<1>5. Becomes(n, t, Idle) /\ UNCHANGED <<due, pending>>
  BY DEF RelayAccepted, RelayUnavailable, Finish
<1>6. UNCHANGED mailbox \/ Deposit(n, c.env)
  BY DEF RelayAccepted, RelayUnavailable
<1> HIDE DEF c
<1>7. SessStep
  BY <1>2, <1>3, NodeCommandStep, AfterSendStep, KeepStep DEF IInv
<1>8. Idle \in HonestCalls /\ Idle.op # "poll"
  BY NextCalls
<1> QED BY <1>2, <1>4, <1>5, <1>6, <1>7, <1>8, DeliveryStep

(* retry_outbound_queue takes up a row, or gives it up.                    *)
LEMMA RetryRowInv ==
  ASSUME IInv, NEW n \in Users, NEW row \in queue[n], RetryRow(n, row)
  PROVE  SessStep /\ IInv'
<1>1. row.env \in HonestEnvelopes /\ sess[n].status # "none"
  BY DEF IInv, QueueOK, NothingBeforeSession
<1>2. call[n]["bg"] = Idle /\ UNCHANGED <<due, pending, mailbox>>
  BY DEF RetryRow
<1>3. UNCHANGED sess \/ NodeCommand(n, "expired")
  BY DEF RetryRow
<1>4. UNCHANGED queue \/ \E state \in RowStates : SetRow(n, row.env, state)
  BY DEF RetryRow, RowStates
<1>5. UNCHANGED call \/ Becomes(n, "bg", Posting("retry", row.env))
  BY DEF RetryRow
<1>6. SessStep
  BY <1>1, <1>3, KeepStep, NodeCommandStep DEF IInv
<1>7. UNCHANGED call => Becomes(n, "bg", Idle)
  BY <1>2 DEF IInv, CallOK, Threads, Becomes
<1>8. \E c \in HonestCalls : c.op # "poll" /\ Becomes(n, "bg", c)
  BY <1>1, <1>5, <1>7, NextCalls
<1> QED BY <1>1, <1>2, <1>4, <1>6, <1>8, DeliveryStep DEF Threads

(* poll_relay_and_process fetches the inbox.                               *)
LEMMA PollFetchInv ==
  ASSUME IInv, NEW n \in Users, PollFetch(n)
  PROVE  SessStep /\ IInv'
<1> DEFINE c == [op |-> "poll", pos |-> 1, left |-> Len(mailbox[n])]
<1>1. /\ mailbox[n] # << >> /\ Becomes(n, "bg", c)
      /\ UNCHANGED <<sess, due, queue, pending, mailbox>>
  BY DEF PollFetch
<1>2. Len(mailbox[n]) \in Nat \ {0}
  BY <1>1 DEF IInv, MailOK
<1>3. /\ c \in HonestCalls
      /\ c.op = "poll" /\ c.pos + c.left <= Len(mailbox[n]) + 1
  BY <1>2 DEF HonestCalls
<1> HIDE DEF c
<1>4. /\ CallOK' /\ call'[n]["bg"] = c
      /\ \A u \in Threads : u # "bg" => call'[n][u] = call[n][u]
      /\ \A m \in Users \ {n} : call'[m] = call[m]
  BY <1>1, <1>3, BecomesCall DEF IInv, Threads
<1>5. PollInRange'
  BY <1>1, <1>3, <1>4 DEF IInv, PollInRange
<1>6. NothingBeforeSession'
  BY <1>1, <1>3, <1>4 DEF IInv, NothingBeforeSession
<1>7. SessStep
  BY <1>1, KeepStep DEF IInv
<1> QED BY <1>1, <1>4, <1>5, <1>6, <1>7
  DEF IInv, SessOK, DueOK, QueueOK, PendingOK, MailOK

(* A thread of a node crashes.                                             *)
LEMMA CrashInv ==
  ASSUME IInv, NEW n \in Users, NEW t \in Threads, Crash(n, t)
  PROVE  SessStep /\ IInv'
<1>1. Becomes(n, t, Idle) /\ UNCHANGED <<sess, due, queue, pending, mailbox>>
  BY DEF Crash, Finish
<1>2. Idle \in HonestCalls /\ Idle.op = "idle"
  BY NextCalls DEF Idle
<1>3. /\ CallOK' /\ call'[n][t] = Idle
      /\ \A u \in Threads : u # t => call'[n][u] = call[n][u]
      /\ \A m \in Users \ {n} : call'[m] = call[m]
  BY <1>1, <1>2, BecomesCall DEF IInv
<1>4. PollInRange'
  BY <1>1, <1>2, <1>3 DEF IInv, PollInRange, Threads
<1>5. NothingBeforeSession'
  BY <1>1, <1>2, <1>3 DEF IInv, NothingBeforeSession
<1>6. SessStep
  BY <1>1, KeepStep DEF IInv
<1> QED BY <1>1, <1>3, <1>4, <1>5, <1>6
  DEF IInv, SessOK, DueOK, QueueOK, PendingOK, MailOK

(* A session's lifetime runs out on one node's clock.                      *)
LEMMA DeadlineInv ==
  ASSUME IInv, NEW n \in Users, Deadline(n)
  PROVE  SessStep /\ IInv'
<1>1. due' = [due EXCEPT ![n] = TRUE] /\ UNCHANGED <<sess, queue, pending, mailbox, call>>
  BY DEF Deadline
<1>2. DueOK'
  BY <1>1 DEF IInv, DueOK
<1>3. SessStep
  BY <1>1, KeepStep DEF IInv
<1> QED BY <1>1, <1>2, <1>3
  DEF IInv, SessOK, QueueOK, PendingOK, MailOK, CallOK, PollInRange, NothingBeforeSession

(* Mail expires at the relay, but not during a poll.                       *)
LEMMA RelayExpiryInv ==
  ASSUME IInv, NEW n \in Users, RelayExpiry(n)
  PROVE  SessStep /\ IInv'
<1>1. PICK pos \in DOMAIN mailbox[n] :
        mailbox' = [mailbox EXCEPT ![n] = RemoveAt(mailbox[n], pos)]
  BY ZenonT(30) DEF RelayExpiry
<1>2. call[n]["bg"].op # "poll" /\ UNCHANGED <<sess, due, queue, pending, call>>
  BY DEF RelayExpiry
<1>3. mailbox[n] \in Seq(HonestEnvelopes)
  BY DEF IInv, MailOK
<1>4. RemoveAt(mailbox[n], pos) \in Seq(HonestEnvelopes)
  BY <1>3, RemoveAtType
<1>5. MailOK' /\ \A m \in Users \ {n} : mailbox'[m] = mailbox[m]
  BY <1>1, <1>4 DEF IInv, MailOK
<1>6. PollInRange'
  BY <1>2, <1>5 DEF IInv, PollInRange
<1>7. SessStep
  BY <1>2, KeepStep DEF IInv
<1> QED BY <1>2, <1>5, <1>6, <1>7
  DEF IInv, SessOK, DueOK, QueueOK, PendingOK, CallOK, NothingBeforeSession

(* What a poll in progress has before it.                                  *)
LEMMA PollFacts ==
  ASSUME IInv, NEW n \in Users, call[n]["bg"].op = "poll", NEW pos,
         pos = call[n]["bg"].pos, NEW left, left = call[n]["bg"].left
  PROVE  /\ pos \in Nat \ {0} /\ left \in Nat \ {0}
         /\ call[n]["bg"] = [op |-> "poll", pos |-> pos, left |-> left]
         /\ pos + left <= Len(mailbox[n]) + 1
         /\ pos \in DOMAIN mailbox[n] /\ mailbox[n][pos] \in HonestEnvelopes
<1>1. call[n]["bg"] \in HonestCalls
  BY DEF IInv, CallOK, Threads
<1>2. call[n]["bg"] \in [op : {"poll"}, pos : Nat \ {0}, left : Nat \ {0}]
  BY <1>1, PollShape
<1>3. /\ pos \in Nat \ {0} /\ left \in Nat \ {0}
      /\ call[n]["bg"] = [op |-> "poll", pos |-> pos, left |-> left]
  BY <1>2
<1>4. pos + left <= Len(mailbox[n]) + 1
  BY DEF IInv, PollInRange
<1>5. mailbox[n] \in Seq(HonestEnvelopes)
  BY DEF IInv, MailOK
<1>6. pos \in DOMAIN mailbox[n]
  <2>1. Len(mailbox[n]) \in Nat /\ DOMAIN mailbox[n] = 1 .. Len(mailbox[n])
    BY <1>5
  <2>2. pos <= Len(mailbox[n])
    BY <1>3, <1>4, <2>1
  <2> QED BY <1>3, <2>1, <2>2
<1> QED BY <1>3, <1>4, <1>5, <1>6

(* poll_relay_and_process goes through one message.                        *)
LEMMA PollMessageInv ==
  ASSUME IInv, NEW n \in Users, PollMessage(n)
  PROVE  /\ SessStep /\ IInv'
         /\ \E pos \in DOMAIN mailbox[n] : IngestLegal(sess[n], mailbox[n][pos], sess'[n])
<1> DEFINE pos == call[n]["bg"].pos
           left == call[n]["bg"].left
           e == mailbox[n][pos]
           box == RemoveAt(mailbox[n], pos)
<1>1. /\ call[n]["bg"].op = "poll" /\ SetSession(n, IngestAt(n, e).sess)
      /\ UNCHANGED <<due, queue, pending>>
  BY ZenonT(30) DEF PollMessage
<1>2. \/ mailbox' = [mailbox EXCEPT ![n] = box] /\ Polled(n, TRUE)
      \/ UNCHANGED mailbox /\ Polled(n, FALSE)
  BY ZenonT(30) DEF PollMessage
<1>3. /\ pos \in Nat \ {0} /\ left \in Nat \ {0}
      /\ call[n]["bg"] = [op |-> "poll", pos |-> pos, left |-> left]
      /\ pos + left <= Len(mailbox[n]) + 1
      /\ pos \in DOMAIN mailbox[n] /\ e \in HonestEnvelopes
  BY ZenonT(30), <1>1, PollFacts
<1>4. SessStep /\ IngestLegal(sess[n], e, sess'[n])
  <2> HIDE DEF e
  <2> QED BY ZenonT(30), <1>1, <1>3, IngestStep DEF IInv
<1>5. mailbox[n] \in Seq(HonestEnvelopes) /\ Len(mailbox[n]) \in Nat
  BY DEF IInv, MailOK
<1>6. box \in Seq(HonestEnvelopes) /\ Len(box) = Len(mailbox[n]) - 1
  <2>1. box = RemoveAt(mailbox[n], pos)
    OBVIOUS
  <2>2. mailbox[n] \in Seq(HonestEnvelopes) /\ pos \in DOMAIN mailbox[n]
    BY <1>3, <1>5
  <2> HIDE DEF box, pos
  <2>3. /\ box \in Seq(HonestEnvelopes) /\ Len(box) = Len(mailbox[n]) - 1
        /\ \A j \in DOMAIN box : \E k \in DOMAIN mailbox[n] : box[j] = mailbox[n][k]
    BY <2>1, <2>2, RemoveAtType
  <2> QED BY <2>3
<1>7. /\ MailOK' /\ \A m \in Users \ {n} : mailbox'[m] = mailbox[m]
      /\ \/ mailbox'[n] = box /\ Polled(n, TRUE)
         \/ mailbox'[n] = mailbox[n] /\ Polled(n, FALSE)
  <2> HIDE DEF box
  <2> QED BY ZenonT(30), <1>2, <1>6 DEF IInv, MailOK
<1>8. PICK c \in HonestCalls :
        /\ Becomes(n, "bg", c)
        /\ c.op \in {"idle", "poll"}
        /\ c.op = "poll" => c.pos + c.left <= Len(mailbox'[n]) + 1
  <2>1. CASE left = 1
    <3>1. Becomes(n, "bg", Idle)
      BY <1>2, <2>1 DEF Polled, Finish
    <3>2. Idle \in HonestCalls /\ Idle.op = "idle"
      BY NextCalls DEF Idle
    <3> QED BY <3>1, <3>2
  <2>2. CASE left # 1 /\ mailbox'[n] = box /\ Polled(n, TRUE)
    <3> DEFINE k == left - 1
               c == [op |-> "poll", pos |-> pos, left |-> k]
    <3>2. Becomes(n, "bg", c)
      BY <2>2 DEF Polled
    <3> HIDE DEF pos, left, box
    <3>3. k \in Nat \ {0} /\ pos + k <= Len(box) + 1
      BY <1>3, <1>5, <1>6, <2>2
    <3> HIDE DEF k
    <3>4. c \in HonestCalls /\ c.op = "poll" /\ c.pos = pos /\ c.left = k
      BY <1>3, <3>3, PollCalls
    <3> HIDE DEF c
    <3> QED BY <2>2, <3>2, <3>3, <3>4
  <2>3. CASE left # 1 /\ mailbox'[n] = mailbox[n] /\ Polled(n, FALSE)
    <3> DEFINE p == pos + 1
               k == left - 1
               c == [op |-> "poll", pos |-> p, left |-> k]
    <3>2. Becomes(n, "bg", c)
      BY <2>3 DEF Polled
    <3> HIDE DEF pos, left
    <3>3. p \in Nat \ {0} /\ k \in Nat \ {0} /\ p + k <= Len(mailbox[n]) + 1
      BY <1>3, <1>5, <2>3
    <3> HIDE DEF p, k
    <3>4. c \in HonestCalls /\ c.op = "poll" /\ c.pos = p /\ c.left = k
      BY <3>3, PollCalls
    <3> HIDE DEF c
    <3> QED BY <2>3, <3>2, <3>3, <3>4
  <2> QED BY ZenonT(30), <1>7, <2>1, <2>2, <2>3
<1> HIDE DEF pos, left, box
<1>9. /\ CallOK' /\ call'[n]["bg"] = c
      /\ \A u \in Threads : u # "bg" => call'[n][u] = call[n][u]
      /\ \A m \in Users \ {n} : call'[m] = call[m]
  BY <1>8, BecomesCall DEF IInv, Threads
<1>10. PollInRange'
  BY <1>7, <1>8, <1>9 DEF IInv, PollInRange
<1>11. NothingBeforeSession'
  <2>1. \A m \in Users : sess'[m].status = "none" => sess[m].status = "none"
    BY ZenonT(30), <1>4 DEF SessStep, LegalChange
  <2>2. queue' = queue /\ pending' = pending
    BY <1>1
  <2> SUFFICES ASSUME NEW m \in Users, sess[m].status = "none"
               PROVE  /\ queue'[m] = {} /\ pending'[m] = 0
                      /\ \A u \in Threads : call'[m][u].op \in {"idle", "poll"}
    BY <2>1 DEF NothingBeforeSession
  <2>3. /\ queue[m] = {} /\ pending[m] = 0
        /\ \A u \in Threads : call[m][u].op \in {"idle", "poll"}
    BY DEF IInv, NothingBeforeSession
  <2>4. \A u \in Threads : call'[m][u].op \in {"idle", "poll"}
    BY <1>8, <1>9, <2>3
  <2> QED BY <2>2, <2>3, <2>4
<1>12. SessOK'
  BY <1>4 DEF SessStep, SessOK
<1>13. DueOK' /\ QueueOK' /\ PendingOK'
  BY <1>1 DEF IInv, DueOK, QueueOK, PendingOK
<1> QED BY <1>3, <1>4, <1>7, <1>9, <1>10, <1>11, <1>12, <1>13 DEF IInv

-----------------------------------------------------------------------------
(* The theorems                                                            *)

(* IInv holds of the empty databases.                                      *)
LEMMA InitIInv == Init => IInv
<1> SUFFICES ASSUME Init PROVE IInv
  OBVIOUS
<1>1. SessOK
  BY StatusesDef DEF Init, SessOK, NoSession, Stored, Sessions, Users
<1>2. DueOK /\ QueueOK /\ MailOK
  BY DEF Init, DueOK, QueueOK, MailOK
<1>3. PendingOK
  BY BoundsAssumption DEF Init, PendingOK
<1>4. CallOK
  BY NextCalls DEF Init, CallOK
<1>5. PollInRange /\ NothingBeforeSession
  BY DEF Init, PollInRange, NothingBeforeSession, Idle, Threads
<1> QED BY <1>1, <1>2, <1>3, <1>4, <1>5 DEF IInv

(* Every action preserves IInv and changes the stored sessions legally.    *)
LEMMA NextIInv ==
  ASSUME IInv, Next
  PROVE  SessStep /\ IInv'
<1>1. CASE Dispatch
  BY <1>1, DispatchInv
<1>2. CASE Responses
  <2>1. PICK agent \in Roster[Receiver] \cup {Receiver} :
          Accept(agent) \/ Decline(agent) \/ Clarify(agent)
    BY <1>2 DEF Responses
  <2>2. Receiver \in Users
    BY DEF Users
  <2>3. /\ Sendable("send", agent, "ACCEPTANCE", agent)
        /\ Sendable("send", agent, "DECLINE", "declined")
        /\ Sendable("send", agent, "CLARIFICATION", "clarify")
    BY CommandsSendable DEF IInv
  <2> QED BY <2>1, <2>2, <2>3, SendInv DEF Accept, Decline, Clarify
<1>3. ASSUME NEW n \in Users, Commands(n) PROVE SessStep /\ IInv'
  <2>1. CASE HumanMessage(n)
    <3>1. Sendable("send", n, HumanKind(n), "human")
      BY CommandsSendable DEF IInv
    <3> QED BY <2>1, <3>1, SendInv DEF HumanMessage
  <2>2. ASSUME NEW agent \in Roster[n], TagIn(n, agent) PROVE SessStep /\ IInv'
    <3>1. Sendable("tag_in", OwnAgent(n), "PARTICIPANT_CHANGED", agent)
      BY CommandsSendable DEF IInv
    <3> QED BY <2>2, <3>1, SendInv DEF TagIn
  <2>3. CASE Pause(n) \/ Resume(n)
    BY <2>3, PauseResumeInv
  <2>4. CASE Cancel(n)
    BY <2>4, CancelInv
  <2>5. ASSUME NEW decision \in {"approve", "deny"}, DecideApproval(n, decision)
        PROVE  SessStep /\ IInv'
    BY <2>5, DecideApprovalInv
  <2> QED BY <1>3, <2>1, <2>2, <2>3, <2>4, <2>5 DEF Commands
<1>4. ASSUME NEW n \in Users, Turns(n) PROVE SessStep /\ IInv'
  BY <1>4, PauseResumeInv, TurnInvokeInv, TurnEndsInv, TurnNeedsApprovalInv,
     TurnMessageInv DEF Turns
<1>5. ASSUME NEW n \in Users, Background(n) PROVE SessStep /\ IInv'
  BY <1>5, RetryRowInv, PollFetchInv, PollMessageInv DEF Background
<1>6. ASSUME NEW n \in Users, NEW t \in Threads, Delivery(n, t) PROVE SessStep /\ IInv'
  BY <1>6, PostInv, AnswerInv, RelayInv DEF Delivery
<1>7. ASSUME NEW n \in Users, NEW t \in Threads, Crash(n, t) PROVE SessStep /\ IInv'
  BY <1>7, CrashInv
<1>8. ASSUME NEW n \in Users, RelayExpiry(n) \/ Deadline(n) PROVE SessStep /\ IInv'
  BY <1>8, RelayExpiryInv, DeadlineInv
<1> QED BY <1>1, <1>2, <1>3, <1>4, <1>5, <1>6, <1>7, <1>8 DEF Next

(* So does a step that changes nothing.                                    *)
LEMMA StepIInv == IInv /\ [Next]_vars => SessStep /\ IInv'
<1> SUFFICES ASSUME IInv, [Next]_vars PROVE SessStep /\ IInv'
  OBVIOUS
<1>1. CASE Next
  BY <1>1, NextIInv
<1>2. CASE UNCHANGED vars
  <2>1. SessStep
    BY <1>2, KeepStep DEF IInv, vars
  <2> QED BY <1>2, <2>1, SessionOnly DEF vars
<1> QED BY <1>1, <1>2

(* IInv is an invariant.                                                   *)
THEOREM Inductive == Spec => []IInv
  BY InitIInv, StepIInv, PTL DEF Spec

(* Type correctness: whatever is retried, repeated, lost or cut short by a *)
(* crash, every stored session, queue row, mailbox and thread keeps its    *)
(* shape.                                                                  *)
THEOREM TypeCorrect == Spec => []TypeOK
<1>1. IInv => TypeOK
  <2> SUFFICES ASSUME IInv PROVE TypeOK
    OBVIOUS
  <2>1. HonestEnvelopes \subseteq Envelopes /\ Stored \subseteq Sessions
    BY DEF HonestEnvelopes, Stored
  <2>2. HonestCalls \subseteq CallStates
    BY <2>1 DEF HonestCalls, Sendings, SendOps, CallStates
  <2>3. sess \in [Users -> Sessions]
    BY <2>1 DEF IInv, SessOK
  <2>4. queue \in [Users -> SUBSET [env : Envelopes, state : RowStates]]
    BY <2>1 DEF IInv, QueueOK
  <2>5. mailbox \in [Users -> Seq(Envelopes)]
    <3>1. Seq(HonestEnvelopes) \subseteq Seq(Envelopes)
      BY <2>1, SeqMonotonic
    <3> QED BY <3>1 DEF IInv, MailOK
  <2>6. call \in [Users -> [Threads -> CallStates]]
    BY <2>2 DEF IInv, CallOK
  <2> QED BY <2>3, <2>4, <2>5, <2>6 DEF TypeOK, IInv, DueOK, PendingOK, RowStates
<1> QED BY <1>1, Inductive, PTL

(* Finished sessions stay as they are: no late reply, retry, poll, owner   *)
(* command or agent turn changes the status or the transcript of a session *)
(* in one of TERMINAL_STATES.                                              *)
THEOREM TerminalSessionsAreImmutable == Spec => TerminalImmutable
<1>1. IInv /\ [Next]_vars =>
        [\A n \in Users : sess[n].status \in TerminalStates =>
           sess'[n].status = sess[n].status /\ sess'[n].log = sess[n].log]_vars
  BY StepIInv DEF SessStep, LegalChange
<1> QED BY <1>1, Inductive, PTL DEF Spec, TerminalImmutable

(* A transcript without gaps and repetitions.                              *)
Contiguous(log) ==
  \A i \in DOMAIN log :
    log[i].seq = LastSequence(SubSeq(log, 1, i - 1), log[i].actor) + 1

(* One more event with the next number leaves it so.                       *)
LEMMA ContiguousStep ==
  ASSUME NEW log \in Seq(Envelopes), Contiguous(log), NEW new, LogStep(log, new)
  PROVE  Contiguous(new)
<1>1. CASE new = log
  BY <1>1
<1>2. CASE new # log
  <2>1. PICK e \in Envelopes : new = Append(log, e) /\ e.seq = LastSequence(log, e.actor) + 1
    BY <1>2 DEF LogStep
  <2>2. /\ Len(new) = Len(log) + 1 /\ new \in Seq(Envelopes)
        /\ new[Len(log) + 1] = e /\ \A j \in 1 .. Len(log) : new[j] = log[j]
    BY <2>1, AppendProperties
  <2>3. ASSUME NEW i \in DOMAIN new
        PROVE  new[i].seq = LastSequence(SubSeq(new, 1, i - 1), new[i].actor) + 1
    <3>1. i \in 1 .. Len(log) + 1
      BY <2>2
    <3>2. SubSeq(new, 1, i - 1) = IF i = Len(log) + 1 THEN log ELSE SubSeq(log, 1, i - 1)
      BY <2>1, <3>1, PrefixOfAppend
    <3>3. CASE i = Len(log) + 1
      BY ZenonT(30), <2>1, <2>2, <3>2, <3>3
    <3>4. CASE i # Len(log) + 1
      <4>1. i \in 1 .. Len(log) /\ i \in DOMAIN log
        BY <3>1, <3>4
      <4>2. log[i].seq = LastSequence(SubSeq(log, 1, i - 1), log[i].actor) + 1
        BY <4>1 DEF Contiguous
      <4> QED BY ZenonT(30), <2>2, <3>2, <3>4, <4>1, <4>2
    <3> QED BY <3>3, <3>4
  <2> QED BY <2>3 DEF Contiguous
<1> QED BY <1>1, <1>2

(* Each owner's events are stored once each, in order and without a gap,   *)
(* whatever the deliveries did (check_sequence_conflict, OUT_OF_ORDER).    *)
THEOREM LogsAreContiguous == Spec => []LogContiguous
<1>1. LogContiguous <=> \A n \in Users : Contiguous(sess[n].log)
  BY DEF LogContiguous, Contiguous
<1>2. Init => LogContiguous
  BY DEF Init, LogContiguous, NoSession
<1>3. IInv /\ LogContiguous /\ [Next]_vars => LogContiguous'
  <2> SUFFICES ASSUME IInv, LogContiguous, [Next]_vars,
                      NEW n \in Users
               PROVE  Contiguous(sess'[n].log)
    BY DEF LogContiguous, Contiguous
  <2>1. LogStep(sess[n].log, sess'[n].log)
    BY StepIInv DEF SessStep, LegalChange
  <2>2. sess[n].log \in Seq(Envelopes)
    BY DEF IInv, SessOK, Stored, Sessions
  <2>3. Contiguous(sess[n].log)
    BY <1>1
  <2> QED BY <2>1, <2>2, <2>3, ContiguousStep
<1> QED BY <1>2, <1>3, Inductive, PTL DEF Spec

(* No transcript exceeds the turn limit (TURN_LIMIT_EXCEEDED), on either   *)
(* node, whichever side the turns came from.                               *)
THEOREM TurnsAreBounded == Spec => []TurnBound
<1>1. Init => TurnBound
  BY CurrentTurnEmpty, MaxTurnsAssumption DEF Init, TurnBound, NoSession
<1>2. IInv /\ TurnBound /\ [Next]_vars => TurnBound'
  <2> SUFFICES ASSUME IInv, TurnBound, [Next]_vars, NEW n \in Users
               PROVE  CurrentTurn(sess'[n].log) <= MaxTurns
    BY DEF TurnBound
  <2>1. LogStep(sess[n].log, sess'[n].log)
    BY StepIInv DEF SessStep, LegalChange
  <2>2. sess[n].log \in Seq(Envelopes)
    BY DEF IInv, SessOK, Stored, Sessions
  <2>3. CurrentTurn(sess[n].log) <= MaxTurns
    BY DEF TurnBound
  <2>4. CASE sess'[n].log = sess[n].log
    BY <2>3, <2>4
  <2>5. CASE sess'[n].log # sess[n].log
    <3>1. PICK e \in Envelopes :
            /\ sess'[n].log = Append(sess[n].log, e)
            /\ e.kind \in TurnConsumingKinds => CurrentTurn(sess[n].log) < MaxTurns
      BY <2>1, <2>5 DEF LogStep
    <3>2. /\ CurrentTurn(sess[n].log) \in Nat
          /\ CurrentTurn(Append(sess[n].log, e)) =
               IF e.kind \in TurnConsumingKinds THEN CurrentTurn(sess[n].log) + 1
                                                ELSE CurrentTurn(sess[n].log)
      BY <2>2, CurrentTurnAppend
    <3> QED BY <2>3, <3>1, <3>2, MaxTurnsAssumption
  <2> QED BY <2>4, <2>5
<1> QED BY <1>1, <1>2, Inductive, PTL DEF Spec

(* A session is completed, declined or cancelled only by the signed        *)
(* FINAL_RESULT, DECLINE or CANCEL its transcript ends in.                 *)
THEOREM OutcomesAreSigned == Spec => []OutcomeSigned
<1>1. Init => OutcomeSigned
  BY DEF Init, OutcomeSigned, Outcome, NoSession
<1>2. IInv /\ OutcomeSigned /\ [Next]_vars => OutcomeSigned'
  <2> SUFFICES ASSUME IInv, OutcomeSigned, [Next]_vars, NEW n \in Users,
                      sess'[n].status \in DOMAIN Outcome
               PROVE  sess'[n].log # << >> /\ Last(sess'[n].log).kind = Outcome[sess'[n].status]
    BY DEF OutcomeSigned
  <2>1. \/ sess'[n].status = sess[n].status /\ sess'[n].log = sess[n].log
        \/ sess'[n].log # << >> /\ Last(sess'[n].log).kind = Outcome[sess'[n].status]
    BY StepIInv DEF SessStep, LegalChange
  <2> QED BY <2>1 DEF OutcomeSigned
<1> QED BY <1>1, <1>2, Inductive, PTL DEF Spec
=============================================================================
