-------------------------- MODULE AcceptanceProofs --------------------------
(***************************************************************************)
(* No session of SessionProtocol is under way before the invited owner's   *)
(* node has recorded that owner's acceptance.                              *)
(*                                                                         *)
(* The invariant needs a companion: an acceptance travels (in a call, in   *)
(* the outbound queue, at the relay) only after it was recorded, because   *)
(* send_session_message gives up when the node's own ingest refuses it.    *)
(***************************************************************************)
EXTENDS SessionProofs

(* A leaf that names no prover is tried with SMT, then with Zenon.         *)
USE SMTT(20), ZenonT(20)

(* The invited owner's node has recorded that owner's acceptance.          *)
Accepted ==
  \E i \in DOMAIN sess[Receiver].log :
    /\ sess[Receiver].log[i].actor = Receiver
    /\ sess[Receiver].log[i].kind = "ACCEPTANCE"

(* Some call, queue row or mailbox holds the envelope.                     *)
Travels(e) ==
  \/ \E n \in Users, t \in Threads : call[n][t].op \in SendOps /\ call[n][t].env = e
  \/ \E n \in Users : \E row \in queue[n] : row.env = e
  \/ \E n \in Users : \E i \in DOMAIN mailbox[n] : mailbox[n][i] = e

(* An acceptance travels only after it was recorded.                       *)
AcceptanceRecorded == \A e : Travels(e) /\ e.kind = "ACCEPTANCE" => Accepted

AInv == NeverSilentlyActivated /\ AcceptanceRecorded

(* What a step may newly do.                                               *)
NoneStarted ==
  \A n \in Users : sess'[n].status \in UnderWay => sess[n].status \in UnderWay \/ Accepted'

NoneSent ==
  \A e : Travels(e)' /\ e.kind = "ACCEPTANCE" => Travels(e) \/ Accepted'

(* Nothing newly travels when calls, queues and mailboxes hold only what   *)
(* already travelled.                                                      *)
Forwarded(e) == Travels(e) \/ e.kind # "ACCEPTANCE" \/ Accepted'

-----------------------------------------------------------------------------
(* A recorded acceptance stays recorded.                                   *)
LEMMA AcceptedStays ==
  ASSUME IInv, SessStep, Accepted
  PROVE  Accepted'
<1> DEFINE log == sess[Receiver].log
           new == sess'[Receiver].log
<1>1. Receiver \in Users
  BY DEF Users
<1>2. LogStep(log, new)
  BY <1>1 DEF SessStep, LegalChange
<1>3. log \in Seq(Envelopes)
  BY <1>1 DEF IInv, SessOK, Stored, Sessions
<1>4. PICK i \in DOMAIN log : log[i].actor = Receiver /\ log[i].kind = "ACCEPTANCE"
  BY DEF Accepted
<1>5. i \in DOMAIN new /\ new[i] = log[i]
  <2> HIDE DEF log, new
  <2>1. CASE new = log
    BY <2>1
  <2>2. CASE new # log
    <3>1. PICK e \in Envelopes : new = Append(log, e)
      BY <1>2, <2>2 DEF LogStep
    <3>2. /\ new \in Seq(Envelopes) /\ Len(new) = Len(log) + 1
          /\ \A j \in 1 .. Len(log) : new[j] = log[j]
      BY <1>3, <3>1, AppendProperties
    <3> QED BY <1>3, <3>2
  <2> QED BY <2>1, <2>2
<1> QED BY <1>4, <1>5 DEF Accepted

(* The acceptance the invited owner's node appends is a record of it.      *)
LEMMA AppendedIsAccepted ==
  ASSUME IInv, NEW e \in Envelopes, e.actor = Receiver, e.kind = "ACCEPTANCE",
         sess'[Receiver].log = Append(sess[Receiver].log, e)
  PROVE  Accepted'
<1> DEFINE log == sess[Receiver].log
<1>1. log \in Seq(Envelopes)
  BY DEF IInv, SessOK, Stored, Sessions, Users
<1>2. /\ Len(Append(log, e)) = Len(log) + 1 /\ Append(log, e)[Len(log) + 1] = e
      /\ Append(log, e) \in Seq(Envelopes)
  BY <1>1, AppendProperties
<1>3. Len(log) + 1 \in DOMAIN Append(log, e)
  <2>1. Len(log) \in Nat
    BY <1>1
  <2> QED BY <1>2, <2>1
<1> QED BY <1>2, <1>3 DEF Accepted

(* The two facts about a step are what the invariant needs.                *)
LEMMA AInvStep ==
  ASSUME IInv, AInv, SessStep, NoneStarted, NoneSent
  PROVE  AInv'
<1>1. Accepted => Accepted'
  BY AcceptedStays
<1>2. NeverSilentlyActivated <=> \A n \in Users : sess[n].status \in UnderWay => Accepted
  BY DEF NeverSilentlyActivated, Accepted
<1>3. \A n \in Users : sess'[n].status \in UnderWay => Accepted'
  BY <1>1, <1>2 DEF NoneStarted, AInv
<1>4. NeverSilentlyActivated'
  BY <1>3 DEF NeverSilentlyActivated, Accepted
<1>5. AcceptanceRecorded'
  BY <1>1 DEF AcceptanceRecorded, NoneSent, AInv
<1> QED BY <1>4, <1>5 DEF AInv

-----------------------------------------------------------------------------
(* What travels after a step                                               *)

CallsForwarded ==
  \A n \in Users, t \in Threads : call'[n][t].op \in SendOps => Forwarded(call'[n][t].env)

QueuesForwarded == \A n \in Users : \A row \in queue'[n] : Forwarded(row.env)

MailForwarded == \A n \in Users : \A i \in DOMAIN mailbox'[n] : Forwarded(mailbox'[n][i])

(* Everything that travels is in one of the three places.                  *)
LEMMA AllForwarded ==
  ASSUME CallsForwarded, QueuesForwarded, MailForwarded
  PROVE  NoneSent
  BY DEF CallsForwarded, QueuesForwarded, MailForwarded, NoneSent, Travels, Forwarded

(* A call that goes on, a row that stays and mail that waits travelled     *)
(* before.                                                                 *)
LEMMA CallsKept ==
  ASSUME UNCHANGED call
  PROVE  CallsForwarded
  BY DEF CallsForwarded, Forwarded, Travels

(* The same of the queues.                                                 *)
LEMMA QueuesKept ==
  ASSUME UNCHANGED queue
  PROVE  QueuesForwarded
  BY DEF QueuesForwarded, Forwarded, Travels

(* The same of the mailboxes.                                              *)
LEMMA MailKeptForwarded ==
  ASSUME UNCHANGED mailbox
  PROVE  MailForwarded
  BY DEF MailForwarded, Forwarded, Travels

(* One thread moves on.                                                    *)
LEMMA CallMoves ==
  ASSUME IInv, NEW n \in Users, NEW t \in Threads, NEW c \in HonestCalls, Becomes(n, t, c),
         c.op \in SendOps => Forwarded(c.env)
  PROVE  CallsForwarded
<1>1. /\ call'[n][t] = c
      /\ \A u \in Threads : u # t => call'[n][u] = call[n][u]
      /\ \A m \in Users \ {n} : call'[m] = call[m]
  BY BecomesCall DEF IInv
<1>2. \A m \in Users, u \in Threads :
        call[m][u].op \in SendOps => Forwarded(call[m][u].env)
  BY DEF Forwarded, Travels
<1> QED BY <1>1, <1>2 DEF CallsForwarded

(* One row is added or changes its state.                                  *)
LEMMA RowMoves ==
  ASSUME IInv, NEW n \in Users, NEW e, Forwarded(e),
         \/ Enqueue(n, e)
         \/ \E state \in RowStates : SetRow(n, e, state)
  PROVE  QueuesForwarded
<1>1. \A m \in Users : \A row \in queue[m] : Forwarded(row.env)
  BY DEF Forwarded, Travels
<1>2. \A m \in Users : \A row \in queue'[m] : row \in queue[m] \/ row.env = e
  BY DEF IInv, QueueOK, Enqueue, SetRow, PendingRow
<1> QED BY <1>1, <1>2 DEF QueuesForwarded

(* One envelope is put into a mailbox.                                     *)
LEMMA MailArrives ==
  ASSUME IInv, NEW n \in Users, NEW e \in HonestEnvelopes, Forwarded(e), Deposit(n, e)
  PROVE  MailForwarded
<1>1. \A m \in Users : \A i \in DOMAIN mailbox[m] : Forwarded(mailbox[m][i])
  BY DEF Forwarded, Travels
<1> DEFINE box == mailbox[Peer(n)]
<1>2. Peer(n) \in Users
  BY DEF Peer, Users
<1>3. box \in Seq(HonestEnvelopes)
  BY <1>2 DEF IInv, MailOK
<1>4. mailbox' = [mailbox EXCEPT ![Peer(n)] = Append(box, e)]
  BY DEF Deposit
<1>5. \A m \in Users : m # Peer(n) => mailbox'[m] = mailbox[m]
  BY <1>4 DEF IInv, MailOK
<1>6. mailbox'[Peer(n)] = Append(box, e)
  BY <1>2, <1>4 DEF IInv, MailOK
<1>7. \A i \in DOMAIN Append(box, e) :
        Append(box, e)[i] = e \/ (i \in DOMAIN box /\ Append(box, e)[i] = box[i])
  <2> HIDE DEF box
  <2> QED BY <1>3
<1>8. \A i \in DOMAIN mailbox'[Peer(n)] : Forwarded(mailbox'[Peer(n)][i])
  <2>1. \A i \in DOMAIN box : Forwarded(box[i])
    BY <1>1, <1>2
  <2> HIDE DEF box
  <2> QED BY <1>6, <1>7, <2>1
<1> QED BY <1>1, <1>5, <1>8 DEF MailForwarded

(* One envelope is taken out of a mailbox.                                 *)
LEMMA MailLeaves ==
  ASSUME IInv, NEW n \in Users, NEW pos \in DOMAIN mailbox[n],
         mailbox' = [mailbox EXCEPT ![n] = RemoveAt(mailbox[n], pos)]
  PROVE  MailForwarded
<1>1. \A m \in Users : \A i \in DOMAIN mailbox[m] : Forwarded(mailbox[m][i])
  BY DEF Forwarded, Travels
<1> DEFINE box == mailbox[n]
           rest == RemoveAt(box, pos)
<1>2. box \in Seq(HonestEnvelopes) /\ pos \in DOMAIN box /\ rest = RemoveAt(box, pos)
  BY DEF IInv, MailOK
<1>3. \A i \in DOMAIN rest : \E k \in DOMAIN box : rest[i] = box[k]
  <2> HIDE DEF box, rest
  <2>1. /\ rest \in Seq(HonestEnvelopes) /\ Len(rest) = Len(box) - 1
        /\ \A i \in DOMAIN rest : \E k \in DOMAIN box : rest[i] = box[k]
    BY <1>2, RemoveAtType
  <2> QED BY <2>1
<1>4. mailbox'[n] = rest /\ \A m \in Users : m # n => mailbox'[m] = mailbox[m]
  BY DEF IInv, MailOK
<1>5. \A i \in DOMAIN box : Forwarded(box[i])
  BY <1>1
<1> HIDE DEF box, rest
<1> QED BY <1>1, <1>3, <1>4, <1>5 DEF MailForwarded

-----------------------------------------------------------------------------
(* Which sessions a step brings under way                                  *)

(* A step that sets one session.                                           *)
LEMMA SetStarts ==
  ASSUME IInv, NEW n \in Users, NEW x, SetSession(n, x),
         x.status \in UnderWay => sess[n].status \in UnderWay \/ Accepted'
  PROVE  NoneStarted
  BY DEF IInv, SessOK, SetSession, NoneStarted

(* No node command brings a session under way, ...                         *)
LEMMA NodeCommandStarts ==
  ASSUME IInv, NEW n \in Users, sess[n].status # "none",
         NEW target \in {"queued", "delivered", "failed", "expired",
                         "awaiting_owner_approval"},
         NodeCommand(n, target)
  PROVE  NoneStarted
<1> DEFINE t == ApplyNodeCommand(sess[n], target)
<1>1. SetSession(n, t) /\ sess[n] \in Stored
  BY DEF NodeCommand, IInv, SessOK
<1>2. t = ApplyNodeCommand(sess[n], target)
  OBVIOUS
<1> HIDE DEF t
<1>3. t.status \in UnderWay => sess[n].status \in UnderWay
  BY <1>1, <1>2, NodeCommandEffect
<1> QED BY <1>1, <1>3, SetStarts

(* ... no end of a delivery, ...                                           *)
LEMMA AfterSendStarts ==
  ASSUME IInv, NEW n \in Users, NEW c, AfterSend(n, c)
  PROVE  NoneStarted
<1>1. CASE c.op = "tag_in"
  <2> DEFINE t == [sess[n] EXCEPT !.agent[n] = c.env.body]
  <2>1. SetSession(n, t)
    BY <1>1 DEF AfterSend
  <2>2. t.status = sess[n].status
    BY DEF IInv, SessOK, Stored, Sessions
  <2> HIDE DEF t
  <2> QED BY <2>1, <2>2, SetStarts
<1>2. CASE c.op # "tag_in"
  BY <1>2 DEF AfterSend, NoneStarted
<1> QED BY <1>1, <1>2

(* ... and no ingest of an envelope that travels or of another kind.       *)
LEMMA IngestStarts ==
  ASSUME IInv, NEW n \in Users, NEW e \in HonestEnvelopes, Accepted' \/ e.kind # "ACCEPTANCE",
         SetSession(n, IngestAt(n, e).sess)
  PROVE  NoneStarted
<1>1. IngestLegal(sess[n], e, sess'[n])
  BY IngestStep DEF IInv
<1>2. sess'[n].status \in UnderWay => sess[n].status \in UnderWay \/ Accepted'
  BY <1>1 DEF IngestLegal
<1>3. \A m \in Users : m # n => sess'[m] = sess[m]
  BY DEF SetSession, IInv, SessOK
<1> QED BY <1>2, <1>3 DEF NoneStarted

-----------------------------------------------------------------------------
(* The actions                                                             *)

(* An owner command that sends a message: the acceptance it sends, if it   *)
(* is one, is recorded first.                                              *)
LEMMA SendAccepts ==
  ASSUME IInv, NEW n \in Users, NEW op, NEW agent, NEW kind, NEW body,
         Sendable(op, agent, kind, body), kind = "ACCEPTANCE" => n = Receiver,
         SendSessionMessage(n, op, agent, kind, body)
  PROVE  NoneStarted /\ NoneSent
<1> DEFINE e == NextEnvelope(n, sess[n], agent, kind, body)
           r == IngestAt(n, e)
<1>1. /\ sess[n].status # "none" /\ HasRoom(n) /\ SetSession(n, r.sess)
      /\ UNCHANGED <<due, queue, pending, mailbox>>
      /\ UNCHANGED call \/ (r.ok /\ Becomes(n, "fg", Posting(op, e)))
  BY DEF SendSessionMessage, Exists
<1>2. /\ e \in HonestEnvelopes /\ e.kind = kind /\ e.actor = n
      /\ e.seq = LastSequence(sess[n].log, n) + 1
  BY <1>1, OwnEnvelope DEF Sendable, IInv
<1>3. e \in Envelopes /\ sess[n] \in Stored
  BY <1>2 DEF HonestEnvelopes, IInv, SessOK
<1>4. r = IngestEnvelope(n, sess[n], due[n], e)
  BY DEF IngestAt
<1> HIDE DEF e, r
<1>5. sess'[n] = r.sess /\ \A m \in Users : m # n => sess'[m] = sess[m]
  BY <1>1 DEF SetSession, IInv, SessOK
<1>6. IngestLegal(sess[n], e, sess'[n])
  BY <1>1, <1>2, IngestStep DEF IInv, r
<1>7. e.kind = "ACCEPTANCE" /\ sess'[n].log = Append(sess[n].log, e) => Accepted'
  BY <1>2, <1>3, AppendedIsAccepted
<1>8. NoneStarted
  BY <1>5, <1>6, <1>7 DEF NoneStarted, IngestLegal
<1>9. r.ok => sess'[n].log = Append(sess[n].log, e)
  <2>1. e.seq = LastSequence(sess[n].log, e.actor) + 1
    BY <1>2
  <2>2. AcknowledgedIsStored(n, sess[n], due[n], e)
    BY <1>1, <1>2, <1>3, <2>1, OwnIngestStores
  <2> QED BY <1>4, <1>5, <2>2 DEF AcknowledgedIsStored
<1>10. CallsForwarded
  <2>1. CASE UNCHANGED call
    BY <2>1, CallsKept
  <2>2. CASE r.ok /\ Becomes(n, "fg", Posting(op, e))
    <3>1. Forwarded(e)
      BY <1>7, <1>9, <2>2 DEF Forwarded
    <3>2. Posting(op, e) \in HonestCalls /\ Posting(op, e).env = e
      BY <1>2, NextCalls DEF Sendable, Posting
    <3> QED BY <2>2, <3>1, <3>2, CallMoves DEF Threads
  <2> QED BY <1>1, <2>1, <2>2
<1>11. NoneSent
  BY <1>1, <1>10, QueuesKept, MailKeptForwarded, AllForwarded
<1> QED BY <1>8, <1>11

(* dispatch_session.                                                       *)
LEMMA DispatchAccepts ==
  ASSUME IInv, Dispatch
  PROVE  NoneStarted /\ NoneSent
<1>1. PICK agent \in Roster[Initiator], requested \in Roster[Receiver] \cup {NoAgent} :
        LET e == NextEnvelope(Initiator, NoSession, agent, "TASK_REQUEST", requested)
        IN  /\ SetSession(Initiator, IngestAt(Initiator, e).sess)
            /\ Becomes(Initiator, "fg", Posting("dispatch", e))
  BY DEF Dispatch
<1> DEFINE e == NextEnvelope(Initiator, NoSession, agent, "TASK_REQUEST", requested)
<1>2. e \in HonestEnvelopes /\ e.kind = "TASK_REQUEST"
  BY DispatchEnvelope
<1>3. /\ SetSession(Initiator, IngestAt(Initiator, e).sess)
      /\ Becomes(Initiator, "fg", Posting("dispatch", e))
  BY <1>1
<1> HIDE DEF e
<1>4. Initiator \in Users /\ "fg" \in Threads
  BY DEF Users, Threads
<1>5. NoneStarted
  BY <1>2, <1>3, <1>4, IngestStarts
<1>6. Posting("dispatch", e) \in HonestCalls /\ Posting("dispatch", e).env = e
  BY <1>2, NextCalls DEF Posting
<1>7. CallsForwarded
  BY <1>2, <1>3, <1>4, <1>6, CallMoves DEF Forwarded
<1>8. UNCHANGED <<queue, mailbox>>
  BY DEF Dispatch
<1> QED BY <1>5, <1>7, <1>8, QueuesKept, MailKeptForwarded, AllForwarded

(* Owner commands that send nothing.                                       *)
LEMMA QuietCommandAccepts ==
  ASSUME IInv, NEW n \in Users,
         \/ Pause(n) \/ Resume(n) \/ TurnExhausted(n) \/ Cancel(n)
         \/ \E decision \in {"approve", "deny"} : DecideApproval(n, decision)
  PROVE  NoneStarted /\ NoneSent
<1>1. UNCHANGED <<queue, mailbox, call>>
  BY DEF Pause, Resume, TurnExhausted, Cancel, DecideApproval
<1>2. NoneSent
  BY <1>1, CallsKept, QueuesKept, MailKeptForwarded, AllForwarded
<1>3. CASE Cancel(n)
  <2> DEFINE e == CancelEnvelope(n)
  <2>1. /\ sess[n].status # "none" /\ HasRoom(n)
        /\ SetSession(n, IngestAt(n, e).sess)
    BY <1>3 DEF Cancel, Exists
  <2>2. sess[n].agent[Initiator] \in AgentIds
    BY <2>1 DEF IInv, SessOK, Stored
  <2>3. e \in HonestEnvelopes /\ e.kind = "CANCEL"
    <3>1. e = NextEnvelope(n, sess[n], sess[n].agent[Initiator], "CANCEL", "cancel")
      BY DEF CancelEnvelope
    <3> HIDE DEF e
    <3>2. "CANCEL" \in Kinds /\ "cancel" \in Bodies \cup AgentIds \cup Texts
      BY KindsDef DEF Texts
    <3> QED BY <2>1, <2>2, <3>1, <3>2, OwnEnvelope DEF IInv
  <2> HIDE DEF e
  <2>4. NoneStarted
    BY <2>1, <2>3, IngestStarts
  <2> QED BY <1>2, <2>4
<1>4. CASE ~Cancel(n)
  <2>1. sess[n].status \in UnderWay
    BY <1>4, PauseResumeInv, DecideApprovalInv
  <2>2. \E x : SetSession(n, x)
    BY <1>4 DEF Pause, Resume, TurnExhausted, OwnerStatusEvent, DecideApproval
  <2>3. NoneStarted
    BY <2>1, <2>2, SetStarts
  <2> QED BY <1>2, <2>3
<1> QED BY <1>3, <1>4

(* Agent turns: none of their messages is an acceptance.                   *)
LEMMA TurnAccepts ==
  ASSUME IInv, NEW n \in Users,
         \/ TurnInvoke(n) \/ TurnWithoutMessage(n) \/ TurnFails(n) \/ TurnNeedsApproval(n)
         \/ \E kind \in TurnKinds, body \in Bodies : TurnMessage(n, kind, body)
  PROVE  NoneStarted /\ NoneSent
<1>1. UNCHANGED mailbox
  BY DEF TurnInvoke, TurnWithoutMessage, TurnFails, TurnNeedsApproval, TurnMessage
<1>2. ~TurnInvoke(n) => Invoked(n)
  BY DEF TurnWithoutMessage, TurnFails, TurnNeedsApproval, TurnMessage
<1>3. CallsForwarded
  <2>1. CASE TurnInvoke(n)
    <3> DEFINE c == [op |-> "turn", agent |-> OwnAgent(n)]
    <3>1. Becomes(n, "turn", c)
      BY <2>1 DEF TurnInvoke
    <3>2. c \in HonestCalls /\ c.op \notin SendOps
      BY OwnAgentType DEF IInv, HonestCalls, SendOps
    <3> HIDE DEF c
    <3> QED BY <3>1, <3>2, CallMoves DEF Threads
  <2>2. CASE ~TurnInvoke(n)
    <3>1. Becomes(n, "turn", Idle)
      BY <1>2, <2>2, InvokedFacts
    <3>2. Idle \in HonestCalls /\ Idle.op \notin SendOps
      BY NextCalls DEF Idle, SendOps
    <3> QED BY <3>1, <3>2, CallMoves DEF Threads
  <2> QED BY <2>1, <2>2
<1>4. ASSUME NEW kind \in TurnKinds, NEW body \in Bodies, TurnMessage(n, kind, body)
      PROVE  NoneStarted /\ QueuesForwarded
  <2> DEFINE e == NextEnvelope(n, sess[n], call[n]["turn"].agent, kind, body)
  <2>1. /\ Invoked(n) /\ HasRoom(n) /\ SetSession(n, IngestAt(n, e).sess) /\ Enqueue(n, e)
    BY <1>4 DEF TurnMessage
  <2>2. call[n]["turn"].agent \in AgentIds
    BY <2>1, InvokedFacts
  <2>3. /\ kind \in Kinds /\ kind # "TASK_REQUEST"
        /\ kind \notin {"ACCEPTANCE", "PARTICIPANT_CHANGED"}
    BY TurnKindsAssumption, KindsDef
  <2>4. e = NextEnvelope(n, sess[n], call[n]["turn"].agent, kind, body)
    OBVIOUS
  <2> HIDE DEF e
  <2>5. e \in HonestEnvelopes /\ e.kind = kind
    BY <2>1, <2>2, <2>3, <2>4, OwnEnvelope DEF IInv
  <2>6. NoneStarted
    BY <2>1, <2>3, <2>5, IngestStarts
  <2>7. Forwarded(e)
    BY <2>3, <2>5 DEF Forwarded
  <2> QED BY <2>1, <2>6, <2>7, RowMoves
<1>5. CASE \E kind \in TurnKinds, body \in Bodies : TurnMessage(n, kind, body)
  BY <1>1, <1>3, <1>4, <1>5, MailKeptForwarded, AllForwarded
<1>6. CASE TurnInvoke(n) \/ TurnWithoutMessage(n) \/ TurnFails(n) \/ TurnNeedsApproval(n)
  <2>1. UNCHANGED queue
    BY <1>6 DEF TurnInvoke, TurnWithoutMessage, TurnFails, TurnNeedsApproval
  <2>2. CASE TurnInvoke(n) \/ TurnWithoutMessage(n)
    <3>1. UNCHANGED sess
      BY ZenonT(30), <2>2 DEF TurnInvoke, TurnWithoutMessage
    <3> QED BY <1>1, <1>3, <2>1, <3>1, QueuesKept, MailKeptForwarded, AllForwarded
      DEF NoneStarted
  <2>3. CASE TurnFails(n) \/ TurnNeedsApproval(n)
    <3>1. NodeCommand(n, "failed") \/ NodeCommand(n, "awaiting_owner_approval")
      BY <2>3 DEF TurnFails, TurnNeedsApproval
    <3>2. sess[n].status # "none"
      BY <2>3, InvokedFacts DEF TurnFails, TurnNeedsApproval
    <3>3. NoneStarted
      BY <3>1, <3>2, NodeCommandStarts
    <3> QED BY <1>1, <1>3, <2>1, <3>3, QueuesKept, MailKeptForwarded, AllForwarded
  <2> QED BY <1>6, <2>2, <2>3
<1> QED BY <1>5, <1>6

(* Deliveries hand on what they hold, which travels already.               *)
LEMMA DeliveryAccepts ==
  ASSUME IInv, AInv, SessStep, NEW n \in Users, NEW t \in Threads, Delivery(n, t)
  PROVE  NoneStarted /\ NoneSent
<1> DEFINE c == call[n][t]
<1>1. PICK p \in {"post", "ok", "rejected", "relay"} : Calling(n, t, p)
  BY DEF Delivery, PostHandled, PostReplyLost, PostUnreachable, PostAccepted,
         PostRejected, RelayAccepted, RelayUnavailable
<1>2. c \in Sendings /\ c.env \in HonestEnvelopes /\ sess[n].status # "none"
  BY <1>1, CallingFacts DEF IInv
<1>3. Travels(c.env)
  <2>1. c.op \in SendOps
    BY <1>2 DEF Sendings
  <2> QED BY <2>1 DEF Travels
<1>4. Forwarded(c.env)
  BY <1>3 DEF Forwarded
<1>5. Accepted' \/ c.env.kind # "ACCEPTANCE"
  BY <1>3, AcceptedStays DEF AInv, AcceptanceRecorded
<1>6. \/ UNCHANGED sess \/ SetSession(Peer(n), IngestAt(Peer(n), c.env).sess)
      \/ \E target \in {"queued", "delivered", "failed"} : NodeCommand(n, target)
      \/ AfterSend(n, c)
  BY DEF Delivery, PostHandled, PostReplyLost, PostUnreachable, PostAccepted,
         PostRejected, RelayAccepted, RelayUnavailable
<1>7. \/ UNCHANGED queue \/ Enqueue(n, c.env)
      \/ \E state \in RowStates : SetRow(n, c.env, state)
  BY DEF Delivery, PostHandled, PostReplyLost, PostUnreachable, PostAccepted,
         PostRejected, RelayAccepted, RelayUnavailable, RowStates
<1>8. UNCHANGED mailbox \/ Deposit(n, c.env)
  BY DEF Delivery, PostHandled, PostReplyLost, PostUnreachable, PostAccepted,
         PostRejected, RelayAccepted, RelayUnavailable
<1>9. \/ Becomes(n, t, Idle)
      \/ \E q \in {"ok", "rejected", "relay"} : Becomes(n, t, [c EXCEPT !.phase = q])
  BY DEF Delivery, PostHandled, PostReplyLost, PostUnreachable, PostAccepted,
         PostRejected, RelayAccepted, RelayUnavailable, Finish, Phase
<1> HIDE DEF c
<1>10. NoneStarted
  <2>1. Peer(n) \in Users
    BY DEF Peer, Users
  <2>2. UNCHANGED sess => NoneStarted
    BY DEF NoneStarted
  <2>3. SetSession(Peer(n), IngestAt(Peer(n), c.env).sess) => NoneStarted
    BY <1>2, <1>5, <2>1, IngestStarts
  <2>4. (\E target \in {"queued", "delivered", "failed"} : NodeCommand(n, target)) => NoneStarted
    BY <1>2, NodeCommandStarts
  <2>5. AfterSend(n, c) => NoneStarted
    BY AfterSendStarts
  <2> QED BY <1>6, <2>2, <2>3, <2>4, <2>5
<1>11. CallsForwarded
  <2>1. Becomes(n, t, Idle) => CallsForwarded
    <3>1. Idle \in HonestCalls /\ Idle.op \notin SendOps
      BY NextCalls DEF Idle, SendOps
    <3> QED BY <3>1, CallMoves
  <2>2. ASSUME NEW q \in {"ok", "rejected", "relay"}, Becomes(n, t, [c EXCEPT !.phase = q])
        PROVE  CallsForwarded
    <3> DEFINE d == [c EXCEPT !.phase = q]
    <3>1. d \in HonestCalls
      BY ZenonT(30), <1>2, NextCalls
    <3>2. d.env = c.env
      BY <1>2 DEF Sendings
    <3>3. Becomes(n, t, d)
      BY <2>2
    <3> HIDE DEF d
    <3> QED BY <1>4, <3>1, <3>2, <3>3, CallMoves
  <2> QED BY <1>9, <2>1, <2>2
<1>12. QueuesForwarded
  BY <1>4, <1>7, QueuesKept, RowMoves
<1>13. MailForwarded
  BY <1>2, <1>4, <1>8, MailKeptForwarded, MailArrives
<1> QED BY <1>10, <1>11, <1>12, <1>13, AllForwarded

(* The background loop retries what is queued and ingests what is in the   *)
(* mailbox, all of which travels already.                                  *)
LEMMA BackgroundAccepts ==
  ASSUME IInv, AInv, SessStep, NEW n \in Users, Background(n)
  PROVE  NoneStarted /\ NoneSent
<1>1. ASSUME NEW row \in queue[n], RetryRow(n, row) PROVE NoneStarted /\ NoneSent
  <2>1. row.env \in HonestEnvelopes /\ sess[n].status # "none"
    BY DEF IInv, QueueOK, NothingBeforeSession
  <2>2. Forwarded(row.env)
    BY DEF Forwarded, Travels
  <2>3. UNCHANGED sess \/ NodeCommand(n, "expired")
    BY <1>1 DEF RetryRow
  <2>4. NoneStarted
    <3>1. UNCHANGED sess => NoneStarted
      BY DEF NoneStarted
    <3> QED BY <2>1, <2>3, <3>1, NodeCommandStarts
  <2>5. UNCHANGED queue \/ \E state \in RowStates : SetRow(n, row.env, state)
    BY <1>1 DEF RetryRow, RowStates
  <2>6. UNCHANGED call \/ Becomes(n, "bg", Posting("retry", row.env))
    BY <1>1 DEF RetryRow
  <2>7. Posting("retry", row.env) \in HonestCalls /\ Posting("retry", row.env).env = row.env
    BY <2>1, NextCalls DEF Posting
  <2>8. CallsForwarded
    BY <2>2, <2>6, <2>7, CallsKept, CallMoves DEF Threads
  <2>9. QueuesForwarded
    BY <2>2, <2>5, QueuesKept, RowMoves
  <2>10. UNCHANGED mailbox
    BY <1>1 DEF RetryRow
  <2> QED BY <2>4, <2>8, <2>9, <2>10, MailKeptForwarded, AllForwarded
<1>2. CASE PollFetch(n)
  <2> DEFINE c == [op |-> "poll", pos |-> 1, left |-> Len(mailbox[n])]
  <2>1. /\ mailbox[n] # << >> /\ Becomes(n, "bg", c) /\ UNCHANGED <<sess, queue, mailbox>>
    BY <1>2 DEF PollFetch
  <2>2. Len(mailbox[n]) \in Nat \ {0}
    BY <2>1 DEF IInv, MailOK
  <2>3. c \in HonestCalls /\ c.op \notin SendOps
    BY <2>2 DEF HonestCalls, SendOps
  <2> HIDE DEF c
  <2>4. CallsForwarded
    BY <2>1, <2>3, CallMoves DEF Threads
  <2> QED BY <2>1, <2>4, QueuesKept, MailKeptForwarded, AllForwarded DEF NoneStarted
<1>3. CASE PollMessage(n)
  <2>1. PICK pos \in DOMAIN mailbox[n] : IngestLegal(sess[n], mailbox[n][pos], sess'[n])
    BY <1>3, PollMessageInv
  <2>2. mailbox[n][pos].kind = "ACCEPTANCE" => Accepted'
    BY AcceptedStays DEF AInv, AcceptanceRecorded, Travels
  <2>3. NoneStarted
    <3>1. \A m \in Users : m # n => sess'[m] = sess[m]
      BY <1>3 DEF PollMessage, SetSession, IInv, SessOK
    <3> QED BY <2>1, <2>2, <3>1 DEF NoneStarted, IngestLegal
  <2>4. IInv' /\ UNCHANGED queue
    BY ZenonT(30), <1>3, PollMessageInv DEF PollMessage
  <2>5. PICK c : Becomes(n, "bg", c)
    BY ZenonT(30), <1>3 DEF PollMessage, Polled, Finish
  <2>6. CallsForwarded
    <3>1. /\ \A u \in Threads : u # "bg" => call'[n][u] = call[n][u]
          /\ \A m \in Users \ {n} : call'[m] = call[m]
      BY <2>5 DEF Becomes, IInv, CallOK
    <3>2. call'[n]["bg"].op \in {"idle", "poll"}
      BY <1>3 DEF PollMessage, Polled, Finish, Becomes, Idle, IInv, CallOK, Threads
    <3>3. \A m \in Users, u \in Threads :
            call[m][u].op \in SendOps => Forwarded(call[m][u].env)
      BY DEF Forwarded, Travels
    <3> QED BY <3>1, <3>2, <3>3 DEF CallsForwarded, SendOps
  <2>7. MailForwarded
    <3>1. \/ UNCHANGED mailbox
          \/ mailbox' = [mailbox EXCEPT ![n] = RemoveAt(mailbox[n], call[n]["bg"].pos)]
      BY ZenonT(30), <1>3 DEF PollMessage
    <3>2. call[n]["bg"].pos \in DOMAIN mailbox[n]
      BY ZenonT(30), <1>3, PollFacts DEF PollMessage
    <3> QED BY <3>1, <3>2, MailKeptForwarded, MailLeaves
  <2> QED BY <2>3, <2>4, <2>6, <2>7, QueuesKept, AllForwarded
<1> QED BY <1>1, <1>2, <1>3 DEF Background

(* The environment.                                                        *)
LEMMA EnvironmentAccepts ==
  ASSUME IInv, NEW n \in Users,
         RelayExpiry(n) \/ Deadline(n) \/ \E t \in Threads : Crash(n, t)
  PROVE  NoneStarted /\ NoneSent
<1>1. UNCHANGED <<sess, queue>>
  BY DEF RelayExpiry, Deadline, Crash
<1>2. NoneStarted /\ QueuesForwarded
  BY <1>1, QueuesKept DEF NoneStarted
<1>3. CallsForwarded
  <2>1. UNCHANGED call \/ \E t \in Threads : Becomes(n, t, Idle)
    BY DEF RelayExpiry, Deadline, Crash, Finish
  <2>2. Idle \in HonestCalls /\ Idle.op \notin SendOps
    BY NextCalls DEF Idle, SendOps
  <2> QED BY <2>1, <2>2, CallsKept, CallMoves
<1>4. MailForwarded
  <2>1. \/ UNCHANGED mailbox
        \/ \E pos \in DOMAIN mailbox[n] :
             mailbox' = [mailbox EXCEPT ![n] = RemoveAt(mailbox[n], pos)]
    BY DEF RelayExpiry, Deadline, Crash
  <2> QED BY <2>1, MailKeptForwarded, MailLeaves
<1> QED BY <1>2, <1>3, <1>4, AllForwarded

-----------------------------------------------------------------------------
(* No step starts a session or sends an acceptance ahead of its record.    *)
LEMMA NextAccepts ==
  ASSUME IInv, AInv, SessStep, Next
  PROVE  NoneStarted /\ NoneSent
<1>1. CASE Dispatch
  BY <1>1, DispatchAccepts
<1>2. CASE Responses
  <2>1. PICK agent \in Roster[Receiver] \cup {Receiver} :
          Accept(agent) \/ Decline(agent) \/ Clarify(agent)
    BY <1>2 DEF Responses
  <2>2. Receiver \in Users
    BY DEF Users
  <2>3. /\ Sendable("send", agent, "ACCEPTANCE", agent)
        /\ Sendable("send", agent, "DECLINE", "declined")
        /\ Sendable("send", agent, "CLARIFICATION", "clarify")
    BY CommandsSendable DEF IInv
  <2> QED BY <2>1, <2>2, <2>3, SendAccepts DEF Accept, Decline, Clarify
<1>3. ASSUME NEW n \in Users, Commands(n) PROVE NoneStarted /\ NoneSent
  <2>1. CASE HumanMessage(n)
    <3>1. Sendable("send", n, HumanKind(n), "human") /\ HumanKind(n) # "ACCEPTANCE"
      BY CommandsSendable DEF IInv, HumanKind
    <3> QED BY <2>1, <3>1, SendAccepts DEF HumanMessage
  <2>2. ASSUME NEW agent \in Roster[n], TagIn(n, agent) PROVE NoneStarted /\ NoneSent
    <3>1. Sendable("tag_in", OwnAgent(n), "PARTICIPANT_CHANGED", agent)
      BY CommandsSendable DEF IInv
    <3> QED BY <2>2, <3>1, SendAccepts DEF TagIn
  <2>3. CASE \/ Pause(n) \/ Resume(n) \/ Cancel(n)
             \/ \E decision \in {"approve", "deny"} : DecideApproval(n, decision)
    BY <2>3, QuietCommandAccepts
  <2> QED BY <1>3, <2>1, <2>2, <2>3 DEF Commands
<1>4. ASSUME NEW n \in Users, Turns(n) PROVE NoneStarted /\ NoneSent
  BY <1>4, QuietCommandAccepts, TurnAccepts DEF Turns
<1>5. ASSUME NEW n \in Users, Background(n) PROVE NoneStarted /\ NoneSent
  BY <1>5, BackgroundAccepts
<1>6. ASSUME NEW n \in Users, NEW t \in Threads, Delivery(n, t)
      PROVE  NoneStarted /\ NoneSent
  BY <1>6, DeliveryAccepts
<1>7. ASSUME NEW n \in Users, NEW t \in Threads, Crash(n, t) PROVE NoneStarted /\ NoneSent
  BY <1>7, EnvironmentAccepts
<1>8. ASSUME NEW n \in Users, RelayExpiry(n) \/ Deadline(n) PROVE NoneStarted /\ NoneSent
  BY <1>8, EnvironmentAccepts
<1> QED BY <1>1, <1>2, <1>3, <1>4, <1>5, <1>6, <1>7, <1>8 DEF Next

(* No session is accepted, active, waiting, paused or completed on either  *)
(* node before the invited owner's node has recorded that owner's          *)
(* acceptance, whatever is retried, repeated, reordered or lost.           *)
THEOREM NoSilentActivation == Spec => []NeverSilentlyActivated
<1>1. Init => AInv
  <2> SUFFICES ASSUME Init PROVE AInv
    OBVIOUS
  <2>1. \A e : ~Travels(e)
    BY DEF Init, Travels, Idle, SendOps
  <2>2. \A n \in Users : sess[n].status \notin UnderWay
    BY DEF Init, NoSession, UnderWay
  <2> QED BY <2>1, <2>2 DEF AInv, NeverSilentlyActivated, AcceptanceRecorded
<1>2. IInv /\ AInv /\ [Next]_vars => AInv'
  <2> SUFFICES ASSUME IInv, AInv, [Next]_vars PROVE AInv'
    OBVIOUS
  <2>1. SessStep
    BY StepIInv
  <2>2. CASE Next
    BY <2>1, <2>2, NextAccepts, AInvStep
  <2>3. CASE UNCHANGED vars
    <3>1. NoneStarted
      BY <2>3 DEF NoneStarted, vars
    <3>2. NoneSent
      BY <2>3, CallsKept, QueuesKept, MailKeptForwarded, AllForwarded DEF vars
    <3> QED BY <2>1, <3>1, <3>2, AInvStep
  <2> QED BY <2>2, <2>3
<1>3. AInv => NeverSilentlyActivated
  BY DEF AInv
<1> QED BY <1>1, <1>2, <1>3, Inductive, PTL DEF Spec
=============================================================================
