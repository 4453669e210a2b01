----------------------------- MODULE SessionSteps -----------------------------
(***************************************************************************)
(* The inductive invariant of SessionProtocol, and lemmas on what each     *)
(* kind of step does to the stored sessions and to the other variables.    *)
(*                                                                         *)
(* TypeOK is not inductive by itself: that a node command or an owner      *)
(* command finds a row to act on, that a tag-in's payload is an agent and  *)
(* that a poll in progress stays within the mailbox depend on what other   *)
(* steps left behind.  IInv adds those facts.                              *)
(***************************************************************************)
EXTENDS SessionLemmas

(* A leaf that names no prover is tried with SMT, then with Zenon.         *)
USE SMTT(20), ZenonT(20)

RowStates == {"pending", "delivered", "relayed", "failed", "abandoned", "expired"}

SendOps == {"dispatch", "send", "tag_in", "retry"}

(* A delivery in progress, whose payload is of its kind.                   *)
Sendings ==
  {c \in [op : SendOps, env : HonestEnvelopes,
          phase : {"post", "ok", "rejected", "relay"}] :
     c.op = "tag_in" => c.env.kind = "PARTICIPANT_CHANGED"}

HonestCalls ==
  {Idle} \cup Sendings
  \cup [op : {"turn"}, agent : AgentIds]
  \cup [op : {"poll"}, pos : Nat \ {0}, left : Nat \ {0}]

SessOK == sess \in [Users -> Stored]
DueOK == due \in [Users -> BOOLEAN]
QueueOK == queue \in [Users -> SUBSET [env : HonestEnvelopes, state : RowStates]]
PendingOK == pending \in [Users -> 0 .. MaxApprovals]
MailOK == mailbox \in [Users -> Seq(HonestEnvelopes)]
CallOK == call \in [Users -> [Threads -> HonestCalls]]

(* A poll goes through no more mail than there is: nothing but the poll    *)
(* itself removes any meanwhile.                                           *)
PollInRange ==
  \A n \in Users : call[n]["bg"].op = "poll" =>
    call[n]["bg"].pos + call[n]["bg"].left <= Len(mailbox[n]) + 1

(* Before there is a session row, a node has nothing queued, undecided or  *)
(* under way; it may only be polling its inbox.                            *)
NothingBeforeSession ==
  \A n \in Users : sess[n].status = "none" =>
    /\ queue[n] = {}
    /\ pending[n] = 0
    /\ \A t \in Threads : call[n][t].op \in {"idle", "poll"}

IInv ==
  /\ SessOK /\ DueOK /\ QueueOK /\ PendingOK /\ MailOK /\ CallOK
  /\ PollInRange
  /\ NothingBeforeSession

-----------------------------------------------------------------------------
(* Every step changes every stored session legally                         *)

SessStep ==
  /\ sess' \in [Users -> Stored]
  /\ \A n \in Users : LegalChange(sess[n], sess'[n])

(* A step that leaves the sessions alone.                                  *)
LEMMA KeepStep ==
  ASSUME SessOK, UNCHANGED sess
  PROVE  SessStep
<1>1. \A n \in Users : sess[n] \in Stored
  BY DEF SessOK
<1>2. \A n \in Users : LegalChange(sess[n], sess[n])
  BY <1>1 DEF LegalChange, LogStep
<1> QED BY <1>2 DEF SessStep, SessOK

(* A step that changes one session legally.                                *)
LEMMA SetStep ==
  ASSUME SessOK, NEW n \in Users, NEW x, LegalChange(sess[n], x), SetSession(n, x)
  PROVE  SessStep /\ sess'[n] = x
<1>1. \A m \in Users : sess[m] \in Stored
  BY DEF SessOK
<1>2. \A m \in Users : LegalChange(sess[m], sess[m])
  BY <1>1 DEF LegalChange, LogStep
<1>3. x \in Stored
  BY DEF LegalChange
<1>4. /\ sess' \in [Users -> Stored] /\ sess'[n] = x
      /\ \A m \in Users : m # n => sess'[m] = sess[m]
  BY <1>3 DEF SetSession, SessOK
<1> QED BY <1>2, <1>4 DEF SessStep

(* What the ingest of an honest envelope makes of a node's session.        *)
LEMMA IngestAtEffect ==
  ASSUME NEW n, sess[n] \in Stored, NEW e \in HonestEnvelopes,
         NEW t, t = IngestAt(n, e).sess
  PROVE  IngestLegal(sess[n], e, t)
<1>1. t = IngestEnvelope(n, sess[n], due[n], e).sess
  BY DEF IngestAt
<1> QED BY <1>1, IngestEffect

(* The ingest of an honest envelope, by its own node or by the peer's.     *)
LEMMA IngestStep ==
  ASSUME SessOK, NEW n \in Users, NEW e \in HonestEnvelopes,
         SetSession(n, IngestAt(n, e).sess)
  PROVE  SessStep /\ IngestLegal(sess[n], e, sess'[n])
<1> DEFINE t == IngestAt(n, e).sess
<1>1. sess[n] \in Stored
  BY DEF SessOK
<1>2. IngestLegal(sess[n], e, t)
  BY <1>1, IngestAtEffect
<1> HIDE DEF t
<1>3. SetSession(n, t)
  BY DEF t
<1>4. SessStep /\ sess'[n] = t
  BY <1>2, <1>3, SetStep DEF IngestLegal
<1> QED BY <1>2, <1>4

(* A node command on an existing session.                                  *)
LEMMA NodeCommandStep ==
  ASSUME SessOK, NEW n \in Users, sess[n].status # "none",
         NEW target \in {"queued", "delivered", "failed", "expired",
                         "awaiting_owner_approval"},
         NodeCommand(n, target)
  PROVE  SessStep
<1> DEFINE t == ApplyNodeCommand(sess[n], target)
<1>1. sess[n] \in Stored
  BY DEF SessOK
<1>2. SetSession(n, t)
  BY DEF NodeCommand
<1>3. t = ApplyNodeCommand(sess[n], target)
  OBVIOUS
<1> HIDE DEF t
<1>4. LegalChange(sess[n], t)
  BY <1>1, <1>3, NodeCommandEffect
<1> QED BY <1>2, <1>4, SetStep

(* An owner's own agent is one of the known ids.                           *)
LEMMA OwnAgentType ==
  ASSUME SessOK, NEW n \in Users
  PROVE  OwnAgent(n) \in AgentIds
<1>1. sess[n].agent \in [Users -> AgentIds \cup {NoAgent}]
  BY DEF SessOK, Stored, Sessions
<1>2. OwnAgent(n) = IF sess[n].agent[n] = NoAgent THEN n ELSE sess[n].agent[n]
  BY DEF OwnAgent, ReconstructSessionState
<1> QED BY <1>1, <1>2 DEF AgentIds

(* A thread that is delivering holds an honest envelope of an existing     *)
(* session.                                                                *)
LEMMA CallingFacts ==
  ASSUME CallOK, NothingBeforeSession,
         NEW n \in Users, NEW t \in Threads, NEW p, Calling(n, t, p)
  PROVE  /\ call[n][t] \in Sendings /\ call[n][t].env \in HonestEnvelopes
         /\ call[n][t].phase = p /\ sess[n].status # "none"
<1>1. call[n][t] \in HonestCalls
  BY DEF CallOK
<1>2. call[n][t].op \notin {"idle", "turn", "poll"} /\ call[n][t].phase = p
  BY DEF Calling
<1>3. call[n][t] \in Sendings
  BY <1>1, <1>2 DEF HonestCalls, Idle
<1>4. call[n][t].env \in HonestEnvelopes
  BY <1>3 DEF Sendings
<1> QED BY <1>2, <1>3, <1>4 DEF NothingBeforeSession

(* The last statement of a delivery: a tag-in changes the node's agent.    *)
LEMMA AfterSendStep ==
  ASSUME SessOK, NEW n \in Users, sess[n].status # "none", NEW c \in Sendings,
         AfterSend(n, c)
  PROVE  SessStep
<1>1. CASE c.op = "tag_in"
  <2> DEFINE t == [sess[n] EXCEPT !.agent[n] = c.env.body]
  <2>1. c.env.body \in AgentIds
    BY <1>1 DEF Sendings, HonestEnvelopes, Honest
  <2>2. sess[n] \in Stored
    BY DEF SessOK
  <2>3. SetSession(n, t)
    BY <1>1 DEF AfterSend
  <2>4. t = [sess[n] EXCEPT !.agent[n] = c.env.body]
    OBVIOUS
  <2> HIDE DEF t
  <2>5. LegalChange(sess[n], t)
    BY <2>1, <2>2, <2>4, AgentChange
  <2> QED BY <2>3, <2>5, SetStep
<1>2. CASE c.op # "tag_in"
  BY <1>2, KeepStep DEF AfterSend
<1> QED BY <1>1, <1>2

-----------------------------------------------------------------------------
(* One lemma for each kind of step that touches a session                  *)

Texts == {"declined", "clarify", "human", "owner_paused", "owner_resumed", "cancel"}

(* An envelope a node builds for itself is honest.                         *)
LEMMA OwnEnvelope ==
  ASSUME SessOK, NEW n \in Users, HasRoom(n), NEW agent \in AgentIds, NEW kind \in Kinds,
         NEW body \in Bodies \cup AgentIds \cup Texts, kind # "TASK_REQUEST",
         kind \in {"ACCEPTANCE", "PARTICIPANT_CHANGED"} => body \in AgentIds,
         NEW e, e = NextEnvelope(n, sess[n], agent, kind, body)
  PROVE  /\ e \in HonestEnvelopes /\ e.kind = kind /\ e.actor = n
         /\ e.seq = LastSequence(sess[n].log, n) + 1
<1>1. sess[n] \in Stored /\ LastSequence(sess[n].log, n) < MaxSequence
  BY DEF SessOK, HasRoom
<1>2. /\ e \in Envelopes /\ e.actor = n /\ e.kind = kind /\ e.body = body
      /\ e.seq = LastSequence(sess[n].log, n) + 1
  BY <1>1, NextEnvelopeType DEF Texts
<1> QED BY <1>2 DEF HonestEnvelopes, Honest

(* The parameters send_session_message is called with.                     *)
Sendable(op, agent, kind, body) ==
  /\ op \in {"send", "tag_in"} /\ agent \in AgentIds
  /\ kind \in Kinds \ {"TASK_REQUEST"} /\ body \in Bodies \cup AgentIds \cup Texts
  /\ kind \in {"ACCEPTANCE", "PARTICIPANT_CHANGED"} => body \in AgentIds
  /\ op = "tag_in" => kind = "PARTICIPANT_CHANGED"

(* Each owner command that sends a message sends a sendable one.           *)
LEMMA CommandsSendable ==
  ASSUME SessOK
  PROVE  /\ \A agent \in Roster[Receiver] \cup {Receiver} :
              /\ Sendable("send", agent, "ACCEPTANCE", agent)
              /\ Sendable("send", agent, "DECLINE", "declined")
              /\ Sendable("send", agent, "CLARIFICATION", "clarify")
         /\ \A n \in Users : Sendable("send", n, HumanKind(n), "human")
         /\ \A n \in Users : \A agent \in Roster[n] :
              Sendable("tag_in", OwnAgent(n), "PARTICIPANT_CHANGED", agent)
<1>1. Roster[Receiver] \cup {Receiver} \subseteq AgentIds
  BY RosterAssumption DEF Users, AgentIds
<1>2. \A n \in Users : n \in AgentIds /\ Roster[n] \subseteq AgentIds
  BY RosterAssumption DEF AgentIds
<1>3. \A n \in Users : OwnAgent(n) \in AgentIds
  BY OwnAgentType
<1>4. \A n \in Users : HumanKind(n) \in {"CLARIFICATION", "QUESTION"}
  BY DEF HumanKind
<1> QED BY <1>1, <1>2, <1>3, <1>4, KindsDef DEF Sendable, Texts

(* send_session_message.                                                   *)
LEMMA SendStep ==
  ASSUME SessOK, NEW n \in Users, NEW op, NEW agent, NEW kind, NEW body,
         Sendable(op, agent, kind, body),
         SendSessionMessage(n, op, agent, kind, body)
  PROVE  SessStep
<1> DEFINE e == NextEnvelope(n, sess[n], agent, kind, body)
<1>1. HasRoom(n) /\ SetSession(n, IngestAt(n, e).sess)
  BY DEF SendSessionMessage
<1>2. e \in HonestEnvelopes
  BY <1>1, OwnEnvelope DEF Sendable
<1> HIDE DEF e
<1> QED BY <1>1, <1>2, IngestStep

(* dispatch_session.                                                       *)
LEMMA DispatchEnvelope ==
  ASSUME NEW agent \in Roster[Initiator], NEW requested \in Roster[Receiver] \cup {NoAgent},
         NEW e, e = NextEnvelope(Initiator, NoSession, agent, "TASK_REQUEST", requested)
  PROVE  e \in HonestEnvelopes /\ e.kind = "TASK_REQUEST"
<1>1. agent \in AgentIds /\ requested \in AgentIds \cup {NoAgent}
  BY RosterAssumption DEF AgentIds, Users
<1>2. LastSequence(NoSession.log, Initiator) = 0
  <2>1. EventsOf(<< >>, Initiator) = {}
    BY DEF EventsOf
  <2>2. LastSequence(<< >>, Initiator) = Max({0})
    BY ZenonT(30), <2>1 DEF LastSequence
  <2>3. Max({0}) \in {0}
    <3>1. {0} \in SUBSET (0 .. 0) /\ {0} # {} /\ 0 \in Nat
      OBVIOUS
    <3> QED BY <3>1, MaxIsGreatest
  <2> QED BY <2>2, <2>3 DEF NoSession
<1>3. e = [actor |-> Initiator, agent |-> agent, seq |-> 1,
           kind |-> "TASK_REQUEST", body |-> requested]
  BY <1>2 DEF NextEnvelope
<1>4. e \in Envelopes
  BY <1>1, <1>3, KindsDef, BoundsAssumption DEF Envelopes, Users
<1> QED BY <1>1, <1>3, <1>4 DEF HonestEnvelopes, Honest

(* pause_session, resume_session and the pause of an exhausted turn.       *)
LEMMA OwnerStatusEventStep ==
  ASSUME SessOK, NEW n \in Users, NEW action \in {"owner_pause", "owner_resume"},
         NEW body \in {"owner_paused", "owner_resumed"},
         OwnerStatusEvent(n, action, OwnerCommandTarget[action], body)
  PROVE  SessStep /\ sess[n].status \in UnderWay
<1> DEFINE st == OwnerCommandTarget[action]
           s1 == [sess[n] EXCEPT !.status = st]
           e == NextEnvelope(n, s1, OwnAgent(n), "STATUS_EVENT", body)
           t == IngestEnvelope(n, s1, due[n], e).sess
<1>1. /\ sess[n].status # "none" /\ HasRoom(n)
      /\ OwnerCommandAllowed(sess[n].status, action)
      /\ SetSession(n, t)
  BY DEF OwnerStatusEvent, Exists
<1>2. sess[n] \in Stored /\ OwnAgent(n) \in AgentIds
  BY OwnAgentType DEF SessOK
<1>3. s1.log = sess[n].log
  BY <1>2 DEF Stored, Sessions
<1>4. e = NextEnvelope(n, sess[n], OwnAgent(n), "STATUS_EVENT", body)
  BY <1>3 DEF NextEnvelope
<1>5. e \in HonestEnvelopes
  <2> HIDE DEF e
  <2>1. "STATUS_EVENT" \in Kinds /\ body \in Bodies \cup AgentIds \cup Texts
    BY KindsDef DEF Texts
  <2> QED BY <1>1, <1>2, <1>4, <2>1, OwnEnvelope
<1>6. /\ st = OwnerCommandTarget[action] /\ s1 = [sess[n] EXCEPT !.status = st]
      /\ t = IngestEnvelope(n, s1, due[n], e).sess
  OBVIOUS
<1> HIDE DEF st, s1, e, t
<1>7. LegalChange(sess[n], t) /\ sess[n].status \in UnderWay
  BY <1>1, <1>2, <1>5, <1>6, OwnerStatusEventEffect
<1> QED BY <1>1, <1>7, SetStep

-----------------------------------------------------------------------------
(* The other variables                                                     *)

(* Frame: only node n's queue, approvals and threads change.               *)
OnlyAt(n) ==
  \A m \in Users \ {n} :
    queue'[m] = queue[m] /\ pending'[m] = pending[m] /\ call'[m] = call[m]

(* No poll is begun or advanced, and no mail is lost.                      *)
NoPoll(n) ==
  /\ call'[n]["bg"] = call[n]["bg"] \/ call'[n]["bg"].op # "poll"
  /\ \A m \in Users : Len(mailbox[m]) <= Len(mailbox'[m])

(* The shape of the variables after a step, the sessions aside.            *)
ShapesNext == DueOK' /\ QueueOK' /\ PendingOK' /\ MailOK' /\ CallOK'

(* A thread that is polling has a position and a count.                    *)
LEMMA PollShape ==
  ASSUME NEW c \in HonestCalls, c.op = "poll"
  PROVE  c \in [op : {"poll"}, pos : Nat \ {0}, left : Nat \ {0}]
  BY DEF HonestCalls, Idle, Sendings, SendOps

(* A step of a node that has a session, polling aside, keeps IInv as soon  *)
(* as it keeps the shapes.                                                 *)
LEMMA NodeStep ==
  ASSUME IInv, SessStep, ShapesNext, NEW n \in Users,
         sess[n].status # "none" \/ sess'[n].status # "none",
         OnlyAt(n), NoPoll(n)
  PROVE  IInv'
<1>1. sess'[n].status # "none"
  BY DEF SessStep, LegalChange
<1>2. \A m \in Users : sess'[m].status = "none" => m # n /\ sess[m].status = "none"
  BY <1>1 DEF SessStep, LegalChange
<1>3. NothingBeforeSession'
  BY <1>2 DEF IInv, NothingBeforeSession, OnlyAt
<1>4. ASSUME NEW m \in Users, call'[m]["bg"].op = "poll"
      PROVE  call'[m]["bg"].pos + call'[m]["bg"].left <= Len(mailbox'[m]) + 1
  <2>1. call'[m]["bg"] = call[m]["bg"]
    BY <1>4 DEF OnlyAt, NoPoll
  <2>2. call[m]["bg"] \in HonestCalls
    BY DEF IInv, CallOK, Threads
  <2>3. call[m]["bg"].pos \in Nat /\ call[m]["bg"].left \in Nat
    BY <1>4, <2>1, <2>2, PollShape
  <2>4. call[m]["bg"].pos + call[m]["bg"].left <= Len(mailbox[m]) + 1
    BY <1>4, <2>1 DEF IInv, PollInRange
  <2>5. Len(mailbox[m]) \in Nat /\ Len(mailbox'[m]) \in Nat
    BY DEF IInv, MailOK, ShapesNext
  <2>6. Len(mailbox[m]) <= Len(mailbox'[m])
    BY DEF NoPoll
  <2>7. call[m]["bg"].pos + call[m]["bg"].left <= Len(mailbox'[m]) + 1
    <3>1. \A a, b, k, l \in Nat : a + b <= k + 1 /\ k <= l => a + b <= l + 1
      OBVIOUS
    <3> QED BY <2>3, <2>4, <2>5, <2>6, <3>1, Zenon
  <2> QED BY <2>1, <2>7
<1>5. PollInRange'
  BY <1>4 DEF PollInRange
<1>6. SessOK'
  BY DEF SessStep, SessOK
<1> QED BY <1>3, <1>5, <1>6 DEF IInv, ShapesNext

(* The mailboxes alone, or not even those, stay as they are.               *)
LEMMA MailKept ==
  ASSUME MailOK, UNCHANGED mailbox
  PROVE  MailOK' /\ \A m \in Users : Len(mailbox[m]) <= Len(mailbox'[m])
  BY DEF MailOK

(* An upload lengthens the peer's mailbox.                                 *)
LEMMA DepositMail ==
  ASSUME MailOK, NEW n \in Users, NEW e \in HonestEnvelopes, Deposit(n, e)
  PROVE  MailOK' /\ \A m \in Users : Len(mailbox[m]) <= Len(mailbox'[m])
<1>1. Peer(n) \in Users
  BY DEF Peer, Users
<1>2. \A m \in Users : mailbox[m] \in Seq(HonestEnvelopes)
  BY DEF MailOK
<1>3. /\ Append(mailbox[Peer(n)], e) \in Seq(HonestEnvelopes)
      /\ Len(Append(mailbox[Peer(n)], e)) = Len(mailbox[Peer(n)]) + 1
  BY <1>1, <1>2, AppendProperties
<1>4. mailbox' = [mailbox EXCEPT ![Peer(n)] = Append(mailbox[Peer(n)], e)]
  BY DEF Deposit
<1> QED BY <1>1, <1>2, <1>3, <1>4 DEF MailOK

(* A thread's state is replaced by another of the right shape.             *)
LEMMA BecomesCall ==
  ASSUME CallOK, NEW n \in Users, NEW t \in Threads, NEW c \in HonestCalls,
         Becomes(n, t, c)
  PROVE  /\ CallOK'
         /\ call'[n][t] = c
         /\ \A u \in Threads : u # t => call'[n][u] = call[n][u]
         /\ \A m \in Users \ {n} : call'[m] = call[m]
  BY DEF CallOK, Becomes

(* An ended call, and a call in another phase of its delivery.             *)
LEMMA NextCalls ==
  /\ Idle \in HonestCalls /\ Idle.op # "poll"
  /\ \A c \in Sendings : c \in HonestCalls /\ c.op # "poll"
  /\ \A c \in Sendings : \A p \in {"post", "ok", "rejected", "relay"} :
       [c EXCEPT !.phase = p] \in Sendings
  /\ \A op \in {"dispatch", "send", "retry"} : \A e \in HonestEnvelopes :
       Posting(op, e) \in Sendings
  /\ \A e \in HonestEnvelopes : e.kind = "PARTICIPANT_CHANGED" =>
       Posting("tag_in", e) \in Sendings
  BY DEF HonestCalls, Idle, Sendings, SendOps, Posting

(* A poll that goes on.                                                    *)
LEMMA PollCalls ==
  ASSUME NEW p \in Nat \ {0}, NEW k \in Nat \ {0},
         NEW c, c = [op |-> "poll", pos |-> p, left |-> k]
  PROVE  c \in HonestCalls /\ c.op = "poll" /\ c.pos = p /\ c.left = k
BY DEF HonestCalls

(* Queue rows.                                                             *)
LEMMA QueueRows ==
  ASSUME QueueOK, NEW n \in Users, NEW e \in HonestEnvelopes,
         \/ Enqueue(n, e)
         \/ \E state \in RowStates : SetRow(n, e, state)
  PROVE  QueueOK' /\ \A m \in Users \ {n} : queue'[m] = queue[m]
  BY DEF QueueOK, Enqueue, SetRow, PendingRow, RowStates
=============================================================================
