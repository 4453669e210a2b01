---------------------------- MODULE SessionLemmas ----------------------------
(***************************************************************************)
(* Facts about the operators of SessionReducer and SessionStore, for       *)
(* SessionProofs: what the highest stored sequence number is, and what an  *)
(* ingest_envelope may do to a stored session.                             *)
(***************************************************************************)
EXTENDS SessionProtocol, TLAPS, FiniteSetTheorems, SequenceTheorems,
        WellFoundedInduction

(* A leaf that names no prover is tried with SMT, then with Zenon.         *)
USE SMTT(20), ZenonT(20)

(* An envelope whose payload is of the kind its handler reads: a request   *)
(* names the agent asked for or none, an acceptance and a change of agent  *)
(* name an agent.                                                          *)
Honest(e) ==
  /\ e.kind = "TASK_REQUEST" => e.body \in AgentIds \cup {NoAgent}
  /\ e.kind \in {"ACCEPTANCE", "PARTICIPANT_CHANGED"} => e.body \in AgentIds

HonestEnvelopes == {e \in Envelopes : Honest(e)}

(* A session is empty until it exists, and then its initiator has an agent. *)
Stored == {s \in Sessions : IF s.status = "none" THEN s.log = << >>
                            ELSE s.agent[Initiator] \in AgentIds}

-----------------------------------------------------------------------------
(* The matrix                                                              *)

(* The statuses, written out.                                              *)
LEMMA StatusesDef ==
  /\ Statuses = {"draft", "sent", "queued", "delivered", "peer_review",
       "needs_clarification", "accepted", "active", "awaiting_owner_approval",
       "awaiting_peer", "paused", "completed", "failed", "cancelled", "expired",
       "declined"}
  /\ "none" \notin Statuses
  /\ TerminalStates \subseteq Statuses
  BY DEF Statuses, ValidTransitions, TerminalStates

(* The kinds of message, written out.                                      *)
LEMMA KindsDef ==
  Kinds = {"TASK_REQUEST", "ACCEPTANCE", "DECLINE", "CLARIFICATION", "PROPOSAL",
    "COUNTERPROPOSAL", "FINDING", "QUESTION", "ANSWER", "ARTIFACT_OFFER",
    "ARTIFACT_ACCEPT", "PLAN", "APPROVAL_REQUEST", "FINAL_RESULT", "CANCEL",
    "STATUS_EVENT", "PARTICIPANT_CHANGED", "APPROVAL_DECISION"}
  BY DEF Kinds, PeerKindTransition

(* Every kind asks for a status of the matrix or leaves the status alone.  *)
LEMMA PeerKindTransitionType ==
  ASSUME NEW k \in Kinds
  PROVE  PeerKindTransition[k] \in Statuses \cup {"keep"}
  BY KindsDef, StatusesDef DEF PeerKindTransition

(* No valid transition leaves the matrix, and none leaves a terminal       *)
(* status.                                                                 *)
LEMMA ValidTransitionType ==
  ASSUME NEW a \in Statuses, NEW b, IsValidTransition(a, b)
  PROVE  b \in Statuses /\ a \notin TerminalStates
  BY StatusesDef DEF IsValidTransition, ValidTransitions, TerminalStates

(* A node command keeps the status within the matrix and never moves a     *)
(* terminal one (process_node_command).                                    *)
LEMMA NodeCommandType ==
  ASSUME NEW a \in Statuses, NEW b
  PROVE  /\ ProcessNodeCommand(a, b) \in Statuses
         /\ a \in TerminalStates => ProcessNodeCommand(a, b) = a
         /\ ProcessNodeCommand(a, b) \in {a, b}
  BY ValidTransitionType DEF ProcessNodeCommand

-----------------------------------------------------------------------------
(* Sequence numbers                                                        *)

(* A non-empty bounded set of naturals has a greatest element, and Max     *)
(* is it.                                                                  *)
LEMMA MaxIsGreatest ==
  ASSUME NEW b \in Nat, NEW S \in SUBSET (0 .. b), S # {}
  PROVE  Max(S) \in S /\ \A y \in S : y <= Max(S)
<1> DEFINE T == {b - x : x \in S}
<1>1. T \subseteq Nat /\ T # {}
  <2>1. \A x \in S : b - x \in Nat
    BY SMT
  <2> QED BY <2>1
<1>2. \E m \in T : \A y \in T : ~(<<y, m>> \in OpToRel(<, Nat))
  BY ZenonT(30), <1>1, NatLessThanWellFounded, WFMin
<1>3. \E m \in T : \A y \in T : m <= y
  <2>1. PICK m \in T : \A y \in T : ~(<<y, m>> \in OpToRel(<, Nat))
    BY ZenonT(30), <1>2
  <2> HIDE DEF T
  <2>2. ASSUME NEW y \in T PROVE m <= y
    <3>1. m \in Nat /\ y \in Nat
      BY <1>1
    <3>2. ~(y < m)
      BY ZenonT(30), <2>1, <3>1 DEF OpToRel
    <3> QED BY <3>1, <3>2
  <2> QED BY <2>2
<1>4. \E x \in S : \A y \in S : x >= y
  <2>1. PICK x \in S : \A y \in T : b - x <= y
    BY <1>3
  <2>2. ASSUME NEW y \in S PROVE x >= y
    <3>1. b - y \in T
      OBVIOUS
    <3>2. b - x <= b - y
      BY ZenonT(30), <2>1, <3>1
    <3> QED BY <3>2
  <2> QED BY <2>2
<1> QED BY ZenonT(30), <1>4 DEF Max

(* The numbers stored in a log are in range.                               *)
LEMMA LogElement ==
  ASSUME NEW log \in Seq(Envelopes), NEW i \in DOMAIN log
  PROVE  log[i] \in Envelopes /\ log[i].seq \in 1 .. MaxSequence
<1>1. log[i] \in Envelopes
  OBVIOUS
<1> QED BY <1>1 DEF Envelopes

(* The last sequence number of an owner is a bound on all the stored ones, *)
(* and so the next number is free.                                         *)
LEMMA LastSequenceType ==
  ASSUME NEW log \in Seq(Envelopes), NEW u
  PROVE  /\ LastSequence(log, u) \in 0 .. MaxSequence
         /\ \A i \in EventsOf(log, u) : log[i].seq <= LastSequence(log, u)
<1> DEFINE S == {log[i].seq : i \in EventsOf(log, u)} \cup {0}
<1>1. \A i \in EventsOf(log, u) : log[i].seq \in 1 .. MaxSequence
  BY LogElement DEF EventsOf
<1>2. S \in SUBSET (0 .. MaxSequence) /\ S # {}
  BY <1>1, BoundsAssumption
<1>3. Max(S) \in S /\ \A y \in S : y <= Max(S)
  <2> HIDE DEF S
  <2> QED BY ZenonT(30), <1>2, MaxIsGreatest, BoundsAssumption
<1> QED BY <1>2, <1>3 DEF LastSequence

(* An envelope with the next number is not taken for a repetition.         *)
LEMMA NextIsNew ==
  ASSUME NEW log \in Seq(Envelopes), NEW e,
         e.seq = LastSequence(log, e.actor) + 1
  PROVE  CheckSequenceConflict(log, e) = "new"
<1>1. LastSequence(log, e.actor) \in Nat
  BY LastSequenceType, BoundsAssumption
<1>2. ASSUME NEW i \in EventsOf(log, e.actor) PROVE log[i].seq # e.seq
  <2>1. log[i].seq <= LastSequence(log, e.actor)
    BY LastSequenceType
  <2>2. log[i].seq \in Nat
    BY LogElement, BoundsAssumption DEF EventsOf
  <2> QED BY <1>1, <2>1, <2>2
<1> QED BY <1>2 DEF CheckSequenceConflict, SameSlot

(* One more event is at most one more turn.                                *)
LEMMA CurrentTurnAppend ==
  ASSUME NEW log \in Seq(Envelopes), NEW e \in Envelopes
  PROVE  /\ CurrentTurn(log) \in Nat
         /\ CurrentTurn(Append(log, e)) =
              IF e.kind \in TurnConsumingKinds THEN CurrentTurn(log) + 1
                                               ELSE CurrentTurn(log)
<1> DEFINE A == {i \in DOMAIN log : log[i].kind \in TurnConsumingKinds}
           B == {i \in DOMAIN Append(log, e) :
                   Append(log, e)[i].kind \in TurnConsumingKinds}
<1>1. IsFiniteSet(A) /\ Cardinality(A) \in Nat
  <2>1. A \in SUBSET (1 .. Len(log)) /\ Len(log) \in Int /\ 1 \in Int
    OBVIOUS
  <2>2. IsFiniteSet(1 .. Len(log))
    BY <2>1, FS_Interval
  <2> QED BY <2>1, <2>2, FS_Subset, FS_CardinalityType
<1>2. Len(log) + 1 \notin A
  OBVIOUS
<1>3. B = IF e.kind \in TurnConsumingKinds THEN A \cup {Len(log) + 1} ELSE A
  OBVIOUS
<1>4. Cardinality(B) = IF e.kind \in TurnConsumingKinds THEN Cardinality(A) + 1
                                                        ELSE Cardinality(A)
  <2> HIDE DEF A, B
  <2> QED BY ZenonT(30), <1>1, <1>2, <1>3, FS_AddElement
<1> QED BY ZenonT(30), <1>1, <1>4 DEF CurrentTurn

(* An empty transcript has used no turn.                                   *)
LEMMA CurrentTurnEmpty == CurrentTurn(<< >>) = 0
<1>1. {i \in DOMAIN << >> : << >>[i].kind \in TurnConsumingKinds} = {}
  OBVIOUS
<1> QED BY <1>1, FS_EmptySet DEF CurrentTurn

(* What stood before an event stays before it when another is appended.    *)
LEMMA PrefixOfAppend ==
  ASSUME NEW S, NEW log \in Seq(S), NEW e \in S, NEW i \in 1 .. Len(log) + 1
  PROVE  SubSeq(Append(log, e), 1, i - 1) =
           IF i = Len(log) + 1 THEN log ELSE SubSeq(log, 1, i - 1)
<1> DEFINE new == Append(log, e)
           a == SubSeq(new, 1, i - 1)
           b == SubSeq(log, 1, i - 1)
<1>1. /\ new \in Seq(S) /\ Len(new) = Len(log) + 1
      /\ \A j \in 1 .. Len(log) : new[j] = log[j]
  BY AppendProperties
<1> HIDE DEF new
<1>2. a \in Seq(S) /\ Len(a) = i - 1 /\ \A j \in 1 .. i - 1 : a[j] = new[j]
  BY <1>1, SubSeqProperties
<1>3. CASE i = Len(log) + 1
  BY <1>1, <1>2, <1>3 DEF new
<1>4. CASE i # Len(log) + 1
  <2>1. b \in Seq(S) /\ Len(b) = i - 1 /\ \A j \in 1 .. i - 1 : b[j] = log[j]
    BY <1>4, SubSeqProperties
  <2> HIDE DEF a, b
  <2>2. a = b
    BY <1>1, <1>2, <2>1
  <2> QED BY <1>4, <2>2 DEF a, b, new
<1> QED BY <1>3, <1>4

-----------------------------------------------------------------------------
(* Storing an envelope                                                     *)

(* What may happen to a transcript in one step: nothing, or one more event *)
(* with the next number of its actor and within the turn limit.            *)
LogStep(log, new) ==
  \/ new = log
  \/ \E e \in Envelopes :
       /\ new = Append(log, e)
       /\ e.seq = LastSequence(log, e.actor) + 1
       /\ e.kind \in TurnConsumingKinds => CurrentTurn(log) < MaxTurns

(* What may happen to a stored session in one step.                        *)
LegalChange(s, t) ==
  /\ t \in Stored
  /\ s.status # "none" => t.status # "none"
  /\ s.status \in TerminalStates => t.status = s.status
  /\ s.status \in TerminalStates => t.log = s.log
  /\ LogStep(s.log, t.log)
  /\ t.status \in DOMAIN Outcome =>
       \/ t.status = s.status /\ t.log = s.log
       \/ t.log # << >> /\ Last(t.log).kind = Outcome[t.status]

(* The state the reducer judges is the stored one, but for the status of   *)
(* an unanswered invitation.                                               *)
LEMMA ReviewFacts ==
  ASSUME NEW s \in Sessions, s.status # "none", NEW e \in Envelopes,
         NEW st, st = UnderReview(ReconstructSessionState(s), e)
  PROVE  /\ st.status \in Statuses
         /\ st.turn = CurrentTurn(s.log) /\ st.limit = MaxTurns
         /\ st.seqs[e.actor] = LastSequence(s.log, e.actor)
         /\ \/ st.status = s.status
            \/ s.status \in {"queued", "delivered"} /\ st.status = "peer_review"
<1> DEFINE r == ReconstructSessionState(s)
<1>1. s.status \in Statuses
  BY DEF Sessions
<1>2. /\ r.status = s.status /\ r.turn = CurrentTurn(s.log) /\ r.limit = MaxTurns
      /\ r.seqs[e.actor] = LastSequence(s.log, e.actor)
  BY DEF ReconstructSessionState, Envelopes
<1>3. st = r \/ st = [r EXCEPT !.status = "peer_review"]
  BY DEF UnderReview
<1>4. st = r \/ s.status \in {"queued", "delivered"}
  BY <1>2 DEF UnderReview
<1>5. CASE st = r
  BY <1>1, <1>2, <1>5
<1>6. CASE st # r
  <2>1. /\ st.status = "peer_review" /\ st.turn = r.turn
        /\ st.limit = r.limit /\ st.seqs = r.seqs
    BY <1>3, <1>6 DEF ReconstructSessionState
  <2> QED BY <1>2, <1>4, <1>6, <2>1, StatusesDef
<1> QED BY <1>5, <1>6

(* The status an admitted envelope leads to, and where it can come from.   *)
LEMMA TargetFacts ==
  ASSUME NEW me, NEW st, st.status \in Statuses, NEW e, e.kind \in Kinds,
         PeerEnvelopeAdmitted(st, e),
         NEW final, final = SettledStatus(me, TargetStatus(st, e.kind), e)
  PROVE  /\ final \in Statuses
         /\ st.status \notin TerminalStates
         /\ final \in DOMAIN Outcome => e.kind = Outcome[final]
         /\ final \in UnderWay => st.status \in UnderWay \/ e.kind = "ACCEPTANCE"
         /\ e.kind \in TurnConsumingKinds => st.turn < st.limit
<1> DEFINE target == TargetStatus(st, e.kind)
<1>1. st.status \notin TerminalStates
  BY DEF PeerEnvelopeAdmitted
<1>2. target \in Statuses
  BY PeerKindTransitionType DEF TargetStatus
<1>3. final \in Statuses /\ (final = target \/ final \in {"peer_review", "delivered", "active"})
  BY <1>2, StatusesDef DEF SettledStatus
<1>4. final \in {"completed", "declined", "cancelled"} => final = target
  BY <1>3
<1>5. target \in {"completed", "declined", "cancelled"} => e.kind = Outcome[target]
  BY <1>1, KindsDef DEF TargetStatus, PeerKindTransition, Outcome, TerminalStates
<1>6. DOMAIN Outcome = {"completed", "declined", "cancelled"}
  BY DEF Outcome
<1>7. \/ target = st.status \/ IsValidTransition(st.status, target)
      \/ e.kind = "ACCEPTANCE"
  BY DEF PeerEnvelopeAdmitted, IsUnacceptedReceiverAccept
<1>8. target = "accepted" => st.status = "accepted" \/ e.kind = "ACCEPTANCE"
  BY KindsDef DEF TargetStatus, PeerKindTransition
<1>9. target \in UnderWay => st.status \in UnderWay \/ e.kind = "ACCEPTANCE"
  <2>1. target \in UnderWay \ {"accepted"} /\ IsValidTransition(st.status, target)
          => st.status \in UnderWay
    BY StatusesDef DEF IsValidTransition, ValidTransitions, UnderWay
  <2> QED BY <1>7, <1>8, <2>1 DEF UnderWay
<1>10. final \in UnderWay => target \in UnderWay
  BY DEF SettledStatus, UnderWay
<1>11. e.kind \in TurnConsumingKinds => target \notin TerminalStates
  BY DEF TurnConsumingKinds, TargetStatus, PeerKindTransition, TerminalStates
<1>12. e.kind \in TurnConsumingKinds => st.turn < st.limit
  BY <1>11 DEF PeerEnvelopeAdmitted
<1> HIDE DEF target
<1> QED BY <1>1, <1>3, <1>4, <1>5, <1>6, <1>9, <1>10, <1>12

(* Opening a session inserts its row or marks an overdue one expired; the  *)
(* transcript is untouched.                                                *)
LEMMA OpenEffect ==
  ASSUME NEW s \in Stored, NEW d, NEW e \in HonestEnvelopes,
         s.status = "none" => e.kind = "TASK_REQUEST",
         NEW o, o = OpenSession(s, d, e)
  PROVE  /\ o \in Stored /\ o.status # "none" /\ o.log = s.log
         /\ s.status \in TerminalStates => o = s
         /\ o.status = s.status \/ o.status \in {"draft", "expired"}
<1>1. s \in Sessions /\ e \in Envelopes /\ Honest(e)
  BY DEF Stored, HonestEnvelopes
<1>2. CASE s.status = "none"
  <2>1. e.agent \in AgentIds /\ e.body \in AgentIds \cup {NoAgent}
    BY <1>1, <1>2 DEF Honest, Envelopes
  <2>2. o = [status |-> "draft", log |-> << >>,
             agent |-> [u \in Users |-> IF u = Initiator THEN e.agent ELSE e.body]]
    BY <1>2 DEF OpenSession
  <2>3. o \in Sessions /\ o.agent[Initiator] \in AgentIds
    BY <2>1, <2>2, StatusesDef DEF Sessions, Users
  <2>4. s.log = << >>
    BY <1>2 DEF Stored
  <2> QED BY <1>2, <2>2, <2>3, <2>4, StatusesDef DEF Stored
<1>3. CASE s.status # "none"
  <2>1. s.status \in Statuses /\ s.agent[Initiator] \in AgentIds
    BY <1>1, <1>3 DEF Stored, Sessions
  <2>2. CASE o = s
    BY <1>3, <2>2
  <2>3. CASE o # s
    <3>1. s.status \notin TerminalStates /\ o = ApplyNodeCommand(s, "expired")
      BY <1>3, <2>3 DEF OpenSession
    <3>2. /\ o.status = ProcessNodeCommand(s.status, "expired")
          /\ o.log = s.log /\ o.agent = s.agent
      BY <1>1, <3>1 DEF ApplyNodeCommand, Sessions
    <3>3. o.status \in Statuses /\ o.status \in {s.status, "expired"}
      BY <2>1, <3>2, NodeCommandType
    <3>4. o \in Sessions
      BY <1>1, <3>1, <3>3 DEF ApplyNodeCommand, Sessions
    <3> QED BY <2>1, <3>1, <3>2, <3>3, <3>4, StatusesDef DEF Stored
  <2> QED BY <2>2, <2>3
<1> QED BY <1>2, <1>3

(* Storing an admitted envelope.                                           *)
LEMMA StoreEffect ==
  ASSUME NEW me, NEW o \in Stored, o.status # "none", NEW e \in HonestEnvelopes,
         PeerEnvelopeAdmitted(UnderReview(ReconstructSessionState(o), e), e),
         NEW t, t = StoreEnvelope(me, o, e)
  PROVE  /\ t \in Stored /\ t.status # "none" /\ o.status \notin TerminalStates
         /\ t.log = Append(o.log, e)
         /\ e.seq = LastSequence(o.log, e.actor) + 1
         /\ e.kind \in TurnConsumingKinds => CurrentTurn(o.log) < MaxTurns
         /\ t.status \in DOMAIN Outcome => e.kind = Outcome[t.status]
         /\ t.status \in UnderWay => o.status \in UnderWay \/ e.kind = "ACCEPTANCE"
<1> DEFINE st == UnderReview(ReconstructSessionState(o), e)
           final == SettledStatus(me, TargetStatus(st, e.kind), e)
<1>1. o \in Sessions /\ e \in Envelopes /\ Honest(e)
  BY DEF Stored, HonestEnvelopes
<1>2. /\ st.status \in Statuses
      /\ st.turn = CurrentTurn(o.log) /\ st.limit = MaxTurns
      /\ st.seqs[e.actor] = LastSequence(o.log, e.actor)
      /\ \/ st.status = o.status
         \/ o.status \in {"queued", "delivered"} /\ st.status = "peer_review"
  <2> HIDE DEF st
  <2>1. st = UnderReview(ReconstructSessionState(o), e)
    BY DEF st
  <2> QED BY <1>1, <2>1, ReviewFacts
<1>3. e.kind \in Kinds /\ e.actor \in Users
  BY <1>1 DEF Envelopes
<1>4. /\ final \in Statuses /\ st.status \notin TerminalStates
      /\ final \in DOMAIN Outcome => e.kind = Outcome[final]
      /\ final \in UnderWay => st.status \in UnderWay \/ e.kind = "ACCEPTANCE"
      /\ e.kind \in TurnConsumingKinds => st.turn < st.limit
  <2>1. PeerEnvelopeAdmitted(st, e)
    OBVIOUS
  <2> HIDE DEF st
  <2> QED BY <1>2, <1>3, <2>1, TargetFacts
<1>5. t = [status |-> final,
           agent |-> IF e.kind = "ACCEPTANCE"
                     THEN [o.agent EXCEPT ![Receiver] = e.body] ELSE o.agent,
           log |-> Append(o.log, e)]
  <2>1. ProcessPeerEnvelope(st, e).status = TargetStatus(st, e.kind)
    <3>1. "status" \in DOMAIN st
      BY DEF UnderReview, ReconstructSessionState
    <3> HIDE DEF st
    <3> QED BY <3>1 DEF ProcessPeerEnvelope
  <2> QED BY <2>1 DEF StoreEnvelope
<1>6. e.seq = st.seqs[e.actor] + 1
  BY DEF PeerEnvelopeAdmitted
<1> HIDE DEF st, final
<1>7. t.agent \in [Users -> AgentIds \cup {NoAgent}] /\ t.agent[Initiator] \in AgentIds
  <2>1. o.agent \in [Users -> AgentIds \cup {NoAgent}] /\ o.agent[Initiator] \in AgentIds
    BY <1>1 DEF Stored, Sessions
  <2>2. e.kind = "ACCEPTANCE" => e.body \in AgentIds
    BY <1>1 DEF Honest
  <2> QED BY <1>5, <2>1, <2>2, UsersAssumption DEF Users
<1>8. Append(o.log, e) \in Seq(Envelopes)
  BY <1>1, AppendProperties DEF Sessions
<1>9. t \in Sessions /\ t.status = final /\ t.log = Append(o.log, e)
  BY <1>4, <1>5, <1>7, <1>8 DEF Sessions
<1>10. t \in Stored /\ t.status # "none"
  BY <1>4, <1>7, <1>9, StatusesDef DEF Stored
<1>11. o.status \notin TerminalStates
  BY <1>2, <1>4 DEF TerminalStates
<1>12. st.status \in UnderWay => o.status \in UnderWay
  BY <1>2 DEF UnderWay
<1> QED BY <1>2, <1>4, <1>6, <1>9, <1>10, <1>11, <1>12

(* What an ingest may make of a session: a request opens it, and only an   *)
(* acceptance brings it under way.                                         *)
IngestLegal(s, e, t) ==
  /\ LegalChange(s, t)
  /\ e.kind = "TASK_REQUEST" => t.status # "none"
  /\ t.status \in UnderWay =>
       \/ s.status \in UnderWay
       \/ e.kind = "ACCEPTANCE" /\ t.log = Append(s.log, e)

(* ingest_envelope does no more than that, whoever's envelope it is.       *)
LEMMA IngestEffect ==
  ASSUME NEW me, NEW s \in Stored, NEW d, NEW e \in HonestEnvelopes,
         NEW t, t = IngestEnvelope(me, s, d, e).sess
  PROVE  IngestLegal(s, e, t)
<1> DEFINE o == OpenSession(s, d, e)
           admitted == PeerEnvelopeAdmitted(UnderReview(ReconstructSessionState(o), e), e)
<1>1. e \in Envelopes
  BY DEF HonestEnvelopes
<1>2. CASE s.status = "none" /\ e.kind # "TASK_REQUEST"
  <2>1. t = s
    BY <1>2 DEF IngestEnvelope
  <2> QED BY <1>2, <2>1 DEF IngestLegal, LegalChange, LogStep
<1>3. CASE ~(s.status = "none" /\ e.kind # "TASK_REQUEST")
  <2>1. /\ o \in Stored /\ o.status # "none" /\ o.log = s.log
        /\ s.status \in TerminalStates => o = s
        /\ o.status = s.status \/ o.status \in {"draft", "expired"}
    <3> HIDE DEF o
    <3>1. o = OpenSession(s, d, e)
      BY DEF o
    <3> QED BY <1>3, <3>1, OpenEffect
  <2>2. t = o \/ (admitted /\ t = StoreEnvelope(me, o, e))
    BY <1>3 DEF IngestEnvelope
  <2> HIDE DEF o
  <2>3. CASE t = o
    <3>1. t.status \in DOMAIN Outcome => t.status = s.status
      BY <2>1, <2>3 DEF Outcome
    <3>2. t.status \in UnderWay => s.status \in UnderWay
      BY <2>1, <2>3 DEF UnderWay
    <3> QED BY <2>1, <2>3, <3>1, <3>2 DEF IngestLegal, LegalChange, LogStep
  <2>4. CASE admitted /\ t = StoreEnvelope(me, o, e)
    <3>1. /\ t \in Stored /\ t.status # "none" /\ o.status \notin TerminalStates
          /\ t.log = Append(o.log, e)
          /\ e.seq = LastSequence(o.log, e.actor) + 1
          /\ e.kind \in TurnConsumingKinds => CurrentTurn(o.log) < MaxTurns
          /\ t.status \in DOMAIN Outcome => e.kind = Outcome[t.status]
          /\ t.status \in UnderWay => o.status \in UnderWay \/ e.kind = "ACCEPTANCE"
      BY <2>1, <2>4, StoreEffect
    <3>2. s.status \notin TerminalStates
      BY <2>1, <3>1
    <3>3. LogStep(s.log, t.log)
      BY <1>1, <2>1, <3>1 DEF LogStep
    <3>4. t.log # << >> /\ Last(t.log) = e
      <4>1. s.log \in Seq(Envelopes)
        BY DEF Stored, Sessions
      <4>2. t.log = Append(s.log, e)
        BY <2>1, <3>1
      <4>3. Len(t.log) = Len(s.log) + 1 /\ t.log[Len(s.log) + 1] = e
        BY <1>1, <4>1, <4>2, AppendProperties
      <4> QED BY <4>1, <4>3 DEF Last
    <3>5. o.status \in UnderWay => s.status \in UnderWay
      BY <2>1 DEF UnderWay
    <3> QED BY <2>1, <3>1, <3>2, <3>3, <3>4, <3>5 DEF IngestLegal, LegalChange
  <2> QED BY <2>2, <2>3, <2>4
<1> QED BY <1>2, <1>3

(* A change of status alone is legal when it leaves terminal statuses and  *)
(* does not enter one that needs a signed event.                           *)
LEMMA StatusChange ==
  ASSUME NEW s \in Stored, NEW st \in Statuses, s.status # "none",
         s.status \in TerminalStates => st = s.status,
         st \in DOMAIN Outcome => st = s.status,
         NEW t, t = [s EXCEPT !.status = st]
  PROVE  LegalChange(s, t) /\ t.log = s.log /\ t.status = st
<1>1. s \in Sessions /\ s.agent[Initiator] \in AgentIds
  BY DEF Stored
<1>2. t \in Sessions /\ t.status = st /\ t.log = s.log /\ t.agent = s.agent
  BY <1>1 DEF Sessions
<1>3. t \in Stored /\ t.status # "none"
  BY ZenonT(30), <1>1, <1>2, StatusesDef DEF Stored
<1>4. LegalChange(s, t)
  BY <1>2, <1>3 DEF LegalChange, LogStep
<1> QED BY <1>2, <1>4

(* A node command changes a session legally and never brings it under way  *)
(* (mark_queued, mark_delivered, mark_failed, mark_expired and             *)
(* mark_awaiting_owner_approval).                                          *)
LEMMA NodeCommandEffect ==
  ASSUME NEW s \in Stored, s.status # "none",
         NEW target \in {"queued", "delivered", "failed", "expired",
                         "awaiting_owner_approval"},
         NEW t, t = ApplyNodeCommand(s, target)
  PROVE  /\ LegalChange(s, t) /\ t.log = s.log
         /\ t.status \in UnderWay => s.status \in UnderWay
<1> DEFINE st == ProcessNodeCommand(s.status, target)
<1>1. s.status \in Statuses
  BY DEF Stored, Sessions
<1>2. /\ st \in Statuses /\ st \in {s.status, target}
      /\ s.status \in TerminalStates => st = s.status
  BY <1>1, NodeCommandType
<1>3. st \in DOMAIN Outcome => st = s.status
  BY <1>2 DEF Outcome
<1>4. t = [s EXCEPT !.status = st]
  BY <1>1 DEF ApplyNodeCommand
<1>5. st \in UnderWay => s.status \in UnderWay
  BY <1>1, StatusesDef
  DEF ProcessNodeCommand, IsValidTransition, ValidTransitions, UnderWay
<1> HIDE DEF st
<1> QED BY <1>2, <1>3, <1>4, <1>5, StatusChange

(* The owner's commands that change the status by themselves change it     *)
(* legally, and only where the session is already under way.               *)
LEMMA OwnerCommandEffect ==
  ASSUME NEW s \in Stored, s.status # "none",
         NEW action \in {"owner_pause", "owner_resume", "approve", "deny"},
         OwnerCommandAllowed(s.status, action),
         NEW st, st = OwnerCommandTarget[action],
         NEW t, t = [s EXCEPT !.status = st]
  PROVE  /\ LegalChange(s, t) /\ t.log = s.log
         /\ t.status = st /\ s.status \in UnderWay
<1>1. s.status \in Statuses
  BY DEF Stored, Sessions
<1>2. st \in {"paused", "active"}
  BY DEF OwnerCommandTarget
<1>3. s.status \notin TerminalStates
  BY DEF OwnerCommandAllowed
<1>4. st = s.status \/ IsValidTransition(s.status, st)
  BY DEF OwnerCommandAllowed
<1>5. s.status \in UnderWay
  BY <1>1, <1>2, <1>4, StatusesDef
  DEF IsValidTransition, ValidTransitions, UnderWay
<1>6. st \in Statuses
  BY <1>2, StatusesDef
<1>7. st \notin DOMAIN Outcome
  BY <1>2 DEF Outcome
<1>8. LegalChange(s, t) /\ t.log = s.log /\ t.status = st
  BY <1>3, <1>6, <1>7, StatusChange
<1> QED BY <1>5, <1>8

(* A registered agent may change; nothing else changes with it.            *)
LEMMA AgentChange ==
  ASSUME NEW s \in Stored, s.status # "none", NEW u \in Users, NEW a \in AgentIds,
         NEW t, t = [s EXCEPT !.agent[u] = a]
  PROVE  LegalChange(s, t) /\ t.log = s.log /\ t.status = s.status
<1>1. s \in Sessions /\ s.agent[Initiator] \in AgentIds
  BY DEF Stored
<1>2. t \in Sessions /\ t.status = s.status /\ t.log = s.log
  BY <1>1 DEF Sessions
<1>3. t.agent[Initiator] \in AgentIds
  BY <1>1 DEF Sessions, Users
<1> QED BY ZenonT(30), <1>2, <1>3 DEF LegalChange, LogStep, Stored

(* A node's next own envelope is well formed.                              *)
LEMMA NextEnvelopeType ==
  ASSUME NEW me \in Users, NEW s \in Stored, LastSequence(s.log, me) < MaxSequence,
         NEW agent \in AgentIds, NEW kind \in Kinds,
         NEW body \in Bodies \cup AgentIds \cup {NoAgent} \cup
           {"declined", "clarify", "human", "owner_paused", "owner_resumed", "cancel"},
         NEW e, e = NextEnvelope(me, s, agent, kind, body)
  PROVE  /\ e \in Envelopes /\ e.actor = me /\ e.kind = kind /\ e.body = body
         /\ e.seq = LastSequence(s.log, me) + 1
<1>1. s.log \in Seq(Envelopes)
  BY DEF Stored, Sessions
<1>2. LastSequence(s.log, me) \in 0 .. MaxSequence
  BY <1>1, LastSequenceType
<1>3. LastSequence(s.log, me) + 1 \in 1 .. MaxSequence
  BY <1>2, BoundsAssumption
<1> QED BY <1>3 DEF NextEnvelope, Envelopes

(* What an ingest acknowledges, it has stored.                             *)
AcknowledgedIsStored(me, s, d, e) ==
  LET r == IngestEnvelope(me, s, d, e) IN r.ok => r.sess.log = Append(s.log, e)

(* A node's own next envelope is never taken for a repetition: when its    *)
(* own ingest acknowledges it, it is in the transcript.                    *)
LEMMA OwnIngestStores ==
  ASSUME NEW me, NEW s \in Stored, s.status # "none", NEW d,
         NEW e \in HonestEnvelopes, e.seq = LastSequence(s.log, e.actor) + 1
  PROVE  AcknowledgedIsStored(me, s, d, e)
<1> SUFFICES ASSUME NEW r, r = IngestEnvelope(me, s, d, e), r.ok
             PROVE  r.sess.log = Append(s.log, e)
  BY DEF AcknowledgedIsStored
<1> DEFINE o == OpenSession(s, d, e)
           slot == CheckSequenceConflict(o.log, e)
           accepted == /\ Verified(o, e)
                       /\ slot = "new"
                       /\ PeerEnvelopeAdmitted(
                            UnderReview(ReconstructSessionState(o), e), e)
           acknowledged == accepted \/ (Verified(o, e) /\ slot = "duplicate")
<1>1. o.log = s.log
  <2> HIDE DEF o
  <2>1. o = OpenSession(s, d, e)
    BY DEF o
  <2> QED BY <2>1, OpenEffect
<1>2. s.log \in Seq(Envelopes)
  BY DEF Stored, Sessions
<1>3. slot = "new"
  BY <1>1, <1>2, NextIsNew
<1>4. r =
        [ok |-> acknowledged,
         sess |-> IF accepted THEN StoreEnvelope(me, o, e) ELSE o]
  BY DEF IngestEnvelope
<1>5. accepted
  <2>1. acknowledged
    <3> HIDE DEF acknowledged, accepted
    <3> QED BY <1>4
  <2>2. ~(slot = "duplicate")
    BY <1>3
  <2> QED BY <2>1, <2>2
<1>6. r.sess = StoreEnvelope(me, o, e)
  <2> HIDE DEF accepted, slot
  <2> QED BY <1>4, <1>5
<1> QED BY <1>1, <1>6 DEF StoreEnvelope

(* pause_session, resume_session and the pause of an exhausted turn: the   *)
(* change of status and the self-ingested STATUS_EVENT together.           *)
LEMMA OwnerStatusEventEffect ==
  ASSUME NEW me, NEW s \in Stored, s.status # "none", NEW d,
         NEW action \in {"owner_pause", "owner_resume"},
         OwnerCommandAllowed(s.status, action),
         NEW st, st = OwnerCommandTarget[action],
         NEW s1, s1 = [s EXCEPT !.status = st],
         NEW e \in HonestEnvelopes, NEW t, t = IngestEnvelope(me, s1, d, e).sess
  PROVE  LegalChange(s, t) /\ s.status \in UnderWay
<1>1. /\ LegalChange(s, s1) /\ s1.log = s.log /\ s1.status = st
      /\ s.status \in UnderWay
  BY OwnerCommandEffect
<1>2. st \in {"paused", "active"}
  BY DEF OwnerCommandTarget
<1>3. s1 \in Stored
  BY <1>1 DEF LegalChange
<1>4. LegalChange(s1, t)
  BY <1>3, IngestEffect DEF IngestLegal
<1>5. s.status \notin TerminalStates
  BY DEF OwnerCommandAllowed
<1>6. s1.status # "none" /\ s1.status \notin DOMAIN Outcome
  BY <1>1, <1>2 DEF Outcome
<1> QED BY <1>1, <1>4, <1>5, <1>6 DEF LegalChange

-----------------------------------------------------------------------------
(* Mail                                                                    *)

(* Taking one envelope out of a mailbox leaves the others.                 *)
LEMMA RemoveAtType ==
  ASSUME NEW S, NEW box \in Seq(S), NEW i \in DOMAIN box,
         NEW rest, rest = RemoveAt(box, i)
  PROVE  /\ rest \in Seq(S) /\ Len(rest) = Len(box) - 1
         /\ \A j \in DOMAIN rest : \E k \in DOMAIN box : rest[j] = box[k]
<1> DEFINE a == SubSeq(box, 1, i - 1)
           b == SubSeq(box, i + 1, Len(box))
<1>1. i \in 1 .. Len(box) /\ Len(box) \in Nat
  OBVIOUS
<1>2. /\ a \in Seq(S) /\ Len(a) = i - 1
      /\ \A j \in 1 .. i - 1 : a[j] = box[j]
  BY <1>1, SubSeqProperties
<1>3. /\ b \in Seq(S) /\ Len(b) = Len(box) - i
      /\ \A j \in 1 .. Len(box) - i : b[j] = box[i + j]
  BY <1>1, SubSeqProperties
<1>4. rest = a \o b
  BY DEF RemoveAt
<1> HIDE DEF a, b
<1>5. /\ a \o b \in Seq(S) /\ Len(a \o b) = Len(a) + Len(b)
      /\ \A j \in 1 .. Len(a) + Len(b) :
           (a \o b)[j] = IF j <= Len(a) THEN a[j] ELSE b[j - Len(a)]
  BY <1>2, <1>3, ConcatProperties, Zenon
<1>6. rest \in Seq(S) /\ Len(rest) = Len(box) - 1
  BY <1>1, <1>2, <1>3, <1>4, <1>5
<1>7. ASSUME NEW j \in 1 .. Len(box) - 1 PROVE \E k \in DOMAIN box : rest[j] = box[k]
  <2>1. rest[j] = IF j <= i - 1 THEN a[j] ELSE b[j - (i - 1)]
    <3>1. j \in 1 .. Len(a) + Len(b)
      BY <1>1, <1>2, <1>3
    <3> QED BY <1>2, <1>4, <1>5, <3>1
  <2>2. CASE j <= i - 1
    <3>1. j \in 1 .. i - 1 /\ j \in DOMAIN box
      BY <1>1, <2>2
    <3> QED BY <1>2, <2>1, <2>2, <3>1
  <2>3. CASE ~(j <= i - 1)
    <3> DEFINE k == j - (i - 1)
    <3>1. k \in 1 .. Len(box) - i /\ i + k = j + 1 /\ j + 1 \in DOMAIN box
      BY <1>1, <2>3
    <3> HIDE DEF k
    <3>2. b[k] = box[j + 1]
      BY <1>3, <3>1
    <3>3. rest[j] = b[k]
      BY <2>1, <2>3 DEF k
    <3> QED BY <3>1, <3>2, <3>3
  <2> QED BY <2>2, <2>3
<1>8. DOMAIN rest = 1 .. Len(box) - 1
  BY <1>6
<1> QED BY <1>6, <1>7, <1>8
=============================================================================
