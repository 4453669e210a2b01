----------------------------- MODULE GateProofs -----------------------------
(***************************************************************************)
(* The owner's gate for any number of deciding processes, of processes     *)
(* that write and of cards, and for any bounds: an approve_once decision   *)
(* clears one action, an approval is answered once, nothing leaves the     *)
(* node without clearance, and a session waits for an open row.            *)
(*                                                                         *)
(* None of these is inductive: each is about a value that a process reads  *)
(* in one statement and uses in a later one, so the invariant says what    *)
(* holds of a row while a process has it in hand.                          *)
(***************************************************************************)
EXTENDS OwnerGate, SequenceTheorems, TLAPS

(* A leaf that names no prover is tried with SMT, then with Zenon.         *)
USE SMTT(20), ZenonT(20)

ApprovalRows == [class : ActionClasses, at : Nat, decision : Decisions \cup {Undecided},
                 expired : BOOLEAN, consumed : BOOLEAN]
ActorStates ==
  [pc : {"idle", "gate", "consume", "wait", "decide", "record"}, agenda : Seq(Items),
   card : Cards, row : Nat, decision : Decisions \cup {Undecided}, at : Nat,
   grant : Nat, cleared : Items \cup {"none"}, overtaken : BOOLEAN]

Typed ==
  /\ approvals \in Seq(ApprovalRows) /\ Len(approvals) <= MaxApprovals
  /\ card \in Cards
  /\ actor \in [Actors -> ActorStates]
  /\ answers \in [1..MaxApprovals -> Nat]
  /\ uses \in [1..MaxApprovals -> Nat]

(* Row a of the table approves, or a rival answer may overwrite it.        *)
Approves(table, rivals, a) ==
  a \in DOMAIN table /\ (table[a].decision \in Approvals \/ a \in rivals)

(* What lets a message out or a file in.                                   *)
Granted(s, table, rivals) ==
  /\ ~ HardDenied(s.card, ClassOf(s.cleared))
  /\ \/ /\ s.grant = NoRow
        /\ ClassOf(s.cleared) = "informational_relay" /\ s.card.relay = "always_allow"
     \/ s.grant # NoRow /\ Approves(table, rivals, s.grant)

(* The steps a process goes through.                                       *)
Role(p, s) ==
  /\ p \in Deciders => s.pc \in {"idle", "decide", "record"}
  /\ p \in Writers => s.pc \in {"idle", "gate", "consume"}
  /\ p = Turn => s.pc \in {"idle", "gate", "consume", "wait"}

(* What a process has in hand is what the table says.                      *)
InHand(p, s, table, rivals) ==
  /\ s.row <= Len(table)
  /\ s.pc \in {"consume", "wait", "decide", "record"} => s.row # NoRow
  /\ s.pc \in {"decide", "record"} => s.decision \in Decisions
  /\ s.pc = "consume" =>
        /\ s.agenda # <<>> /\ ~ HardDenied(s.card, ClassOf(Head(s.agenda)))
        /\ Approves(table, rivals, s.row)
  /\ s.pc = "gate" /\ s.cleared # "none" /\ (s.cleared = "message" \/ p \in Writers) =>
        Granted(s, table, rivals)
  /\ p \in Writers /\ s.pc \in {"gate", "consume"} =>
        \/ s.agenda = <<"workspace_write">> /\ s.cleared = "none"
        \/ s.agenda = <<>> /\ s.cleared = "workspace_write"

ActorsOK == \A p \in Actors : Role(p, actor[p]) /\ InHand(p, actor[p], approvals, contested)

Holds(p, a) == actor[p].pc = "consume" /\ actor[p].row = a

(* A row that has cleared an action is marked, and a row in the hand of    *)
(* one evaluation has cleared none.                                        *)
UsesOK ==
  \A a \in 1..MaxApprovals :
    /\ uses[a] > 0 => a \in DOMAIN approvals /\ approvals[a].consumed
    /\ a \notin raced =>
         /\ uses[a] <= 1
         /\ \A p \in Actors : Holds(p, a) =>
               uses[a] = 0 /\ \A q \in Actors : Holds(q, a) => q = p

Decides(p, a) == actor[p].pc \in {"decide", "record"} /\ actor[p].row = a

(* A row that has been answered says so, and a row one process is deciding *)
(* has not been answered.                                                  *)
AnswersOK ==
  \A a \in 1..MaxApprovals :
    /\ answers[a] > 0 => a \in DOMAIN approvals /\ approvals[a].decision # Undecided
    /\ a \notin contested =>
         /\ answers[a] <= 1
         /\ \A p \in Deciders : Decides(p, a) =>
               /\ approvals[a].decision = Undecided
               /\ \A q \in Deciders : Decides(q, a) => q = p

(* Nobody has answered row a, nor moved the session for an answer to it.   *)
Open(a) ==
  /\ a \in DOMAIN approvals /\ approvals[a].decision = Undecided
  /\ \A p \in Deciders : ~ (actor[p].pc = "record" /\ actor[p].row = a)

WaitOK ==
  /\ waits # NoRow => Open(waits)
  /\ actor[Turn].pc = "wait" /\ ~ actor[Turn].overtaken => Open(actor[Turn].row)

GateInv == Typed /\ ActorsOK /\ UsesOK /\ AnswersOK /\ WaitOK
-----------------------------------------------------------------------------
(* Processes and rows.                                                     *)

(* A process at rest has nothing in hand.                                  *)
LEMMA RestingOK ==
  /\ Resting \in ActorStates /\ Resting.pc = "idle" /\ Resting.row = NoRow
  /\ Resting.cleared = "none" /\ Resting.agenda = <<>>
<1>1. (CHOOSE c \in Cards : TRUE) \in Cards
  BY GateAssumption
<1>2. <<>> \in Seq(Items)
  OBVIOUS
<1> QED BY <1>1, <1>2 DEF Resting, ActorStates, Undecided, NoRow

(* The table after one of its rows has changed.                            *)
LEMMA RowChanged ==
  ASSUME NEW table \in Seq(ApprovalRows), NEW a \in DOMAIN table, NEW row \in ApprovalRows,
         NEW new, new = [table EXCEPT ![a] = row]
  PROVE  /\ new \in Seq(ApprovalRows) /\ Len(new) = Len(table) /\ DOMAIN new = DOMAIN table
         /\ new[a] = row /\ \A b \in DOMAIN table : b # a => new[b] = table[b]
<1>1. DOMAIN table = 1..Len(table)
  OBVIOUS
<1>2. new \in Seq(ApprovalRows) /\ Len(new) = Len(table)
  BY ExceptSeq
<1> QED BY <1>1, <1>2

(* The turn neither decides nor writes, and nobody does both.              *)
LEMMA Roles ==
  /\ Turn \in Actors /\ Turn \notin Deciders /\ Turn \notin Writers
  /\ \A p \in Deciders : p \in Actors /\ p \notin Writers
  /\ \A p \in Writers : p \in Actors
BY GateAssumption DEF Turn, Actors

(* A row in hand is a row of the table.                                    *)
LEMMA RowInHand ==
  ASSUME NEW p, NEW s \in ActorStates, NEW table \in Seq(ApprovalRows), NEW rivals,
         InHand(p, s, table, rivals)
  PROVE  /\ s.row \in Nat /\ s.row <= Len(table)
         /\ s.pc \in {"consume", "wait", "decide", "record"} => s.row \in DOMAIN table
<1>1. s.row \in Nat
  BY DEF ActorStates
<1>2. /\ s.row <= Len(table)
      /\ s.pc \in {"consume", "wait", "decide", "record"} => s.row # 0
  BY DEF InHand, NoRow
<1>3. DOMAIN table = 1..Len(table) /\ Len(table) \in Nat
  OBVIOUS
<1> QED BY <1>1, <1>2, <1>3

(* What is in hand is right for another table that has the row and         *)
(* approves what the first approves.                                       *)
LEMMA HandOver ==
  ASSUME NEW p, NEW s, NEW table, NEW rivals, InHand(p, s, table, rivals),
         NEW after, NEW rivalsAfter, s.row <= Len(after),
         \A b : Approves(table, rivals, b) => Approves(after, rivalsAfter, b)
  PROVE  InHand(p, s, after, rivalsAfter)
<1>1. Granted(s, table, rivals) => Granted(s, after, rivalsAfter)
  BY DEF Granted
<1>2. s.row <= Len(after) /\ (Approves(table, rivals, s.row) => Approves(after, rivalsAfter, s.row))
  OBVIOUS
<1> QED BY ZenonT(30), <1>1, <1>2 DEF InHand

(* A process at rest has its role and nothing in hand.                     *)
LEMMA RestingInHand ==
  ASSUME NEW p \in Actors, NEW table \in Seq(ApprovalRows), NEW rivals
  PROVE  Role(p, Resting) /\ InHand(p, Resting, table, rivals)
<1>1. Resting.pc = "idle" /\ Resting.row = 0 /\ Len(table) \in Nat
  BY RestingOK DEF NoRow
<1>2. Role(p, Resting)
  BY <1>1 DEF Role
<1>3. Resting.row <= Len(table)
  BY <1>1
<1>4. InHand(p, Resting, table, rivals)
  BY ZenonT(30), <1>1, <1>3 DEF InHand
<1> QED BY <1>2, <1>4

LEMMA UndecidedIsNoApproval == Undecided \notin Approvals /\ Undecided \notin Decisions
BY DEF Undecided, Approvals, Decisions

(* A process with no row in hand, in order.                                *)
Settled(p, s) ==
  /\ s \in ActorStates /\ s.pc \in {"idle", "gate"} /\ s.row = NoRow
  /\ Role(p, s) /\ InHand(p, s, approvals, contested)

TableStands == UNCHANGED <<approvals, card, answers, uses, contested, raced>>

WaitsForOpen == waits' = NoRow \/ waits' = waits \/ Open(waits')

(* A step of one process that ends with no row in hand keeps the           *)
(* invariant, when its new state is in order.                              *)
LEMMA MovesOn ==
  ASSUME GateInv, NEW p \in Actors, NEW new, Settled(p, new), Step(p, new),
         TableStands, WaitsForOpen
  PROVE  GateInv'
<1> USE DEF GateInv, Settled, TableStands
<1>1. /\ actor' \in [Actors -> ActorStates]
      /\ \A q \in Actors : actor'[q] = IF q = p THEN new ELSE actor[q]
  BY DEF Typed, Step
<1>2. Typed'
  BY <1>1 DEF Typed
<1>3. ActorsOK'
  <2>1. \A q \in Actors : Role(q, actor'[q]) /\ InHand(q, actor'[q], approvals', contested')
    BY <1>1 DEF ActorsOK
  <2> QED BY <2>1 DEF ActorsOK
<1>4. UsesOK'
  BY <1>1 DEF UsesOK, Holds
<1>5. AnswersOK'
  BY <1>1, Roles DEF AnswersOK, Decides
<1>6. \A a : Open(a) => Open(a)'
  BY <1>1, Roles DEF Open
<1>7. WaitOK'
  <2>1. waits' # NoRow => Open(waits)'
    <3>1. CASE waits' = NoRow
      BY <3>1
    <3>2. CASE waits' = waits
      BY <1>6, <3>2 DEF WaitOK
    <3>3. CASE Open(waits')
      BY <1>1, <3>3, Roles DEF Open
    <3> QED BY <3>1, <3>2, <3>3 DEF WaitsForOpen
  <2>2. CASE p = Turn
    BY <1>1, <2>1, <2>2, Roles DEF WaitOK
  <2>3. CASE p # Turn
    BY <1>1, <1>6, <2>1, <2>3, Roles DEF WaitOK
  <2> QED BY <2>2, <2>3
<1> QED BY <1>2, <1>3, <1>4, <1>5, <1>7

(* Where nothing is in anybody's hand but what was before.                 *)
LEMMA Stands ==
  ASSUME GateInv, card' \in Cards, waits' = NoRow \/ waits' = waits,
         UNCHANGED <<approvals, actor, answers, uses, contested, raced>>
  PROVE  GateInv'
<1> USE DEF GateInv
<1>1. Typed' /\ ActorsOK'
  BY DEF Typed, ActorsOK
<1>2. UsesOK' /\ AnswersOK'
  BY DEF UsesOK, AnswersOK, Holds, Decides
<1>3. WaitOK'
  BY DEF WaitOK, Open
<1> QED BY <1>1, <1>2, <1>3

(* A process at rest is in order.                                          *)
LEMMA RestingSettled ==
  ASSUME GateInv, NEW p \in Actors
  PROVE  Settled(p, Resting)
BY RestingOK, Roles DEF Settled, Role, InHand, GateInv, Typed, NoRow

(* A process that stops, for whatever reason.                              *)
LEMMA Stops ==
  ASSUME GateInv, NEW p \in Actors, Rest(p), TableStands, waits' = waits
  PROVE  GateInv'
BY RestingSettled, MovesOn DEF Rest, WaitsForOpen
-----------------------------------------------------------------------------
(* Evaluations.                                                            *)

(* The item at the head of an agenda, and the state once it is cleared.    *)
LEMMA ClearedState ==
  ASSUME Typed, NEW p \in Actors, actor[p].agenda # <<>>, NEW a \in Nat
  PROVE  /\ Item(p) \in Items /\ Cleared(p, a) \in ActorStates
         /\ Cleared(p, a).pc = "gate" /\ Cleared(p, a).row = NoRow
         /\ Cleared(p, a).grant = a /\ Cleared(p, a).cleared = Item(p)
         /\ Cleared(p, a).card = actor[p].card
         /\ Cleared(p, a).agenda = Tail(actor[p].agenda)
<1>1. actor[p] \in ActorStates /\ actor[p].agenda \in Seq(Items)
  BY DEF Typed, ActorStates
<1>2. Item(p) \in Items /\ Tail(actor[p].agenda) \in Seq(Items)
  BY <1>1, HeadTailProperties DEF Item
<1> HIDE DEF Item
<1> QED BY ZenonT(30), <1>1, <1>2 DEF Cleared, ActorStates, NoRow

(* The row an evaluation takes is one that may still be used.              *)
LEMMA TakenRow ==
  ASSUME Typed, NEW p \in Actors, NEW a, NEW result, Evaluates(p, a, result), a # NoRow
  PROVE  /\ a \in DOMAIN approvals /\ a \in 1..MaxApprovals
         /\ approvals[a].decision = "approve_once" => ~ approvals[a].consumed
<1>1. a \in Live(ClassOf(Item(p)))
  BY DEF Evaluates, PriorApprovals
<1>2. a \in DOMAIN approvals
  BY <1>1 DEF Live
<1>3. a \in 1..MaxApprovals
  BY <1>2, GateAssumption DEF Typed
<1> QED BY <1>1, <1>2, <1>3 DEF Live

(* What allows an action: an approval, or the autonomy that the card gives *)
(* the relaying of information.                                            *)
LEMMA AllowedBy ==
  ASSUME NEW p \in Actors, NEW a, NEW result \in {"allow", "allow_once"},
         Evaluates(p, a, result)
  PROVE  /\ ~ HardDenied(actor[p].card, ClassOf(Item(p)))
         /\ result = "allow_once" => a # NoRow /\ approvals[a].decision = "approve_once"
         /\ \/ a # NoRow /\ approvals[a].decision \in Approvals
            \/ ClassOf(Item(p)) = "informational_relay" /\ actor[p].card.relay = "always_allow"
<1> DEFINE class == ClassOf(Item(p))
           prior == IF a = NoRow THEN "none" ELSE approvals[a].decision
           res == evaluate_action(actor[p].card, class, prior)
<1>1. result = IF prior = Undecided THEN "raises"
               ELSE IF res = "allow" /\ prior = "approve_once" THEN "allow_once"
               ELSE res
  BY DEF Evaluates
<1>2. res = "allow" => /\ ~ HardDenied(actor[p].card, class)
                       /\ prior \in Approvals \/ Autonomy(actor[p].card, class) = "allow"
  <2> HIDE DEF class, prior
  <2> QED BY DEF evaluate_action
<1>3. res # "allow_once"
  <2> HIDE DEF class, prior
  <2>1. Autonomy(actor[p].card, class) \in {"allow", "deny", "requires_approval"}
    BY DEF Autonomy
  <2> QED BY <2>1 DEF evaluate_action
<1>4. Autonomy(actor[p].card, class) = "allow" =>
         class = "informational_relay" /\ actor[p].card.relay = "always_allow"
  <2> HIDE DEF class
  <2> QED BY DEF Autonomy
<1>5. res = "allow" /\ (result = "allow_once" => prior = "approve_once")
  <2> HIDE DEF res, prior
  <2> QED BY <1>1, <1>3
<1>6. prior \in Approvals => a # NoRow /\ approvals[a].decision = prior
  BY DEF Approvals
<1>7. "approve_once" \in Approvals
  BY DEF Approvals
<1> HIDE DEF res, prior
<1> QED BY <1>2, <1>4, <1>5, <1>6, <1>7

(* A writer clears one item.                                               *)
LEMMA WriterItem ==
  ASSUME GateInv, NEW p \in Writers, actor[p].pc \in {"gate", "consume"},
         actor[p].agenda # <<>>
  PROVE  Item(p) = "workspace_write" /\ Tail(actor[p].agenda) = <<>>
<1>1. actor[p].agenda = <<"workspace_write">>
  BY Roles DEF GateInv, ActorsOK, InHand
<1> QED BY <1>1 DEF Item

(* A process that has cleared an item by row a is in order.                *)
LEMMA ClearedSettled ==
  ASSUME GateInv, NEW p \in Writers \cup {Turn}, actor[p].pc \in {"gate", "consume"},
         actor[p].agenda # <<>>, NEW a \in Nat,
         \/ p = Turn /\ Item(p) # "message"
         \/ Granted(Cleared(p, a), approvals, contested)
  PROVE  Settled(p, Cleared(p, a))
<1> DEFINE new == Cleared(p, a)
<1>1. p \in Actors
  BY Roles
<1>2. /\ Item(p) \in Items /\ new \in ActorStates
      /\ new.pc = "gate" /\ new.row = NoRow /\ new.cleared = Item(p)
      /\ new.agenda = Tail(actor[p].agenda)
  BY <1>1, ClearedState DEF GateInv
<1> HIDE DEF new
<1>3. Role(p, new)
  BY <1>2, Roles, GateAssumption DEF Role
<1>4. p \in Writers => new.cleared = "workspace_write" /\ new.agenda = <<>>
  BY <1>2, WriterItem
<1>5. new.cleared = "message" \/ p \in Writers => Granted(new, approvals, contested)
  BY <1>2, Roles DEF new
<1>6. InHand(p, new, approvals, contested)
  BY <1>2, <1>4, <1>5 DEF InHand, GateInv, Typed, NoRow
<1> QED BY <1>2, <1>3, <1>6 DEF Settled, new

(* Allowed by the card's autonomy or by a bounded approval.                *)
LEMMA AllowedKeeps ==
  ASSUME GateInv, NEW p \in Writers \cup {Turn}, NEW a \in Rows, Allowed(p, a)
  PROVE  GateInv'
<1> DEFINE approved == a # NoRow /\ approvals[a].decision \in Approvals
           g == IF approved THEN a ELSE NoRow
           new == Cleared(p, g)
<1>1. p \in Actors /\ Evaluates(p, a, "allow") /\ Step(p, new)
  BY Roles DEF Allowed
<1>2. TableStands /\ WaitsForOpen
  BY DEF Allowed, ghosts, TableStands, WaitsForOpen
<1>3. actor[p].pc = "gate" /\ actor[p].agenda # <<>>
  BY <1>1 DEF Evaluates
<1>4. g \in Nat
  BY GateAssumption DEF Rows, NoRow
<1>5. Granted(new, approvals, contested)
  <2>1. /\ ~ HardDenied(actor[p].card, ClassOf(Item(p)))
        /\ approved \/ /\ ClassOf(Item(p)) = "informational_relay"
                       /\ actor[p].card.relay = "always_allow"
    BY <1>1, AllowedBy
  <2>2. new.card = actor[p].card /\ new.cleared = Item(p) /\ new.grant = g
    BY <1>1, <1>3, <1>4, ClearedState DEF GateInv
  <2>3. approved => a \in DOMAIN approvals
    BY <1>1, TakenRow DEF GateInv
  <2>4. approved => Approves(approvals, contested, a)
    BY <2>3 DEF Approves
  <2>5. CASE approved
    <3>1. g = a /\ a # NoRow
      BY <2>5
    <3> HIDE DEF approved, g, new
    <3> QED BY <2>1, <2>2, <2>4, <2>5, <3>1 DEF Granted
  <2>6. CASE ~ approved
    <3>1. g = NoRow
      BY <2>6
    <3> HIDE DEF approved, g, new
    <3> QED BY <2>1, <2>2, <2>6, <3>1 DEF Granted
  <2> QED BY <2>5, <2>6
<1> HIDE DEF g
<1>6. Settled(p, new)
  BY <1>3, <1>4, <1>5, ClearedSettled
<1> QED BY <1>1, <1>2, <1>6, MovesOn
-----------------------------------------------------------------------------
(* Steps that change no decision.                                          *)

DecisionsStand ==
  /\ approvals' \in Seq(ApprovalRows) /\ Len(approvals') = Len(approvals)
  /\ \A a \in DOMAIN approvals : approvals'[a].decision = approvals[a].decision
  /\ UNCHANGED <<card, waits, answers, contested>>

(* What is in a process's hand stays right while no decision changes.      *)
LEMMA InHandStands ==
  ASSUME Typed, DecisionsStand, NEW p, NEW s, InHand(p, s, approvals, contested)
  PROVE  InHand(p, s, approvals', contested')
<1>1. DOMAIN approvals' = DOMAIN approvals
  BY DEF Typed, DecisionsStand
<1>2. \A a : Approves(approvals, contested, a) => Approves(approvals', contested', a)
  BY <1>1 DEF Approves, DecisionsStand
<1>3. Len(approvals') = Len(approvals)
  BY DEF DecisionsStand
<1>4. s.row <= Len(approvals')
  BY <1>3 DEF InHand
<1> QED BY <1>2, <1>4, HandOver

(* An evaluation that moves on and changes no decision.                    *)
LEMMA Evaluated ==
  ASSUME GateInv, NEW p \in Writers \cup {Turn}, NEW new \in ActorStates, Step(p, new),
         new.pc # "wait", Role(p, new), InHand(p, new, approvals, contested),
         DecisionsStand, uses' \in [1..MaxApprovals -> Nat]
  PROVE  /\ Typed' /\ ActorsOK' /\ AnswersOK' /\ WaitOK'
         /\ \A q \in Actors : actor'[q] = IF q = p THEN new ELSE actor[q]
<1> USE DEF GateInv
<1>0. p \in Actors /\ p \notin Deciders
  BY Roles
<1>1. /\ actor' \in [Actors -> ActorStates]
      /\ \A q \in Actors : actor'[q] = IF q = p THEN new ELSE actor[q]
  BY <1>0 DEF Typed, Step
<1>2. Typed'
  BY <1>1 DEF Typed, DecisionsStand
<1>3. ActorsOK'
  <2>1. \A q \in Actors : Role(q, actor'[q]) /\ InHand(q, actor'[q], approvals, contested)
    BY <1>1 DEF ActorsOK
  <2>2. \A q \in Actors : Role(q, actor'[q]) /\ InHand(q, actor'[q], approvals', contested')
    BY <2>1, InHandStands
  <2> QED BY <2>2 DEF ActorsOK
<1>4. \A q \in Deciders : q \in Actors /\ actor'[q] = actor[q]
  BY <1>0, <1>1, Roles
<1>5. DOMAIN approvals' = DOMAIN approvals
  BY DEF Typed, DecisionsStand
<1>6. AnswersOK'
  <2>1. \A q \in Deciders : \A a : Decides(q, a) => a \in DOMAIN approvals
    BY <1>4, RowInHand DEF Decides, ActorsOK, Typed
  <2> QED BY <1>4, <1>5, <2>1 DEF AnswersOK, Decides, DecisionsStand
<1>7. \A a : Open(a) => Open(a)'
  BY <1>4, <1>5 DEF Open, DecisionsStand
<1>8. WaitOK'
  <2>1. CASE p = Turn
    BY <1>0, <1>1, <1>7, <2>1 DEF WaitOK, DecisionsStand
  <2>2. CASE p # Turn
    BY <1>0, <1>1, <1>7, <2>2, Roles DEF WaitOK, DecisionsStand
  <2> QED BY <2>1, <2>2
<1> QED BY <1>1, <1>2, <1>3, <1>6, <1>8

(* Allowed by an approve_once row: nobody has used it, and somebody else   *)
(* about to use it is a race.                                              *)
LEMMA AllowedOnceKeeps ==
  ASSUME GateInv, NEW p \in Writers \cup {Turn}, NEW a \in Rows, AllowedOnce(p, a)
  PROVE  GateInv'
<1> DEFINE new == [actor[p] EXCEPT !.pc = "consume", !.row = a]
<1>1. p \in Actors /\ Evaluates(p, a, "allow_once") /\ Step(p, new)
  BY Roles DEF AllowedOnce
<1>2. actor[p] \in ActorStates
  BY <1>1 DEF GateInv, Typed
<1>3. a \in Nat
  BY GateAssumption DEF Rows
<1>4. /\ new \in ActorStates /\ new.pc = "consume" /\ new.row = a
      /\ new.agenda = actor[p].agenda /\ new.card = actor[p].card
      /\ new.cleared = actor[p].cleared
  BY ZenonT(30), <1>2, <1>3 DEF ActorStates
<1> HIDE DEF new
<1>5. actor[p].pc = "gate" /\ actor[p].agenda # <<>>
  BY <1>1 DEF Evaluates
<1>6. /\ ~ HardDenied(actor[p].card, ClassOf(Item(p)))
      /\ a # NoRow /\ approvals[a].decision = "approve_once"
  BY <1>1, AllowedBy
<1>7. a \in DOMAIN approvals /\ a \in 1..MaxApprovals /\ ~ approvals[a].consumed
  BY <1>1, <1>6, TakenRow DEF GateInv
<1>8. Role(p, new)
  BY <1>4, Roles DEF Role
<1>9. InHand(p, new, approvals, contested)
  <2>1. Approves(approvals, contested, a)
    BY <1>6, <1>7 DEF Approves, Approvals
  <2>2. p \in Writers => \/ new.agenda = <<"workspace_write">> /\ new.cleared = "none"
                         \/ new.agenda = <<>> /\ new.cleared = "workspace_write"
    BY <1>1, <1>4, <1>5 DEF GateInv, ActorsOK, InHand
  <2>3. a <= Len(approvals)
    BY <1>7 DEF GateInv, Typed
  <2> QED BY <1>4, <1>5, <1>6, <2>1, <2>2, <2>3 DEF InHand, Item
<1>10. DecisionsStand /\ uses' = uses
  BY DEF AllowedOnce, DecisionsStand, GateInv, Typed
<1>11. /\ Typed' /\ ActorsOK' /\ AnswersOK' /\ WaitOK'
       /\ \A q \in Actors : actor'[q] = IF q = p THEN new ELSE actor[q]
  <2>1. uses' \in [1..MaxApprovals -> Nat]
    BY <1>10 DEF GateInv, Typed
  <2> QED BY ZenonT(30), <1>1, <1>4, <1>8, <1>9, <1>10, <2>1, Evaluated
<1>12. UsesOK'
  <2> SUFFICES ASSUME NEW b \in 1..MaxApprovals
               PROVE  /\ uses'[b] > 0 => b \in DOMAIN approvals' /\ approvals'[b].consumed
                      /\ b \notin raced' =>
                           /\ uses'[b] <= 1
                           /\ \A q \in Actors : Holds(q, b)' =>
                                uses'[b] = 0 /\ \A r \in Actors : Holds(r, b)' => r = q
    BY DEF UsesOK
  <2>1. approvals' = approvals /\ raced \subseteq raced'
    BY DEF AllowedOnce
  <2>2. CASE b # a
    <3>1. \A q \in Actors : Holds(q, b)' => Holds(q, b)
      BY <1>4, <1>11, <2>2 DEF Holds
    <3> QED BY <1>10, <2>1, <3>1 DEF GateInv, UsesOK
  <2>3. CASE b = a
    <3>1. uses[b] = 0
      BY <1>7, <2>3 DEF GateInv, UsesOK, Typed
    <3>2. b \notin raced' => \A q \in Actors \ {p} : ~ Holds(q, b)
      BY <2>3 DEF AllowedOnce, Holds
    <3>3. \A q \in Actors \ {p} : Holds(q, b)' => Holds(q, b)
      BY <1>11 DEF Holds
    <3> QED BY <1>10, <3>1, <3>2, <3>3
  <2> QED BY <2>2, <2>3
<1> QED BY <1>11, <1>12 DEF GateInv

(* The row in hand is marked: it has cleared an action.                    *)
LEMMA MarkConsumedKeeps ==
  ASSUME GateInv, NEW p \in Writers \cup {Turn}, MarkConsumed(p)
  PROVE  GateInv'
<1> DEFINE a == actor[p].row
           new == Cleared(p, a)
<1>1. p \in Actors /\ Step(p, new)
  BY Roles DEF MarkConsumed
<1>2. InHand(p, actor[p], approvals, contested) /\ actor[p] \in ActorStates
  BY <1>1 DEF GateInv, ActorsOK, Typed
<1>3. /\ actor[p].pc = "consume" /\ actor[p].agenda # <<>> /\ a # NoRow /\ a \in Nat
      /\ ~ HardDenied(actor[p].card, ClassOf(Item(p)))
      /\ Approves(approvals, contested, a) /\ a <= Len(approvals)
  BY <1>2 DEF MarkConsumed, InHand, Item, ActorStates
<1>4. a \in DOMAIN approvals /\ a \in 1..MaxApprovals
  BY <1>3, GateAssumption DEF GateInv, Typed, NoRow
<1> HIDE DEF a
<1>5. /\ new.card = actor[p].card /\ new.cleared = Item(p) /\ new.grant = a
      /\ new.pc = "gate"
  BY <1>1, <1>3, ClearedState DEF GateInv
<1>6. Settled(p, new)
  <2>1. Granted(new, approvals, contested)
    <3> HIDE DEF new
    <3> QED BY <1>3, <1>5 DEF Granted
  <2> QED BY <1>3, <2>1, ClearedSettled
<1>7. /\ approvals' \in Seq(ApprovalRows) /\ Len(approvals') = Len(approvals)
      /\ approvals'[a].consumed
      /\ \A b \in DOMAIN approvals : /\ approvals'[b].decision = approvals[b].decision
                                     /\ approvals[b].consumed => approvals'[b].consumed
  <2>1. approvals' = [approvals EXCEPT ![a].consumed = TRUE]
    BY DEF MarkConsumed, a
  <2>2. approvals \in Seq(ApprovalRows)
    BY DEF GateInv, Typed
  <2> DEFINE row == [approvals[a] EXCEPT !.consumed = TRUE]
  <2>3. approvals[a] \in ApprovalRows
    BY <1>4, <2>2
  <2>4. row \in ApprovalRows /\ row.consumed /\ row.decision = approvals[a].decision
    BY ZenonT(30), <2>3 DEF ApprovalRows
  <2>5. approvals' = [approvals EXCEPT ![a] = row]
    BY <2>1
  <2> HIDE DEF row
  <2> QED BY <1>4, <2>2, <2>4, <2>5, RowChanged
<1>8. DecisionsStand
  BY <1>7 DEF MarkConsumed, DecisionsStand
<1>9. /\ uses' \in [1..MaxApprovals -> Nat] /\ uses'[a] = uses[a] + 1
      /\ \A b \in 1..MaxApprovals : b # a => uses'[b] = uses[b]
  BY <1>4 DEF MarkConsumed, GateInv, Typed, a
<1>10. /\ Typed' /\ ActorsOK' /\ AnswersOK' /\ WaitOK'
       /\ \A q \in Actors : actor'[q] = IF q = p THEN new ELSE actor[q]
  <2> HIDE DEF new
  <2>1. new \in ActorStates /\ Role(p, new) /\ InHand(p, new, approvals, contested)
    BY <1>6 DEF Settled
  <2>2. uses' \in [1..MaxApprovals -> Nat] /\ new.pc # "wait"
    BY <1>5, <1>9
  <2> QED BY <1>1, <1>8, <2>1, <2>2, Evaluated
<1> HIDE DEF new
<1>11. UsesOK'
  <2> SUFFICES ASSUME NEW b \in 1..MaxApprovals
               PROVE  /\ uses'[b] > 0 => b \in DOMAIN approvals' /\ approvals'[b].consumed
                      /\ b \notin raced' =>
                           /\ uses'[b] <= 1
                           /\ \A q \in Actors : Holds(q, b)' =>
                                uses'[b] = 0 /\ \A r \in Actors : Holds(r, b)' => r = q
    BY DEF UsesOK
  <2>1. raced' = raced /\ DOMAIN approvals' = DOMAIN approvals
    BY <1>7 DEF MarkConsumed, GateInv, Typed
  <2>2. \A q \in Actors : Holds(q, b)' => q # p /\ Holds(q, b)
    BY <1>5, <1>10 DEF Holds
  <2>3. CASE b # a
    BY <1>7, <1>9, <2>1, <2>2, <2>3 DEF GateInv, UsesOK
  <2>4. CASE b = a
    <3>1. Holds(p, b)
      BY <1>3, <2>4 DEF Holds, a
    <3>2. b \notin raced => uses[b] = 0 /\ \A q \in Actors : ~ Holds(q, b)'
      BY <1>1, <2>2, <3>1 DEF GateInv, UsesOK
    <3> QED BY <1>4, <1>7, <1>9, <2>1, <2>4, <3>2
  <2> QED BY <2>3, <2>4
<1> QED BY <1>10, <1>11 DEF GateInv
-----------------------------------------------------------------------------
(* The turn and the writers.                                               *)

(* A turn with a usable response has an agenda of known items.             *)
LEMMA TurnBeginsKeeps ==
  ASSUME GateInv, NEW call \in Calls, NEW agenda \in Agendas, TurnBegins(call, agenda)
  PROVE  GateInv'
<1> DEFINE todo == Response(card.adapter, call, agenda).agenda
           new == [Resting EXCEPT !.pc = "gate", !.agenda = todo, !.card = card]
<1>1. todo \in Seq(Items)
  <2>1. <<"message">> \in Seq(Items) /\ <<>> \in Seq(Items) /\ agenda \in Seq(Items)
    BY GateAssumption DEF Items
  <2>3. card.adapter \in {"local_command", "webhook", "embedded", "sdk"}
    BY GateAssumption DEF GateInv, Typed
  <2>4. call \in {"times_out", "fails", "text", "json"}
    BY GateAssumption
  <2>5. \A c \in {"times_out", "fails", "text", "json"}, todos \in Seq(Items) :
           local_command_invoke(c, todos).agenda \in Seq(Items)
    BY <2>1 DEF local_command_invoke, Says, Fails
  <2> QED
    BY ZenonT(30), <2>1, <2>3, <2>4, <2>5 DEF Response, webhook_invoke, embedded_invoke, sdk_invoke
<1> HIDE DEF todo
<1>2. /\ new \in ActorStates /\ new.pc = "gate" /\ new.row = NoRow /\ new.cleared = "none"
  BY ZenonT(30), <1>1, RestingOK DEF ActorStates, GateInv, Typed
<1>3. Step(Turn, new) /\ TableStands /\ WaitsForOpen
  BY DEF TurnBegins, todo, ghosts, TableStands, WaitsForOpen
<1> HIDE DEF new
<1>4. Settled(Turn, new)
  BY <1>2, Roles DEF Settled, Role, InHand, GateInv, Typed, NoRow
<1> QED BY <1>3, <1>4, Roles, MovesOn

(* A writer starts with one thing to clear.                                *)
LEMMA WriteBeginsKeeps ==
  ASSUME GateInv, NEW w \in Writers, WriteBegins(w)
  PROVE  GateInv'
<1> DEFINE new == [Resting EXCEPT !.pc = "gate", !.agenda = <<"workspace_write">>,
                                  !.card = card]
<1>1. <<"workspace_write">> \in Seq(Items)
  BY DEF Items
<1>2. /\ new \in ActorStates /\ new.pc = "gate" /\ new.row = NoRow /\ new.cleared = "none"
      /\ new.agenda = <<"workspace_write">>
  BY ZenonT(30), <1>1, RestingOK DEF ActorStates, GateInv, Typed
<1>3. Step(w, new) /\ TableStands /\ WaitsForOpen
  BY DEF WriteBegins, ghosts, TableStands, WaitsForOpen
<1> HIDE DEF new
<1>4. Settled(w, new)
  BY <1>2, Roles DEF Settled, Role, InHand, GateInv, Typed, NoRow
<1> QED BY <1>3, <1>4, Roles, MovesOn

(* A denial passes over a request and ends a turn at its message.          *)
LEMMA TurnDeniedKeeps ==
  ASSUME GateInv, NEW a \in Rows, TurnDenied(a)
  PROVE  GateInv'
<1>1. TableStands /\ waits' = waits
  BY DEF TurnDenied, ghosts, TableStands
<1>2. CASE Rest(Turn)
  BY <1>1, <1>2, Roles, Stops
<1>3. CASE Item(Turn) # "message" /\ Step(Turn, Cleared(Turn, NoRow))
  <2>1. actor[Turn].pc = "gate" /\ actor[Turn].agenda # <<>>
    BY DEF TurnDenied, Evaluates
  <2>2. Settled(Turn, Cleared(Turn, NoRow))
    BY <1>3, <2>1, ClearedSettled DEF NoRow
  <2> QED BY <1>1, <1>3, <2>2, Roles, MovesOn DEF WaitsForOpen
<1> QED BY <1>2, <1>3 DEF TurnDenied

(* A new row is open, and nobody has it in hand but the turn.              *)
LEMMA TurnAsksKeeps ==
  ASSUME GateInv, NEW a \in Rows, TurnAsks(a)
  PROVE  GateInv'
<1> DEFINE row == [class |-> ClassOf(Item(Turn)), at |-> 0, decision |-> Undecided,
                   expired |-> FALSE, consumed |-> FALSE]
<1> USE DEF GateInv
<1>0. PICK n \in Nat : n = Len(approvals) + 1 /\ n # NoRow
  BY DEF Typed, NoRow
<1> DEFINE new == [actor[Turn] EXCEPT !.pc = "wait", !.row = n, !.overtaken = FALSE]
<1>1. /\ actor[Turn].pc = "gate" /\ actor[Turn].agenda # <<>>
      /\ approvals' = Append(approvals, row) /\ Step(Turn, new) /\ n <= MaxApprovals
      /\ UNCHANGED <<card, waits, answers, uses, contested, raced>>
  BY <1>0, GateAssumption DEF TurnAsks, Evaluates, ghosts, Typed
<1>2. Item(Turn) \in Items
  BY <1>1, Roles, ClearedState DEF NoRow
<1>3. row \in ApprovalRows
  BY <1>2 DEF ApprovalRows, ActionClasses, ClassOf, Items
<1>4. row.decision = Undecided
  OBVIOUS
<1> HIDE DEF row
<1>5. /\ approvals' \in Seq(ApprovalRows) /\ Len(approvals') = n
      /\ \A b \in DOMAIN approvals : b \in DOMAIN approvals' /\ approvals'[b] = approvals[b]
      /\ n \in DOMAIN approvals' /\ approvals'[n] = row
  BY <1>0, <1>1, <1>3, AppendProperties DEF Typed
<1>6. /\ new \in ActorStates /\ new.pc = "wait" /\ new.row = n
  <2>1. actor[Turn] \in ActorStates
    BY Roles DEF Typed
  <2> QED BY ZenonT(30), <2>1 DEF ActorStates
<1> HIDE DEF new
<1>7. /\ actor' \in [Actors -> ActorStates]
      /\ \A q \in Actors : actor'[q] = IF q = Turn THEN new ELSE actor[q]
  BY ZenonT(30), <1>1, <1>6 DEF Typed, Step
<1>8. Typed'
  BY <1>1, <1>5, <1>7 DEF Typed
<1>9. \A q \in Actors \ {Turn} : actor'[q] = actor[q] /\ actor[q].row \in Nat /\ actor[q].row < n
  <2>1. \A q \in Actors : actor[q].row \in Nat /\ actor[q].row <= Len(approvals)
    BY RowInHand DEF ActorsOK, Typed
  <2> QED BY <1>0, <1>7, <2>1 DEF Typed
<1>10. ActorsOK'
  <2>1. Role(Turn, actor'[Turn]) /\ InHand(Turn, actor'[Turn], approvals', contested')
    BY <1>0, <1>5, <1>6, <1>7, Roles DEF Role, InHand
  <2>2. \A b : Approves(approvals, contested, b) => Approves(approvals', contested', b)
    BY <1>1, <1>5 DEF Approves
  <2>3. ASSUME NEW q \in Actors, q # Turn
        PROVE  Role(q, actor'[q]) /\ InHand(q, actor'[q], approvals', contested')
    <3>1. Role(q, actor[q]) /\ InHand(q, actor[q], approvals, contested) /\ actor'[q] = actor[q]
      BY <1>9, <2>3 DEF ActorsOK
    <3>2. actor[q].row <= Len(approvals')
      BY <1>0, <1>5, <1>9, <2>3 DEF Typed
    <3> QED BY <2>2, <3>1, <3>2, HandOver
  <2> QED BY <2>1, <2>3 DEF ActorsOK
<1>11. UsesOK'
  <2>1. \A q \in Actors : \A b : Holds(q, b)' => Holds(q, b)
    BY <1>6, <1>7 DEF Holds
  <2> QED BY <1>1, <1>5, <2>1 DEF UsesOK
<1>12. \A q \in Deciders : q \in Actors \ {Turn}
  BY Roles
<1>13. AnswersOK'
  <2>1. \A q \in Deciders : \A b : /\ Decides(q, b)' => Decides(q, b)
                                   /\ Decides(q, b) => b \in DOMAIN approvals
    BY <1>9, <1>12, RowInHand DEF Decides, ActorsOK, Typed
  <2> QED BY <1>1, <1>5, <2>1 DEF AnswersOK
<1>14. Open(n)'
  BY <1>4, <1>5, <1>9, <1>12 DEF Open
<1>15. \A b : Open(b) => Open(b)'
  BY <1>5, <1>9, <1>12 DEF Open
<1>16. WaitOK'
  <2>1. actor'[Turn].row = n
    BY <1>6, <1>7, Roles
  <2> QED BY <1>1, <1>14, <1>15, <2>1 DEF WaitOK
<1> QED BY <1>8, <1>10, <1>11, <1>13, <1>16

(* The session waits for the turn's row, unless it was answered before.    *)
LEMMA TurnWaitsKeeps ==
  ASSUME GateInv, TurnWaits
  PROVE  GateInv'
<1>1. Turn \in Actors /\ Settled(Turn, Resting) /\ Step(Turn, Resting)
  BY Roles, RestingSettled DEF TurnWaits, Rest
<1>2. TableStands
  BY DEF TurnWaits, TableStands
<1>3. WaitsForOpen
  BY DEF TurnWaits, WaitsForOpen, GateInv, WaitOK
<1> QED BY <1>1, <1>2, <1>3, MovesOn

(* A row expires: no decision changes.                                     *)
LEMMA ApprovalExpiresKeeps ==
  ASSUME GateInv, NEW a \in DOMAIN approvals, ApprovalExpires(a)
  PROVE  GateInv'
<1> DEFINE row == [approvals[a] EXCEPT !.expired = TRUE]
<1> USE DEF GateInv
<1>1. approvals \in Seq(ApprovalRows) /\ approvals[a] \in ApprovalRows
  BY DEF Typed
<1>2. /\ row \in ApprovalRows /\ row.consumed = approvals[a].consumed
      /\ row.decision = approvals[a].decision
  BY ZenonT(30), <1>1 DEF ApprovalRows
<1>3. /\ approvals' = [approvals EXCEPT ![a] = row]
      /\ UNCHANGED <<card, actor, waits, answers, uses, contested, raced>>
  BY DEF ApprovalExpires, ghosts
<1> HIDE DEF row
<1>4. /\ approvals' \in Seq(ApprovalRows) /\ Len(approvals') = Len(approvals)
      /\ DOMAIN approvals' = DOMAIN approvals
      /\ \A b \in DOMAIN approvals : /\ approvals'[b].decision = approvals[b].decision
                                     /\ approvals'[b].consumed = approvals[b].consumed
  BY <1>1, <1>2, <1>3, RowChanged
<1>5. DecisionsStand
  BY <1>3, <1>4 DEF DecisionsStand
<1>6. Typed'
  BY <1>3, <1>4 DEF Typed
<1>7. ActorsOK'
  <2>1. \A q \in Actors : Role(q, actor'[q]) /\ InHand(q, actor'[q], approvals', contested')
    BY ZenonT(30), <1>3, <1>5, InHandStands DEF ActorsOK
  <2> QED BY <2>1 DEF ActorsOK
<1>8. UsesOK'
  BY <1>3, <1>4 DEF UsesOK, Holds
<1>9. AnswersOK'
  <2>1. \A q \in Deciders : \A b : Decides(q, b) => b \in DOMAIN approvals
    BY Roles, RowInHand DEF Decides, ActorsOK, Typed
  <2> QED BY <1>3, <1>4, <2>1 DEF AnswersOK, Decides
<1>10. WaitOK'
  BY <1>3, <1>4 DEF WaitOK, Open
<1> QED BY <1>6, <1>7, <1>8, <1>9, <1>10
-----------------------------------------------------------------------------
(* The owner's decisions.                                                  *)

(* A process takes up an undecided row; one that another has in hand is    *)
(* contested from now on.                                                  *)
LEMMA DecideReadsKeeps ==
  ASSUME GateInv, NEW p \in Deciders, NEW a \in DOMAIN approvals,
         NEW decision \in Decisions, DecideReads(p, a, decision)
  PROVE  GateInv'
<1> DEFINE new == [Resting EXCEPT !.pc = "decide", !.row = a, !.decision = decision,
                                  !.at = NextStamp]
<1> USE DEF GateInv
<1>1. /\ approvals[a].decision = Undecided /\ Step(p, new) /\ NextStamp \in Nat
      /\ contested' = IF \E q \in Deciders \ {p} : actor[q].row = a
                      THEN contested \cup {a} ELSE contested
      /\ UNCHANGED <<approvals, card, waits, answers, uses, raced>>
  BY GateAssumption DEF DecideReads
<1>2. a \in Nat /\ a # NoRow /\ a <= Len(approvals)
  BY DEF Typed, NoRow
<1>3. /\ new \in ActorStates /\ new.pc = "decide" /\ new.row = a /\ new.decision = decision
  <2> HIDE DEF NextStamp
  <2> QED BY ZenonT(30), <1>1, <1>2, RestingOK DEF ActorStates
<1> HIDE DEF new
<1>4. /\ actor' \in [Actors -> ActorStates] /\ p # Turn
      /\ \A q \in Actors : actor'[q] = IF q = p THEN new ELSE actor[q]
  BY <1>1, <1>3, Roles DEF Typed, Step
<1>5. Typed'
  BY <1>1, <1>4 DEF Typed
<1>6. contested \subseteq contested'
  BY <1>1
<1>7. ActorsOK'
  <2>1. \A b : Approves(approvals, contested, b) => Approves(approvals', contested', b)
    BY <1>1, <1>6 DEF Approves
  <2>2. Role(p, new) /\ InHand(p, new, approvals', contested')
    BY <1>1, <1>2, <1>3, Roles DEF Role, InHand
  <2>3. ASSUME NEW q \in Actors, q # p
        PROVE  Role(q, actor'[q]) /\ InHand(q, actor'[q], approvals', contested')
    <3>1. Role(q, actor[q]) /\ InHand(q, actor[q], approvals, contested) /\ actor'[q] = actor[q]
      BY <1>4, <2>3 DEF ActorsOK
    <3>2. actor[q].row <= Len(approvals')
      BY <1>1, <3>1 DEF InHand
    <3> QED BY <2>1, <3>1, <3>2, HandOver
  <2> QED BY <1>4, <2>2, <2>3, Roles DEF ActorsOK
<1>8. UsesOK'
  <2>1. \A q \in Actors : \A b : Holds(q, b)' => Holds(q, b)
    BY <1>3, <1>4 DEF Holds
  <2> QED BY <1>1, <2>1 DEF UsesOK
<1>9. AnswersOK'
  <2> SUFFICES ASSUME NEW b \in 1..MaxApprovals, b \notin contested'
               PROVE  \A q \in Deciders : Decides(q, b)' =>
                        /\ approvals[b].decision = Undecided
                        /\ \A r \in Deciders : Decides(r, b)' => r = q
    BY ZenonT(30), <1>1, <1>6 DEF AnswersOK
  <2>1. \A q \in Deciders \ {p} : Decides(q, b)' => Decides(q, b)
    BY <1>4, Roles DEF Decides
  <2>2. CASE b = a
    <3>1. \A q \in Deciders \ {p} : ~ Decides(q, b)
      BY <1>1, <2>2 DEF Decides
    <3> QED BY <1>1, <2>1, <2>2, <3>1
  <2>3. CASE b # a
    <3>1. ~ Decides(p, b)'
      BY <1>3, <1>4, <2>3, Roles DEF Decides
    <3> QED BY <1>6, <2>1, <3>1 DEF AnswersOK
  <2> QED BY <2>2, <2>3
<1>10. \A b : Open(b) => Open(b)'
  BY <1>1, <1>3, <1>4, Roles DEF Open
<1>11. WaitOK'
  BY <1>1, <1>4, <1>10, Roles DEF WaitOK
<1> QED BY <1>5, <1>7, <1>8, <1>9, <1>11

(* The session moves: nobody waits for the row any more, and a turn about  *)
(* to wait for it is overtaken.                                            *)
LEMMA DecideMovesKeeps ==
  ASSUME GateInv, NEW p \in Deciders, DecideMoves(p)
  PROVE  GateInv'
<1>1. CASE Rest(p) /\ waits' = waits
  <2>1. TableStands
    BY DEF DecideMoves, TableStands
  <2> QED BY <1>1, <2>1, Roles, Stops
<1>2. CASE /\ actor' = [actor EXCEPT ![p].pc = "record",
                           ![Turn].overtaken = @ \/ actor[Turn].row = actor[p].row]
           /\ waits' = NoRow
  <2> USE DEF GateInv
  <2> DEFINE mine == [actor[p] EXCEPT !.pc = "record"]
             turn == [actor[Turn] EXCEPT !.overtaken = @ \/ actor[Turn].row = actor[p].row]
  <2>1. /\ actor[p].pc = "decide"
        /\ UNCHANGED <<approvals, card, answers, uses, contested, raced>>
    BY DEF DecideMoves
  <2>2. p \in Actors /\ Turn \in Actors /\ p # Turn
    BY Roles
  <2>3. actor[p] \in ActorStates /\ actor[Turn] \in ActorStates
    BY <2>2 DEF Typed
  <2>4. /\ mine \in ActorStates /\ mine.pc = "record" /\ mine.row = actor[p].row
        /\ mine.decision = actor[p].decision
    BY <2>3 DEF ActorStates
  <2>5. /\ turn \in ActorStates /\ turn.pc = actor[Turn].pc /\ turn.row = actor[Turn].row
        /\ turn.overtaken = (actor[Turn].overtaken \/ actor[Turn].row = actor[p].row)
        /\ turn.agenda = actor[Turn].agenda /\ turn.card = actor[Turn].card
        /\ turn.decision = actor[Turn].decision /\ turn.grant = actor[Turn].grant
        /\ turn.cleared = actor[Turn].cleared
    BY ZenonT(30), <2>3 DEF ActorStates
  <2>6. actor'[p] = mine /\ actor'[Turn] = turn
    BY ZenonT(30), <1>2, <2>2, <2>3 DEF Typed, ActorStates
  <2>7. \A q \in Actors : q # p /\ q # Turn => actor'[q] = actor[q]
    BY <1>2, <2>2 DEF Typed
  <2>8. actor' \in [Actors -> ActorStates]
    <3>1. DOMAIN actor' = Actors
      BY <1>2 DEF Typed
    <3> HIDE DEF mine, turn
    <3> QED BY ZenonT(30), <1>2, <2>4, <2>5, <2>6, <2>7, <3>1 DEF Typed
  <2> HIDE DEF mine, turn
  <2>9. Typed'
    BY <2>1, <2>8 DEF Typed
  <2>10. ActorsOK'
    <3>1. Role(p, mine) /\ InHand(p, mine, approvals, contested)
      BY ZenonT(30), <2>1, <2>2, <2>4, Roles DEF ActorsOK, Role, InHand
    <3>2. Role(Turn, turn) /\ InHand(Turn, turn, approvals, contested)
      BY ZenonT(30), <2>2, <2>5, Roles DEF ActorsOK, Role, InHand, Granted
    <3>3. \A q \in Actors : Role(q, actor'[q]) /\ InHand(q, actor'[q], approvals', contested')
      BY ZenonT(30), <2>1, <2>6, <2>7, <3>1, <3>2 DEF ActorsOK
    <3> QED BY <3>3 DEF ActorsOK
  <2>11. UsesOK'
    <3>1. \A q \in Actors : \A b : Holds(q, b)' => Holds(q, b)
      BY <2>4, <2>5, <2>6, <2>7 DEF Holds
    <3> QED BY ZenonT(30), <2>1, <3>1 DEF UsesOK
  <2>12. AnswersOK'
    <3>1. \A q \in Deciders : \A b : Decides(q, b)' => Decides(q, b)
      BY <2>1, <2>4, <2>6, <2>7, Roles DEF Decides
    <3> QED BY <2>1, <3>1 DEF AnswersOK
  <2>13. WaitOK'
    <3>0. PICK r : r = actor[Turn].row
      OBVIOUS
    <3>1. actor'[Turn].row = r
      BY <2>5, <2>6, <3>0
    <3>2. ASSUME actor'[Turn].pc = "wait", ~ actor'[Turn].overtaken
          PROVE  Open(r)'
      <4>1. Open(r) /\ r # actor[p].row
        BY ZenonT(30), <2>5, <2>6, <3>0, <3>2 DEF WaitOK
      <4> QED BY <2>1, <2>4, <2>5, <2>6, <2>7, <4>1, Roles DEF Open
    <3> QED BY <1>2, <3>1, <3>2 DEF WaitOK
  <2> QED BY <2>9, <2>10, <2>11, <2>12, <2>13
<1> QED BY <1>1, <1>2 DEF DecideMoves

(* The answer is written: a row that nobody contests had none.             *)
LEMMA DecideRecordsKeeps ==
  ASSUME GateInv, NEW p \in Deciders, DecideRecords(p)
  PROVE  GateInv'
<1> USE DEF GateInv
<1>0. PICK a : a = actor[p].row
  OBVIOUS
<1>1. p \in Actors /\ actor[p] \in ActorStates /\ InHand(p, actor[p], approvals, contested)
  BY Roles DEF Typed, ActorsOK
<1>2. /\ actor[p].pc = "record" /\ Rest(p)
      /\ approvals' = [approvals EXCEPT ![a].decision = actor[p].decision, ![a].at = actor[p].at]
      /\ answers' = [answers EXCEPT ![a] = @ + 1]
      /\ UNCHANGED <<card, waits, uses, contested, raced>>
  BY <1>0 DEF DecideRecords
<1>3. a \in DOMAIN approvals /\ a \in 1..MaxApprovals /\ actor[p].decision \in Decisions
  BY <1>0, <1>1, <1>2, GateAssumption DEF InHand, Typed, ActorStates, NoRow
<1>4. Decides(p, a)
  BY <1>0, <1>2 DEF Decides
<1> DEFINE row == [approvals[a] EXCEPT !.decision = actor[p].decision, !.at = actor[p].at]
<1>5. /\ row \in ApprovalRows /\ row.consumed = approvals[a].consumed
      /\ row.decision = actor[p].decision
  <2>1. approvals[a] \in ApprovalRows
    BY <1>3 DEF Typed
  <2> QED BY ZenonT(30), <1>1, <1>3, <2>1 DEF ApprovalRows, ActorStates
<1>6. approvals' = [approvals EXCEPT ![a] = row]
  BY ZenonT(30), <1>2
<1> HIDE DEF row
<1>7. /\ approvals' \in Seq(ApprovalRows) /\ Len(approvals') = Len(approvals)
      /\ DOMAIN approvals' = DOMAIN approvals /\ approvals'[a] = row
      /\ \A b \in DOMAIN approvals : b # a => approvals'[b] = approvals[b]
  BY <1>3, <1>5, <1>6, RowChanged DEF Typed
<1>8. row.decision # Undecided
  BY <1>3, <1>5 DEF Decisions, Approvals, Undecided
<1>9. /\ actor' \in [Actors -> ActorStates]
      /\ \A q \in Actors : actor'[q] = IF q = p THEN Resting ELSE actor[q]
  BY <1>1, <1>2, RestingOK DEF Typed, Rest, Step
<1>10. answers' \in [1..MaxApprovals -> Nat] /\ answers'[a] = answers[a] + 1
       /\ \A b \in 1..MaxApprovals : b # a => answers'[b] = answers[b]
  BY <1>2, <1>3 DEF Typed
<1>11. Typed'
  BY <1>2, <1>7, <1>9, <1>10 DEF Typed
<1>12. a \notin contested =>
         /\ answers[a] = 0 /\ approvals[a].decision = Undecided
         /\ \A q \in Deciders : Decides(q, a) => q = p
  BY <1>3, <1>4 DEF AnswersOK, Typed
<1>13. \A b : Approves(approvals, contested, b) => Approves(approvals', contested', b)
  <2>1. a \notin contested => approvals[a].decision \notin Approvals
    BY <1>12, UndecidedIsNoApproval
  <2> QED BY <1>2, <1>7, <2>1 DEF Approves
<1>14. ActorsOK'
  <2>1. Role(p, Resting) /\ InHand(p, Resting, approvals', contested')
    BY <1>1, <1>7, RestingInHand
  <2>2. ASSUME NEW q \in Actors, q # p
        PROVE  Role(q, actor'[q]) /\ InHand(q, actor'[q], approvals', contested')
    <3>1. Role(q, actor[q]) /\ InHand(q, actor[q], approvals, contested) /\ actor'[q] = actor[q]
      BY <1>9, <2>2 DEF ActorsOK
    <3>2. actor[q].row <= Len(approvals')
      BY ZenonT(30), <1>7, <3>1 DEF InHand
    <3> QED BY <1>13, <3>1, <3>2, HandOver
  <2> QED BY <1>9, <2>1, <2>2 DEF ActorsOK
<1>15. UsesOK'
  <2>1. \A q \in Actors : \A b : Holds(q, b)' => Holds(q, b)
    BY <1>9, RestingOK DEF Holds
  <2>2. \A b \in DOMAIN approvals : approvals'[b].consumed = approvals[b].consumed
    BY <1>5, <1>7
  <2> QED BY <1>2, <1>7, <2>1, <2>2 DEF UsesOK
<1>16. AnswersOK'
  <2>1. \A q \in Deciders : \A b : Decides(q, b)' => q # p /\ Decides(q, b)
    BY <1>9, RestingOK, Roles DEF Decides
  <2> SUFFICES ASSUME NEW b \in 1..MaxApprovals
               PROVE  /\ answers'[b] > 0 => /\ b \in DOMAIN approvals'
                                            /\ approvals'[b].decision # Undecided
                      /\ b \notin contested =>
                           /\ answers'[b] <= 1
                           /\ \A q \in Deciders : Decides(q, b)' =>
                                /\ approvals'[b].decision = Undecided
                                /\ \A r \in Deciders : Decides(r, b)' => r = q
    BY ZenonT(30), <1>2 DEF AnswersOK
  <2>2. CASE b = a
    <3>1. b \notin contested => \A q \in Deciders : ~ Decides(q, b)'
      BY <1>12, <2>1, <2>2
    <3>2. b \notin contested => answers'[b] = 1
      BY <1>10, <1>12, <2>2
    <3> QED BY <1>3, <1>7, <1>8, <2>2, <3>1, <3>2
  <2>3. CASE b # a
    <3>1. \A q \in Deciders : Decides(q, b) => b \in DOMAIN approvals
      BY Roles, RowInHand DEF Decides, ActorsOK, Typed
    <3> QED BY <1>7, <1>10, <2>1, <2>3, <3>1 DEF AnswersOK
  <2> QED BY <2>2, <2>3
<1>17. \A b : Open(b) => b # a /\ Open(b)'
  BY <1>0, <1>2, <1>7, <1>9, RestingOK, Roles DEF Open
<1>18. WaitOK'
  <2>1. actor'[Turn] = actor[Turn]
    BY <1>9, Roles
  <2> QED BY <1>2, <1>17, <2>1 DEF WaitOK
<1> QED BY <1>11, <1>14, <1>15, <1>16, <1>18
-----------------------------------------------------------------------------
(* Every step.                                                             *)

(* Nobody has anything in hand at first.                                   *)
LEMMA GateInitially == GateInit => GateInv
<1> SUFFICES ASSUME GateInit PROVE GateInv
  OBVIOUS
<1> USE DEF GateInit
<1>1. Typed
  BY RestingOK, GateAssumption DEF Typed
<1>2. \A p \in Actors : actor[p] = Resting
  OBVIOUS
<1>3. ActorsOK
  <2>1. approvals \in Seq(ApprovalRows)
    BY <1>1 DEF Typed
  <2> HIDE DEF GateInit
  <2> QED BY <1>2, <2>1, RestingInHand DEF ActorsOK
<1>4. UsesOK /\ AnswersOK
  BY <1>2, RestingOK, Roles DEF UsesOK, Holds, AnswersOK, Decides
<1>5. WaitOK
  BY <1>2, RestingOK, Roles DEF WaitOK
<1> QED BY <1>1, <1>3, <1>4, <1>5 DEF GateInv

(* A key decides one of the four decisions.                                *)
LEMMA KeysKeep ==
  ASSUME GateInv, NEW p \in Deciders, NEW k \in Keys[p],
         inbox_key(p, k) \/ handle_approval_key(p, k) \/ approval_decide(p, k)
  PROVE  GateInv'
<1>1. DecisionFor[k] \in Decisions
  BY GateAssumption DEF DecisionFor, Decisions, Approvals
<1>2. PICK a \in DOMAIN approvals : DecideReads(p, a, DecisionFor[k])
  BY DEF inbox_key, handle_approval_key, approval_decide, get_pending_approvals,
         get_approvals_for_session
<1> QED BY <1>1, <1>2, DecideReadsKeeps

(* Steps that change no row and leave their process at rest.               *)
LEMMA RestsKeep ==
  ASSUME GateInv,
         \/ TurnSends
         \/ \E a \in Rows : TurnRaises(a)
         \/ \E w \in Writers : Writes(w) \/ \E a \in Rows : WriteRefused(w, a)
         \/ \E p \in Actors : ProcessDies(p)
  PROVE  GateInv'
<1>1. PICK p \in Actors : Rest(p)
  BY Roles DEF TurnSends, TurnRaises, Writes, WriteRefused, ProcessDies
<1>2. TableStands /\ waits' = waits
  BY DEF TurnSends, TurnRaises, Writes, WriteRefused, ProcessDies, ghosts, TableStands
<1> QED BY <1>1, <1>2, Stops

(* Steps that leave rows and processes alone.                              *)
LEMMA StandsKeep ==
  ASSUME GateInv,
         \/ UNCHANGED gateVars
         \/ \E call \in Calls, agenda \in Agendas : TurnRejected(call, agenda)
         \/ \E action \in OwnerActions : OwnerMoves(action)
         \/ \E c \in Cards : EditCard(c)
  PROVE  GateInv'
<1>1. card \in Cards
  BY DEF GateInv, Typed
<1>2. /\ card' \in Cards /\ (waits' = NoRow \/ waits' = waits)
      /\ UNCHANGED <<approvals, actor, answers, uses, contested, raced>>
  BY <1>1 DEF gateVars, TurnRejected, OwnerMoves, EditCard, ghosts
<1> QED BY <1>2, Stands

(* Every step keeps the invariant.                                         *)
LEMMA GateSteps == GateInv /\ [GateNext]_gateVars => GateInv'
<1> SUFFICES ASSUME GateInv, [GateNext]_gateVars PROVE GateInv'
  OBVIOUS
<1>1. ASSUME NEW p \in Writers \cup {Turn}, MarkConsumed(p) PROVE GateInv'
  BY <1>1, MarkConsumedKeeps
<1>2. ASSUME NEW p \in Writers \cup {Turn}, NEW a \in Rows, Allowed(p, a) \/ AllowedOnce(p, a)
      PROVE  GateInv'
  BY <1>2, AllowedKeeps, AllowedOnceKeeps
<1>3. ASSUME NEW call \in Calls, NEW agenda \in Agendas, TurnBegins(call, agenda)
      PROVE  GateInv'
  BY <1>3, TurnBeginsKeeps
<1>4. CASE TurnWaits
  BY <1>4, TurnWaitsKeeps
<1>5. ASSUME NEW a \in Rows, TurnDenied(a) \/ TurnAsks(a) PROVE GateInv'
  BY <1>5, TurnDeniedKeeps, TurnAsksKeeps
<1>6. ASSUME NEW w \in Writers, WriteBegins(w) PROVE GateInv'
  BY <1>6, WriteBeginsKeeps
<1>7. ASSUME NEW p \in Deciders, DecideMoves(p) \/ DecideRecords(p) PROVE GateInv'
  BY <1>7, DecideMovesKeeps, DecideRecordsKeeps
<1>8. ASSUME NEW p \in Deciders, NEW k \in Keys[p],
             inbox_key(p, k) \/ handle_approval_key(p, k) \/ approval_decide(p, k)
      PROVE  GateInv'
  BY <1>8, KeysKeep
<1>9. ASSUME NEW a \in DOMAIN approvals, ApprovalExpires(a) PROVE GateInv'
  BY <1>9, ApprovalExpiresKeeps
<1> QED BY ZenonT(30), <1>1, <1>2, <1>3, <1>4, <1>5, <1>6, <1>7, <1>8, <1>9, RestsKeep, StandsKeep
           DEF GateNext

(* The invariant implies the four properties.                              *)
LEMMA GateImplies ==
  GateInv => OnceIsOnce /\ AnsweredOnce /\ ClearedByOwner /\ WaitsForAnOpenRow
<1> SUFFICES ASSUME GateInv
             PROVE  OnceIsOnce /\ AnsweredOnce /\ ClearedByOwner /\ WaitsForAnOpenRow
  OBVIOUS
<1> USE DEF GateInv
<1>1. \A a \in DOMAIN approvals : a \in 1..MaxApprovals /\ uses[a] \in Nat /\ answers[a] \in Nat
  BY GateAssumption DEF Typed
<1>2. OnceIsOnce /\ AnsweredOnce
  BY <1>1 DEF OnceIsOnce, AnsweredOnce, UsesOK, AnswersOK
<1>3. ClearedByOwner
  <2>1. ASSUME NEW p \in Actors, actor[p].pc = "gate", actor[p].agenda = <<>>,
               actor[p].cleared = "message" \/ p \in Writers
        PROVE  Granted(actor[p], approvals, contested)
    <3>1. InHand(p, actor[p], approvals, contested)
      BY DEF ActorsOK
    <3>2. actor[p].cleared # "none"
      <4>1. actor[p].agenda # <<"workspace_write">>
        BY <2>1
      <4> QED BY ZenonT(30), <2>1, <3>1, <4>1 DEF InHand
    <3> QED BY <2>1, <3>1, <3>2 DEF InHand
  <2> QED BY <2>1 DEF ClearedByOwner, Granted, Approves
<1>4. WaitsForAnOpenRow
  BY DEF WaitsForAnOpenRow, WaitOK, Open
<1> QED BY <1>2, <1>3, <1>4

(* The invariant holds throughout.                                         *)
LEMMA GateAlways == GateSpec => []GateInv
BY GateInitially, GateSteps, PTL DEF GateSpec

(* An approve_once decision clears one action, unless two evaluations of   *)
(* evaluate_action_for_session had selected its row before either marked   *)
(* it as used, however many processes write files beside the turn.         *)
THEOREM OnceIsOnceHolds == GateSpec => []OnceIsOnce
BY GateAlways, GateImplies, PTL

(* An approval is answered once, unless two processes are deciding it at   *)
(* the same time in decide_pending_approval, however many screens and      *)
(* commands answer approvals.                                              *)
THEOREM AnsweredOnceHolds == GateSpec => []AnsweredOnce
BY GateAlways, GateImplies, PTL

(* No message leaves the node and no file is written that neither the      *)
(* card's autonomy nor an approval of the owner cleared, or that the       *)
(* card's boundaries forbid, whatever cards and agendas there are.         *)
THEOREM ClearedByOwnerHolds == GateSpec => []ClearedByOwner
BY GateAlways, GateImplies, PTL

(* A session that waits for its owner waits for a row without an answer,   *)
(* wherever processes die, unless the answer overtook the turn's own       *)
(* last statement.                                                         *)
THEOREM WaitsForAnOpenRowHolds == GateSpec => []WaitsForAnOpenRow
BY GateAlways, GateImplies, PTL
=============================================================================
