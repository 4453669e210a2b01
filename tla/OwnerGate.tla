----------------------------- MODULE OwnerGate -----------------------------
(***************************************************************************)
(* The owner's control over one agent in one session: the policy           *)
(* evaluator, the approvals table, the owner's decisions on it, the gates  *)
(* a turn passes before its message leaves, and the gate in front of a     *)
(* write into the workspace (kin.policy, kin.artifacts.workspace and the   *)
(* steps of advance_session_turn between the adapter and the message).     *)
(*                                                                         *)
(* A turn, the screens and the command line are processes with their own   *)
(* connections: what one of them has read may have changed when it writes. *)
(***************************************************************************)
EXTENDS Naturals, Sequences, FiniteSets
LOCAL INSTANCE SessionReducer

CONSTANTS
    Deciders,       \* screens and commands that record decisions
    Writers,        \* screens that import artifacts and apply patches
    Cards,          \* the agent's card and what the owner may edit it to
    Keys,           \* the keys each of them answers a request with
    OwnerActions,   \* what the owner does to the session besides
    Calls,          \* what a call of the agent comes to: "times_out", "fails" (no
                    \* call at all), "text" or "json" (one that asks for an agenda)
    Agendas,        \* what an adapter's response has to be cleared for
    MaxApprovals,   \* rows of the approvals table
    MaxStamps,      \* different times of decision
    MaxUpsets       \* processes that die, and edits of the card

Items == {"informational_relay", "session_participation", "artifact_receipt",
          "workspace_read", "workspace_write", "shell_network_external", "message"}

ASSUME GateAssumption ==
    /\ Deciders \cap Writers = {} /\ "turn" \notin Deciders \cup Writers
    /\ Cards # {}
    /\ \A c \in Cards : c.adapter \in {"local_command", "webhook", "embedded", "sdk"}
    /\ Agendas \subseteq Seq(Items)
    /\ \A p \in Deciders : Keys[p] \subseteq {"a", "d", "e", "b"}
    /\ Calls \subseteq {"times_out", "fails", "text", "json"}
    /\ MaxApprovals \in Nat /\ MaxStamps \in Nat /\ MaxUpsets \in Nat

Turn == "turn"
Actors == Deciders \cup Writers \cup {Turn}
ActionClasses == Items \ {"message"}
Approvals == {"approve_once", "always_allow_bounded"}
Decisions == Approvals \cup {"deny", "edit_constraints"}
Undecided == "undecided"        \* decision IS NULL
NoRow == 0
Rows == 0..MaxApprovals

VARIABLES
    status,      \* sessions.status
    approvals,   \* the approvals table of the session, oldest row first
    card,        \* the agent's card
    actor,       \* the processes
    upsets,
    waits,       \* ghost: the row the session waits for
    answers,     \* ghost: decisions recorded on each row
    uses,        \* ghost: actions allowed by each approve_once row
    contested,   \* ghost: rows two processes were deciding at once
    raced        \* ghost: rows two evaluations held at once

gateVars == <<status, approvals, card, actor, upsets, waits, answers, uses,
              contested, raced>>
ghosts == <<waits, answers, uses, contested, raced>>

\* cleared: the item last cleared; grant: the row that cleared it, NoRow when the
\* card's own autonomy did; row: the row in hand; overtaken: it was answered
\* before the session waited for it.
Resting == [pc |-> "idle", agenda |-> <<>>, card |-> CHOOSE c \in Cards : TRUE,
            row |-> NoRow, decision |-> Undecided, at |-> 0, grant |-> NoRow,
            cleared |-> "none", overtaken |-> FALSE]

GateInit ==
    /\ status = "active"
    /\ approvals = <<>>
    /\ card \in Cards
    /\ actor = [p \in Actors |-> Resting]
    /\ upsets = 0 /\ waits = NoRow
    /\ answers = [a \in 1..MaxApprovals |-> 0]
    /\ uses = [a \in 1..MaxApprovals |-> 0]
    /\ contested = {} /\ raced = {}

Step(p, new) == actor' = [actor EXCEPT ![p] = new]
Rest(p) == Step(p, Resting)
-----------------------------------------------------------------------------
(* The policy evaluator.                                                   *)

HardDenied(c, class) ==
    \/ /\ class = "shell_network_external"
       /\ c.shell = "deny" /\ c.network_access = "deny"
    \/ class = "workspace_write" /\ c.filesystem \in {"none", "workspace_read"}
    \/ class = "workspace_read" /\ c.filesystem = "none"

\* relay_information is the only autonomy setting that is consulted.
Autonomy(c, class) ==
    CASE class = "informational_relay" /\ c.relay = "always_allow" -> "allow"
      [] class = "informational_relay" /\ c.relay = "never" -> "deny"
      [] OTHER -> "requires_approval"

\* Faulty variant: an approval is looked at before the card's boundaries.
evaluate_action_prior_first(c, class, prior) ==
    IF prior \in Approvals THEN "allow"
    ELSE IF HardDenied(c, class) \/ prior = "deny" THEN "deny"
    ELSE Autonomy(c, class)

\* evaluate_action: boundaries first, then a prior decision, then autonomy.
\* edit_constraints falls through to the autonomy setting.
evaluate_action(c, class, prior) ==
    IF HardDenied(c, class) THEN "deny"
    ELSE IF prior \in Approvals THEN "allow"
    ELSE IF prior = "deny" THEN "deny"
    ELSE Autonomy(c, class)

\* Faulty variant: a used approve_once still counts.
LiveUsed(class) == {a \in DOMAIN approvals : approvals[a].class = class /\ ~ approvals[a].expired}

\* The rows evaluate_action_for_session chooses from: of this class, not expired
\* and no used approve_once.
Live(class) ==
    {a \in DOMAIN approvals :
        /\ approvals[a].class = class
        /\ ~ approvals[a].expired
        /\ ~ (approvals[a].decision = "approve_once" /\ approvals[a].consumed)}

\* It takes the one decided last.  A row without a decision has no decided_at
\* and sorts last.
PriorApprovals(class) ==
    IF Live(class) = {} THEN {NoRow}
    ELSE {a \in Live(class) : \A b \in Live(class) : approvals[b].at <= approvals[a].at}

ClassOf(item) == IF item = "message" THEN "informational_relay" ELSE item
Item(p) == Head(actor[p].agenda)
Cleared(p, a) == [actor[p] EXCEPT !.agenda = Tail(@), !.pc = "gate", !.row = NoRow,
                                  !.grant = a, !.cleared = Item(p)]

\* evaluate_action_for_session up to its first write, which took row a.  A row
\* without a decision is not a valid ApprovalDecision: the evaluation raises.
Evaluates(p, a, result) ==
    LET class == ClassOf(Item(p))
        prior == IF a = NoRow THEN "none" ELSE approvals[a].decision
        res == evaluate_action(actor[p].card, class, prior)
    IN /\ actor[p].pc = "gate" /\ actor[p].agenda # <<>>
       /\ a \in PriorApprovals(class)
       /\ result = IF prior = Undecided THEN "raises"
                   ELSE IF res = "allow" /\ prior = "approve_once" THEN "allow_once"
                   ELSE res

\* Allowed by the card or by a bounded approval: on to the next item.
Allowed(p, a) ==
    /\ Evaluates(p, a, "allow")
    /\ Step(p, Cleared(p, IF a # NoRow /\ approvals[a].decision \in Approvals THEN a ELSE NoRow))
    /\ UNCHANGED <<status, approvals, card, upsets, ghosts>>

\* Allowed by an approve_once row, which the next statement marks as used.
AllowedOnce(p, a) ==
    /\ Evaluates(p, a, "allow_once")
    /\ Step(p, [actor[p] EXCEPT !.pc = "consume", !.row = a])
    /\ raced' = IF \E q \in Actors \ {p} : actor[q].pc = "consume" /\ actor[q].row = a
                THEN raced \cup {a} ELSE raced
    /\ UNCHANGED <<status, approvals, card, upsets, waits, answers, uses,
                   contested>>

MarkConsumed(p) ==
    /\ actor[p].pc = "consume"
    /\ approvals' = [approvals EXCEPT ![actor[p].row].consumed = TRUE]
    /\ uses' = [uses EXCEPT ![actor[p].row] = @ + 1]
    /\ Step(p, Cleared(p, actor[p].row))
    /\ UNCHANGED <<status, card, upsets, waits, answers, contested, raced>>
-----------------------------------------------------------------------------
(* A turn, from the adapter's response to its message.                     *)

Says(agenda) == [error |-> "none", agenda |-> agenda]
Fails(error) == [error |-> error, agenda |-> <<>>]

\* An adapter's invoke.  Plain text becomes a proposal, a message with nothing else to clear.
local_command_invoke(call, agenda) ==
    CASE call = "times_out" -> Fails("transient")   \* the process tree is killed
      [] call = "fails" -> Fails("hard")            \* bad configuration, or no process
      [] call = "text" -> Says(<<"message">>)
      [] call = "json" -> Says(agenda)

webhook_invoke(call, agenda) == local_command_invoke(call, agenda)

\* The model's text is never parsed.
embedded_invoke(call) ==
    local_command_invoke(IF call = "json" THEN "text" ELSE call, <<>>)

\* What a local callable returns has to follow the schema.
sdk_invoke(call, agenda) ==
    local_command_invoke(IF call = "text" THEN "fails" ELSE call, agenda)

Response(adapter, call, agenda) ==
    CASE adapter = "local_command" -> local_command_invoke(call, agenda)
      [] adapter = "webhook" -> webhook_invoke(call, agenda)
      [] adapter = "embedded" -> embedded_invoke(call)
      [] adapter = "sdk" -> sdk_invoke(call, agenda)

\* The classes an adapter may ask approval for (CAPABILITY_DECLARATIONS).
AdapterClasses(adapter) ==
    IF adapter = "local_command" THEN ActionClasses
    ELSE {"informational_relay", "session_participation", "artifact_receipt"}

ValidOutput(c, agenda) ==
    \A i \in DOMAIN agenda : ClassOf(agenda[i]) \in AdapterClasses(c.adapter)

TurnMayRun ==
    /\ actor[Turn].pc = "idle"
    /\ status \notin TerminalStates \cup {"awaiting_owner_approval", "paused"}

\* A usable response: the approvals it asks for, then its message.
TurnBegins(call, agenda) ==
    LET response == Response(card.adapter, call, agenda) IN
    /\ TurnMayRun
    /\ response.error = "none" /\ ValidOutput(card, response.agenda)
    /\ Step(Turn, [Resting EXCEPT !.pc = "gate", !.agenda = response.agenda, !.card = card])
    /\ UNCHANGED <<status, approvals, card, upsets, ghosts>>

\* A hard error, or validate_adapter_output rejects the response: the session
\* fails.  (A transient error leaves everything as it is.)
TurnRejected(call, agenda) ==
    LET response == Response(card.adapter, call, agenda) IN
    /\ TurnMayRun
    /\ \/ response.error = "hard"
       \/ response.error = "none" /\ ~ ValidOutput(card, response.agenda)
    /\ status' = ProcessNodeCommand(status, "failed")
    /\ UNCHANGED <<approvals, card, actor, upsets, ghosts>>

\* A denied request is passed over; a denied message fails the session.
TurnDenied(a) ==
    /\ Evaluates(Turn, a, "deny")
    /\ \/ /\ Item(Turn) # "message"
          /\ Step(Turn, Cleared(Turn, NoRow))
          /\ UNCHANGED status
       \/ /\ Item(Turn) = "message"
          /\ status' = ProcessNodeCommand(status, "failed")
          /\ Rest(Turn)
    /\ UNCHANGED <<approvals, card, upsets, ghosts>>

\* create_pending_approval commits the row; the session waits one statement
\* later.
TurnAsks(a) ==
    /\ Evaluates(Turn, a, "requires_approval")
    /\ Len(approvals) < MaxApprovals
    /\ approvals' = Append(approvals, [class |-> ClassOf(Item(Turn)), at |-> 0,
                                       decision |-> Undecided, expired |-> FALSE,
                                       consumed |-> FALSE])
    /\ Step(Turn, [actor[Turn] EXCEPT !.pc = "wait", !.row = Len(approvals) + 1,
                                            !.overtaken = FALSE])
    /\ UNCHANGED <<status, card, upsets, ghosts>>

TurnWaits ==
    /\ actor[Turn].pc = "wait"
    /\ status' = ProcessNodeCommand(status, "awaiting_owner_approval")
    /\ waits' = IF status' = "awaiting_owner_approval" /\ ~ actor[Turn].overtaken
                THEN actor[Turn].row ELSE NoRow
    /\ Rest(Turn)
    /\ UNCHANGED <<approvals, card, upsets, answers, uses, contested, raced>>

\* Everything is cleared: the artifacts are stored and the message is sent.
TurnSends ==
    /\ actor[Turn].pc = "gate" /\ actor[Turn].agenda = <<>>
    /\ Rest(Turn)
    /\ UNCHANGED <<status, approvals, card, upsets, ghosts>>

\* The evaluation raises; the exception ends the turn.
TurnRaises(a) ==
    /\ Evaluates(Turn, a, "raises")
    /\ Rest(Turn)
    /\ UNCHANGED <<status, approvals, card, upsets, ghosts>>
-----------------------------------------------------------------------------
(* Writing an artifact, or a patched file, into the workspace.             *)

\* import_artifact_action and apply_patch_action up to the evaluation: the
\* artifact belongs to the session, its agent has a card with a workspace, the
\* path stays inside it, and a patch applies to the file as it is now.
WriteBegins(w) ==
    /\ actor[w].pc = "idle"
    /\ card.adapter = "local_command"
    /\ Step(w, [Resting EXCEPT !.pc = "gate", !.agenda = <<"workspace_write">>,
                               !.card = card])
    /\ UNCHANGED <<status, approvals, card, upsets, ghosts>>

\* WorkspaceWritePermissionDeniedError, or the evaluation raises.
WriteRefused(w, a) ==
    /\ \E result \in {"deny", "requires_approval", "raises"} : Evaluates(w, a, result)
    /\ Rest(w)
    /\ UNCHANGED <<status, approvals, card, upsets, ghosts>>

\* _atomic_write_file: a temporary file that replaces the target.
Writes(w) ==
    /\ actor[w].pc = "gate" /\ actor[w].agenda = <<>>
    /\ Rest(w)
    /\ UNCHANGED <<status, approvals, card, upsets, ghosts>>
-----------------------------------------------------------------------------
(* The owner's decisions.                                                  *)

\* A decided_at later than any other.
NextStamp ==
    LET used == {approvals[a].at : a \in DOMAIN approvals} \cup {actor[p].at : p \in Actors}
    IN 1 + CHOOSE t \in used : \A u \in used : u <= t

\* The inbox and the command line list every row without a decision, expired or
\* not; the arena lists the decided ones too.
get_pending_approvals == {a \in DOMAIN approvals : approvals[a].decision = Undecided}
get_approvals_for_session == DOMAIN approvals

\* Faulty variant: a row that has a decision is decided again.
DecideReadsAny(p, a, decision) ==
    /\ actor[p].pc = "idle"
    /\ NextStamp \in 1..MaxStamps
    /\ Step(p, [Resting EXCEPT !.pc = "decide", !.row = a, !.decision = decision,
                               !.at = NextStamp])
    /\ UNCHANGED <<status, approvals, card, upsets, ghosts>>

\* decide_pending_approval up to its first write: the row is undecided and has
\* not expired, otherwise an error is reported.  decided_at is taken here.
DecideReads(p, a, decision) ==
    /\ actor[p].pc = "idle"
    /\ approvals[a].decision = Undecided
    /\ ~ approvals[a].expired
    /\ NextStamp \in 1..MaxStamps
    /\ Step(p, [Resting EXCEPT !.pc = "decide", !.row = a, !.decision = decision,
                               !.at = NextStamp])
    /\ contested' = IF \E q \in Deciders \ {p} : actor[q].row = a
                    THEN contested \cup {a} ELSE contested
    /\ UNCHANGED <<status, approvals, card, upsets, waits, answers, uses, raced>>

\* The keys of both screens and what they decide once the owner confirms; a
\* denial wants a reason.
DecisionFor == [a |-> "approve_once", d |-> "deny", e |-> "edit_constraints",
                b |-> "always_allow_bounded"]

\* A key in the inbox or in the arena, or `kin approval decide`.
inbox_key(p, key) == \E a \in get_pending_approvals : DecideReads(p, a, DecisionFor[key])
handle_approval_key(p, key) ==
    \E a \in get_approvals_for_session : DecideReads(p, a, DecisionFor[key])
approval_decide(p, key) == \E a \in DOMAIN approvals : DecideReads(p, a, DecisionFor[key])

OwnerAction(decision) == IF decision = "deny" THEN "deny" ELSE "approve"

\* Faulty variant: the session is not moved.
DecideMovesNot(p) ==
    /\ actor[p].pc = "decide"
    /\ Step(p, [actor[p] EXCEPT !.pc = "record"])
    /\ UNCHANGED <<status, approvals, card, upsets, ghosts>>

\* The session moves and commits before the decision is written: approvals
\* lead to "active", a denial to "paused".  A status that allows neither is
\* an error, and the row stays undecided.
DecideMoves(p) ==
    LET action == OwnerAction(actor[p].decision) IN
    /\ actor[p].pc = "decide"
    /\ \/ /\ OwnerCommandAllowed(status, action)
          /\ status' = OwnerCommandTarget[action]
          /\ actor' = [actor EXCEPT ![p].pc = "record",
                ![Turn].overtaken = @ \/ actor[Turn].row = actor[p].row]
          /\ waits' = NoRow
       \/ /\ ~ OwnerCommandAllowed(status, action)
          /\ Rest(p)
          /\ UNCHANGED <<status, waits>>
    /\ UNCHANGED <<approvals, card, upsets, answers, uses, contested, raced>>

\* record_approval_decision overwrites what the row says by now.
DecideRecords(p) ==
    LET a == actor[p].row IN
    /\ actor[p].pc = "record"
    /\ approvals' = [approvals EXCEPT ![a].decision = actor[p].decision,
                                      ![a].at = actor[p].at]
    /\ answers' = [answers EXCEPT ![a] = @ + 1]
    /\ Rest(p)
    /\ UNCHANGED <<status, card, upsets, waits, uses, contested, raced>>
-----------------------------------------------------------------------------
(* Around them.                                                            *)

\* The owner pauses, resumes or cancels the session.
OwnerMoves(action) ==
    /\ OwnerCommandAllowed(status, action)
    /\ status' = OwnerCommandTarget[action]
    /\ waits' = NoRow
    /\ UNCHANGED <<approvals, card, actor, upsets, answers, uses, contested, raced>>

\* expires_at passes.
ApprovalExpires(a) ==
    /\ ~ approvals[a].expired
    /\ approvals' = [approvals EXCEPT ![a].expired = TRUE]
    /\ UNCHANGED <<status, card, actor, upsets, ghosts>>

\* The owner edits the card; what is under way goes on with the one it loaded.
EditCard(c) ==
    /\ card # c
    /\ upsets < MaxUpsets
    /\ upsets' = upsets + 1
    /\ card' = c
    /\ UNCHANGED <<status, approvals, actor, ghosts>>

\* A process dies between two of its statements.
ProcessDies(p) ==
    /\ actor[p].pc # "idle"
    /\ upsets < MaxUpsets
    /\ upsets' = upsets + 1
    /\ Rest(p)
    /\ UNCHANGED <<status, approvals, card, ghosts>>

GateNext ==
    \/ \E p \in Writers \cup {Turn} : MarkConsumed(p)
    \/ \E p \in Writers \cup {Turn}, a \in Rows : Allowed(p, a) \/ AllowedOnce(p, a)
    \/ \E call \in Calls, agenda \in Agendas :
          TurnBegins(call, agenda) \/ TurnRejected(call, agenda)
    \/ TurnWaits \/ TurnSends
    \/ \E a \in Rows : TurnDenied(a) \/ TurnAsks(a) \/ TurnRaises(a)
    \/ \E w \in Writers : \/ WriteBegins(w) \/ Writes(w)
                           \/ \E a \in Rows : WriteRefused(w, a)
    \/ \E p \in Deciders :
          \/ DecideMoves(p) \/ DecideRecords(p)
          \/ \E k \in Keys[p] :
                inbox_key(p, k) \/ handle_approval_key(p, k) \/ approval_decide(p, k)
    \/ \E action \in OwnerActions : OwnerMoves(action)
    \/ \E a \in DOMAIN approvals : ApprovalExpires(a)
    \/ \E c \in Cards : EditCard(c)
    \/ \E p \in Actors : ProcessDies(p)

GateSpec == GateInit /\ [][GateNext]_gateVars
-----------------------------------------------------------------------------
GateTypeOK ==
    /\ status \in Statuses
    /\ Len(approvals) <= MaxApprovals
    /\ \A a \in DOMAIN approvals :
          approvals[a] \in [class : ActionClasses, at : Nat,
                           decision : Decisions \cup {Undecided},
                           expired : BOOLEAN, consumed : BOOLEAN]
    /\ card \in Cards
    /\ \A p \in Actors : actor[p].row \in 0..Len(approvals)

\* An approve_once decision clears one action.  It clears a second only when two
\* evaluations had selected the row before either marked it as used
\* (evaluate_action_for_session selects and updates without a condition).
OnceIsOnce == \A a \in DOMAIN approvals : uses[a] > 1 => a \in raced

\* An approval is answered once, and the answer stands, unless two processes
\* were deciding it at the same time (decide_approval checks for a decision
\* before it writes one, in different statements).
AnsweredOnce == \A a \in DOMAIN approvals : answers[a] > 1 => a \in contested

\* A message about to leave the node and a file about to be written are within
\* the boundaries of the card they were cleared for, and either the card's
\* autonomy or an approval of the owner cleared them: no answer to a request
\* widens the boundaries, and no denial is passed over.
ClearedByOwner ==
    \A p \in Actors :
        LET class == ClassOf(actor[p].cleared)
            grant == actor[p].grant
        IN /\ actor[p].pc = "gate" /\ actor[p].agenda = <<>>
           /\ actor[p].cleared = "message" \/ p \in Writers
           => /\ ~ HardDenied(actor[p].card, class)
              /\ IF grant = NoRow
                 THEN class = "informational_relay" /\ actor[p].card.relay = "always_allow"
                 ELSE approvals[grant].decision \in Approvals \/ grant \in contested

\* A session that waits for its owner waits for a row that the owner has not
\* answered: the session is moved before the answer is recorded, so that no
\* process that dies in between leaves it waiting for nothing.  The exception
\* is an answer that overtakes the turn's own last statement.
WaitsForAnOpenRow ==
    status = "awaiting_owner_approval" =>
        waits = NoRow \/ approvals[waits].decision = Undecided
=============================================================================
