---------------------------- MODULE DispatchDesk ----------------------------
(***************************************************************************)
(* Dispatching a session: the seven steps of the wizard, the context items *)
(* that go with the request, and dispatch_new_session on its worker        *)
(* thread, while cards are published, fetched and reviewed (AgentCards).   *)
(***************************************************************************)
EXTENDS AgentCards, Sequences

CONSTANTS
    Contacts,       \* the contacts of the profile
    Publisher,      \* the one whose cards have been fetched
    MaxItems        \* context items of a draft

ASSUME DeskAssumption ==
    /\ Publisher \in Contacts
    /\ MaxItems \in Nat

Nobody == "nobody"
Steps == 0..6       \* peer, sender, receiver, type, goal, pantry, review
NoPack == <<>>

VARIABLES
    draft,       \* DispatchDraft and the state of the widget
    expired,     \* the expiry of context items has passed
    caps,        \* peer_capabilities of each contact
    requests     \* ghost: what was dispatched

deskVars == <<draft, expired, caps, requests>>

EmptyDraft == [step |-> 0, peer |-> Nobody, sender |-> FALSE, receiver |-> Nobody, goal |-> FALSE,
               items |-> <<>>, phase |-> "draft", pack |-> NoPack, switched |-> FALSE]

DeskInit ==
    /\ draft = EmptyDraft
    /\ expired = FALSE
    /\ caps = [c \in Contacts |-> "none"]
    /\ requests = {}

Edit(new) ==
    /\ draft' = new
    /\ UNCHANGED <<cardVars, expired, caps, requests>>
-----------------------------------------------------------------------------
(* The wizard.  Keys do nothing while a dispatch is under way or done.     *)

At(step) == draft.phase = "draft" /\ draft.step = step

\* validate_current_step
StepComplete(d) ==
    CASE d.step = 0 -> d.peer # Nobody
      [] d.step = 1 -> d.sender
      [] d.step = 2 -> d.receiver # Nobody
      [] d.step = 4 -> d.goal
      [] d.step = 5 -> \A i \in DOMAIN d.items : d.items[i].reviewed
      [] OTHER -> TRUE

\* The picker lists every contact, verified or not.
get_local_contacts_summaries == Contacts

\* select_peer: a receiver chosen before is kept.
SelectPeer(c) ==
    /\ At(0) /\ c \in get_local_contacts_summaries
    /\ Edit([draft EXCEPT !.peer = c,
                          !.switched = @ \/ (draft.receiver # Nobody /\ draft.peer # c)])

SelectSender == At(1) /\ Edit([draft EXCEPT !.sender = TRUE])

\* The picker lists the cached cards of the chosen peer, stale ones as well.
SelectReceiver(a) ==
    /\ At(2)
    /\ draft.peer = Publisher /\ cached[a].status # "none"
    /\ Edit([draft EXCEPT !.receiver = a, !.switched = FALSE])

TypeGoal == At(4) /\ Edit([draft EXCEPT !.goal = ~ @])

\* add_context_pantry_item; an item waits for its review.
AddItem(expires) ==
    /\ At(5) /\ Len(draft.items) < MaxItems
    /\ Edit([draft EXCEPT !.items = Append(@, [expires |-> expires, reviewed |-> FALSE])])

\* Both keys act on the first item.
RemoveItem == At(5) /\ draft.items # <<>> /\ Edit([draft EXCEPT !.items = Tail(@)])
ReviewItem == /\ At(5) /\ draft.items # <<>>
              /\ Edit([draft EXCEPT !.items[1].reviewed = TRUE])

NextStep == /\ draft.phase = "draft" /\ draft.step < 6 /\ StepComplete(draft)
            /\ Edit([draft EXCEPT !.step = @ + 1])
PrevStep == draft.phase = "draft" /\ draft.step > 0 /\ Edit([draft EXCEPT !.step = @ - 1])

ConfirmDispatch ==
    /\ At(6)
    /\ draft.peer # Nobody /\ draft.sender /\ draft.receiver # Nobody /\ draft.goal
    /\ Edit([draft EXCEPT !.phase = "packing"])
-----------------------------------------------------------------------------
(* The worker: dispatch_new_session.  A failure gives the draft back.      *)

Returned == [draft EXCEPT !.phase = "draft", !.pack = NoPack]

\* build_reviewed_context_pack: every item reviewed and not expired.  (The file
\* of a local reference is read here, not when it was reviewed.)
BuildPack ==
    LET ok == \A i \in DOMAIN draft.items :
                  draft.items[i].reviewed /\ ~ (draft.items[i].expires /\ expired)
    IN /\ draft.phase = "packing"
       /\ Edit(IF ok THEN [draft EXCEPT !.phase = "negotiating", !.pack = draft.items] ELSE Returned)

\* An advertisement with a version and the features a session needs.
negotiate_capability(answer) == answer = "compatible"

\* Only a compatible advertisement is cached, and it serves for 72 hours.
get_cached_peer_capabilities(c) == IF caps[c] = "fresh" THEN "compatible" ELSE "none"

\* The peer's capabilities: asked for, or taken from the cache when the peer
\* cannot be reached; a contact without an endpoint is not asked at all.
Negotiate(answer) ==
    LET ok == \/ answer = "no_endpoint"
              \/ negotiate_capability(IF answer # "unreachable" THEN answer
                                      ELSE get_cached_peer_capabilities(draft.peer))
    IN /\ draft.phase = "negotiating"
       /\ draft' = IF ok THEN [draft EXCEPT !.phase = "sending"] ELSE Returned
       /\ caps' = IF negotiate_capability(answer) THEN [caps EXCEPT ![draft.peer] = "fresh"]
                  ELSE caps
       /\ UNCHANGED <<cardVars, expired, requests>>

\* is_stale: a card that is not cached is not stale.
IsStale(peer, a) == peer = Publisher /\ cached[a].status = "stale"

\* dispatch_session: the stale card is the last thing looked at; the request is
\* stored and sent (see SessionProtocol).
DispatchSession ==
    /\ draft.phase = "sending"
    /\ IF IsStale(draft.peer, draft.receiver)
       THEN draft' = Returned /\ UNCHANGED requests
       ELSE /\ draft' = [draft EXCEPT !.phase = "sent"]
            /\ requests' = requests \cup
                  {[peer |-> draft.peer, receiver |-> draft.receiver, pack |-> draft.pack,
                    switched |-> draft.switched,
                    card |-> IF draft.peer = Publisher THEN cached[draft.receiver] ELSE NotCached]}
    /\ UNCHANGED <<cardVars, expired, caps>>
-----------------------------------------------------------------------------
\* Time passes: context items expire, cached capabilities are too old.
DeskWorld ==
    /\ ~ expired
    /\ expired' = TRUE
    /\ caps' = [c \in Contacts |-> IF caps[c] = "fresh" THEN "old" ELSE caps[c]]
    /\ UNCHANGED <<cardVars, draft, requests>>

DeskNext ==
    \/ CardsNext /\ UNCHANGED deskVars
    \/ \E c \in Contacts : SelectPeer(c)
    \/ \E a \in Agents : SelectReceiver(a)
    \/ \E expires \in BOOLEAN : AddItem(expires)
    \/ SelectSender \/ TypeGoal \/ RemoveItem \/ ReviewItem \/ NextStep \/ PrevStep
    \/ ConfirmDispatch \/ BuildPack \/ DispatchSession \/ DeskWorld
    \/ \E answer \in {"compatible", "incompatible", "unreachable", "no_endpoint"} : Negotiate(answer)

DeskSpec == CardsInit /\ DeskInit /\ [][DeskNext]_<<cardVars, deskVars>>
-----------------------------------------------------------------------------
DeskTypeOK ==
    /\ CardsTypeOK
    /\ draft.step \in Steps /\ draft.peer \in Contacts \cup {Nobody}
    /\ draft.receiver \in Agents \cup {Nobody}
    /\ draft.phase \in {"draft", "packing", "negotiating", "sending", "sent"}

\* A session is requested only from an agent whose card the owner has seen as it
\* then was, and it carries only context items the owner has reviewed.  The
\* exception is a peer that was changed after the agent had been picked.
DispatchIsReviewed ==
    \A r \in requests :
        /\ \/ r.switched
           \/ /\ r.card.status = "fresh"
              /\ r.card.card \in known[r.receiver] \cup crossed[r.receiver]
        /\ \A i \in DOMAIN r.pack : r.pack[i].reviewed
=============================================================================
