----------------------------- MODULE AgentCards -----------------------------
(***************************************************************************)
(* Agent cards: the YAML files of a profile, the agents table they are     *)
(* registered in, the published cards a peer fetches and the peer's cache  *)
(* of them, in which a card that changed is stale until its owner has      *)
(* reviewed it.                                                            *)
(*                                                                         *)
(* The publisher and the peer are two processes; every operation commits   *)
(* once, at its end.                                                       *)
(***************************************************************************)
EXTENDS Naturals, FiniteSets

CONSTANTS
    Agents,         \* agent ids of the publisher
    CardTexts,      \* what a valid card file may say
    MaxCardSteps    \* edits of files, of the environment and of the registry

ASSUME CardsAssumption == MaxCardSteps \in Nat

Unregistered == [enabled |-> FALSE, version |-> 0]
NotCached == [status |-> "none"]
Availability == {"ready", "needs_setup", "policy_blocked"}
\* What a directory entry may be: nothing, a file that is skipped (of the first
\* release, or one that does not validate), a valid card.
Files == {"absent", "skipped"} \cup CardTexts

VARIABLES
    files,      \* the agents directory
    setUp,      \* the secret or the working directory an adapter needs is there
    agents,     \* the agents table
    cached,     \* the peer's peer_agent_cards
    looked,     \* the card the peer's owner last looked at
    cardSteps,
    toggled,    \* ghost: enabled or disabled since it was registered
    current,    \* ghost: the peer has fetched since the last change
    known,      \* ghost: cards the peer's owner has seen first, or reviewed
    crossed     \* ghost: cards marked as reviewed that replaced the one looked at

cardVars == <<files, setUp, agents, cached, looked, cardSteps, toggled, current, known, crossed>>

\* A card of this text as registered by a node that has what the adapter needs.
Listed(text) ==
    [enabled |-> TRUE, availability |-> "ready", version |-> 1, text |-> text,
     published |-> [text |-> text, availability |-> "ready"]]

\* A profile without cards, or one whose cards the peer has fetched (the texts
\* are alike).
CardsInit ==
    /\ files \in {[a \in Agents |-> text] : text \in {"absent", CHOOSE c \in CardTexts : TRUE}}
    /\ setUp = [a \in Agents |-> TRUE]
    /\ agents = [a \in Agents |-> IF files[a] = "absent" THEN Unregistered ELSE Listed(files[a])]
    /\ cached = [a \in Agents |-> IF files[a] = "absent" THEN NotCached
                                  ELSE [status |-> "fresh", card |-> agents[a].published]]
    /\ looked = [a \in Agents |-> NotCached]
    /\ cardSteps = 0
    /\ toggled = [a \in Agents |-> FALSE]
    /\ current = (files # [a \in Agents |-> "absent"])
    /\ known = [a \in Agents |-> IF files[a] = "absent" THEN {} ELSE {cached[a].card}]
    /\ crossed = [a \in Agents |-> {}]

CardStep == cardSteps < MaxCardSteps /\ cardSteps' = cardSteps + 1
-----------------------------------------------------------------------------
(* The publisher.                                                          *)

compute_availability(a, enabled) ==
    IF ~ enabled THEN "policy_blocked" ELSE IF setUp[a] THEN "ready" ELSE "needs_setup"

\* The projection peers may see: the card's public fields and an availability.
publish_card(text, availability) == [text |-> text, availability |-> availability]

\* Faulty variant: the published projection is made once.
RegisteredOnce(a, text) ==
    LET old == agents[a]
        enabled == IF old.version > 0 THEN old.enabled ELSE TRUE
        avail == compute_availability(a, enabled)
    IN [enabled |-> enabled, availability |-> avail, version |-> old.version + 1, text |-> text,
        published |-> IF old.version > 0 THEN old.published
                      ELSE publish_card(text, avail)]

\* register_card: the row and the published projection are written together;
\* whether the agent is enabled is kept.
Registered(a, text) ==
    LET old == agents[a]
        enabled == IF old.version > 0 THEN old.enabled ELSE TRUE
        avail == compute_availability(a, enabled)
    IN [enabled |-> enabled, availability |-> avail, version |-> old.version + 1, text |-> text,
        published |-> publish_card(text, avail)]

\* The agents with a valid card in the directory; other files are skipped.
scan_local_cards == {a \in Agents : files[a] \in CardTexts}

\* agent list: every valid card of the directory is registered again.  A file
\* that was removed leaves its row.
AgentList ==
    /\ scan_local_cards # {} /\ CardStep
    /\ agents' = [a \in Agents |-> IF a \in scan_local_cards THEN Registered(a, files[a])
                                   ELSE agents[a]]
    /\ toggled' = [a \in Agents |-> a \notin scan_local_cards /\ toggled[a]]
    /\ current' = FALSE
    /\ UNCHANGED <<files, setUp, cached, looked, known, crossed>>

\* import_card: refused when a file for the card is there already.
Importable(a) == files[a] = "absent"

\* agent import
AgentImport(a, text) ==
    /\ Importable(a) /\ CardStep
    /\ files' = [files EXCEPT ![a] = text]
    /\ agents' = [agents EXCEPT ![a] = Registered(a, text)]
    /\ toggled' = [toggled EXCEPT ![a] = FALSE]
    /\ current' = FALSE
    /\ UNCHANGED <<setUp, cached, looked, known, crossed>>

\* The row's availability follows, the published projection is left as it was
\* registered.
set_enabled(a, enabled) == [agents[a] EXCEPT !.enabled = enabled,
                                             !.availability = compute_availability(a, enabled)]

\* agent enable, agent disable
AgentEnable(a, enabled) ==
    /\ agents[a].version > 0 /\ CardStep
    /\ agents' = [agents EXCEPT ![a] = set_enabled(a, enabled)]
    /\ toggled' = [toggled EXCEPT ![a] = TRUE]
    /\ current' = FALSE
    /\ UNCHANGED <<files, setUp, cached, looked, known, crossed>>

\* The owner edits or removes a file, stores a secret, moves a directory.
EditCardFile(a) ==
    /\ CardStep
    /\ \/ \E f \in Files \ {files[a]} : files' = [files EXCEPT ![a] = f] /\ UNCHANGED setUp
       \/ setUp' = [setUp EXCEPT ![a] = ~ @] /\ UNCHANGED files
    /\ UNCHANGED <<agents, cached, looked, toggled, current, known, crossed>>
-----------------------------------------------------------------------------
(* The peer.                                                               *)

list_cards == {a \in Agents : agents[a].enabled}

\* GET /v1.1/agents/cards: the published projection of every enabled agent.
PublishedCards == [a \in list_cards |-> agents[a].published]

\* Faulty variant: a card that has changed keeps its status.
cache_peer_card_kept(row, new) ==
    IF row.status = "none" THEN [status |-> "fresh", card |-> new] ELSE [row EXCEPT !.card = new]

\* cache_peer_card: a card seen for the first time is fresh; one that has changed
\* is replaced and stale; one that has not keeps its status.
cache_peer_card(row, new) ==
    CASE row.status = "none"                       -> [status |-> "fresh", card |-> new]
      [] row.status # "none" /\ row.card = new     -> row
      [] row.status # "none" /\ row.card # new     -> [status |-> "stale", card |-> new]

\* sync_peer_cards.  When the peer cannot be reached the cache is all there is
\* and nothing changes.
SyncPeerCards ==
    LET served == PublishedCards IN
    /\ cached' = [a \in Agents |-> IF a \in DOMAIN served
                                   THEN cache_peer_card(cached[a], served[a]) ELSE cached[a]]
    /\ known' = [a \in Agents |-> IF a \in DOMAIN served /\ cached[a].status = "none"
                                  THEN {served[a]} ELSE known[a]]
    /\ current' = TRUE
    /\ UNCHANGED <<files, setUp, agents, looked, cardSteps, toggled, crossed>>

\* The owner opens the card on the Agents screen.
LookAtCard(a) ==
    /\ cached[a].status # "none"
    /\ looked' = [looked EXCEPT ![a] = cached[a]]
    /\ UNCHANGED <<files, setUp, agents, cached, cardSteps, toggled, current, known, crossed>>

\* mark_reviewed: the row is fresh, whatever it holds by now.
mark_reviewed(a) ==
    /\ cached[a].status = "stale" /\ looked[a].status # "none"
    /\ cached' = [cached EXCEPT ![a].status = "fresh"]
    /\ known' = [known EXCEPT ![a] = @ \cup {looked[a].card}]
    /\ crossed' = [crossed EXCEPT ![a] = @ \cup ({cached[a].card} \ {looked[a].card})]
    /\ UNCHANGED <<files, setUp, agents, looked, cardSteps, toggled, current>>

CardsNext ==
    \/ AgentList \/ SyncPeerCards
    \/ \E a \in Agents : \/ EditCardFile(a) \/ LookAtCard(a) \/ mark_reviewed(a)
                         \/ \E text \in CardTexts : AgentImport(a, text)
                         \/ \E enabled \in BOOLEAN : AgentEnable(a, enabled)

CardsSpec == CardsInit /\ [][CardsNext]_cardVars
-----------------------------------------------------------------------------
CardsTypeOK ==
    /\ files \in [Agents -> Files]
    /\ \A a \in Agents : /\ cached[a].status \in {"none", "fresh", "stale"}
                         /\ agents[a].version > 0 => agents[a].availability \in Availability

\* What a peer has just fetched is what the publisher's own list says: the text
\* and the availability of every enabled agent.  The exception is an agent that
\* was enabled or disabled after it was last registered: its published card
\* still carries the availability of the registration.
SyncedIsCurrent ==
    current => \A a \in Agents : agents[a].enabled =>
        /\ cached[a].status # "none"
        /\ cached[a].card.text = agents[a].text
        /\ toggled[a] \/ cached[a].card.availability = agents[a].availability

=============================================================================
