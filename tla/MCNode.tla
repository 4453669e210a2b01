------------------------------- MODULE MCNode -------------------------------
(***************************************************************************)
(* The parts of a KIN node that share no state, model-checked in one run.  *)
(* The initial state chooses a part; its own next-state relation then      *)
(* applies and the other parts stay as they were, so the states of the     *)
(* parts add up and do not multiply.                                       *)
(***************************************************************************)
EXTENDS TaskV1, OwnerGate, ArtifactExchange, Workspace, ProfileStore, DispatchDesk,
        SessionArena, Profile, TLC

VARIABLE side

Sides == {"tasks", "gate", "exchange", "workspace", "store", "desk", "arena", "profile"}

\* A part that does not move starts in one of its initial states.
Pinned(part, is) == side # part => is

NodeInit ==
    /\ side \in Sides
    /\ Init /\ Pinned("tasks", verified[Answerer])
    /\ ExchangeInit /\ DeskInit /\ ArenaInit /\ ProfileInit
    /\ GateInit /\ Pinned("gate", card = CHOOSE c \in Cards : TRUE)
    /\ StoreInit /\ Pinned("store", db = Legacy(FALSE))
    /\ CardsInit /\ Pinned("desk", files = [a \in Agents |-> "absent"])
    /\ WorkspaceInit
    /\ Pinned("workspace", artifact = (CHOOSE d \in Documents : TRUE) /\ ~ original.eol)

NodeNext ==
    \/ /\ side = "tasks"
       /\ UNCHANGED <<side, gateVars, exchangeVars, workspaceVars, storeVars, cardVars,
                      deskVars, arenaVars, profileVars>>
       /\ Next
    \/ /\ side = "gate"
       /\ UNCHANGED <<side, vars, exchangeVars, workspaceVars, storeVars, cardVars, deskVars,
                      arenaVars, profileVars>>
       /\ GateNext
    \/ /\ side = "exchange"
       /\ UNCHANGED <<side, vars, gateVars, workspaceVars, storeVars, cardVars, deskVars,
                      arenaVars, profileVars>>
       /\ ExchangeNext
    \/ /\ side = "workspace"
       /\ UNCHANGED <<side, vars, gateVars, exchangeVars, storeVars, cardVars, deskVars,
                      arenaVars, profileVars>>
       /\ WorkspaceNext
    \/ /\ side = "store"
       /\ UNCHANGED <<side, vars, gateVars, exchangeVars, workspaceVars, cardVars, deskVars,
                      arenaVars, profileVars>>
       /\ StoreNext
    \/ /\ side = "desk"
       /\ UNCHANGED <<side, vars, gateVars, exchangeVars, workspaceVars, storeVars, arenaVars,
                      profileVars>>
       /\ DeskNext
    \/ /\ side = "arena"
       /\ UNCHANGED <<side, vars, gateVars, exchangeVars, workspaceVars, storeVars, cardVars,
                      deskVars, profileVars>>
       /\ ArenaNext
    \/ /\ side = "profile"
       /\ UNCHANGED <<side, vars, gateVars, exchangeVars, workspaceVars, storeVars, cardVars,
                      deskVars, arenaVars>>
       /\ ProfileNext

NodeSpec == NodeInit /\ [][NodeNext]_<<side, vars, gateVars, exchangeVars, workspaceVars, storeVars,
                                       cardVars, deskVars, arenaVars, profileVars>>

-----------------------------------------------------------------------------
(* The small instances.                                                    *)

Card(filesystem, relay, adapter) ==
    [filesystem |-> filesystem, shell |-> "deny", network_access |-> "deny",
     relay |-> relay, adapter |-> adapter]
MCCards == {Card("workspace_read_write_with_approval", "always_ask", "local_command"),
            Card("workspace_read", "always_allow", "local_command"),
            Card("none", "never", "webhook")}
\* One screen denies, another approves.
MCKeys == [d \in Deciders |-> IF d = CHOOSE e \in Deciders : TRUE THEN {"d"} ELSE {"a"}]
MCAgendas == {<<"workspace_write", "message">>}

MCSize(c) == IF c = "large" THEN 3 ELSE 1
MCMaxArtifactBytes(n) == IF n = "bob" THEN 2 ELSE 3

\* The flyer's owner may choose any name, the other owner always the same one.
MCWanted == [p \in Profiles |-> IF p \in Flyers THEN Usernames ELSE {CHOOSE n \in Usernames : TRUE}]
MCPhrases == [p \in Profiles |-> 1]

\* The variables of the part that moves have their types.
NodeTypeOK ==
    /\ side = "tasks" => TypeOK
    /\ side = "gate" => GateTypeOK
    /\ side = "exchange" => ExchangeTypeOK
    /\ side = "workspace" => WorkspaceTypeOK
    /\ side = "store" => StoreTypeOK
    /\ side = "desk" => CardsTypeOK /\ DeskTypeOK
    /\ side = "arena" => ArenaTypeOK
    /\ side = "profile" => ProfileTypeOK
=============================================================================
