-------------------------- MODULE ArtifactExchange --------------------------
(***************************************************************************)
(* Artifacts between two paired nodes: the vault of each, the bytes each   *)
(* session is charged for, and offers from one to the other                *)
(* (kin.artifacts.vault, send_artifact_offer and what ingest_envelope does *)
(* with an ARTIFACT_OFFER after its event has been stored).                *)
(*                                                                         *)
(* Storing the event, the artifact, the byte count and the acceptance are  *)
(* separate commits; a node may die between any two.  An envelope may      *)
(* arrive late, or more than once.                                         *)
(***************************************************************************)
EXTENDS Naturals, FiniteSets
LOCAL INSTANCE FiniteSetsExt

CONSTANTS
    ArtNodes,          \* the two nodes
    ArtSessions,    \* sessions between them
    ArtIds,         \* artifact ids; each node draws its own
    Contents,       \* what an artifact may hold
    Size(_),        \* its length in bytes
    MaxArtifactBytes(_),    \* the boundary of the card a node takes part with
    MaxOffers,
    MaxDeaths

ASSUME ExchangeAssumption ==
    /\ \A c \in Contents : Size(c) \in Nat
    /\ \A n \in ArtNodes : MaxArtifactBytes(n) \in Nat
    /\ MaxOffers \in Nat /\ MaxDeaths \in Nat

Absent == [session |-> "none"]
Garbled == "garbled"            \* what is no ciphertext for this receiver
ExchangeProcs == ArtNodes \X {"server", "turn"}
Free == [pc |-> "free"]

VARIABLES
    artifacts,   \* the artifacts table of each node
    charged,     \* cumulative_artifact_bytes of each session at each node
    offers,      \* ARTIFACT_OFFER envelopes sent; the network may repeat them
    ingested,    \* offers whose event a node has stored
    accepted,    \* ARTIFACT_ACCEPT envelopes a node has stored and sent
    work,        \* what a process is doing, and with what
    deaths,
    uncharged    \* ghost: rows whose byte count was lost

exchangeVars == <<artifacts, charged, offers, ingested, accepted, work, deaths, uncharged>>

ExchangeInit ==
    /\ artifacts = [n \in ArtNodes |-> [i \in ArtIds |-> Absent]]
    /\ charged = [n \in ArtNodes |-> [s \in ArtSessions |-> 0]]
    /\ offers = {}
    /\ ingested = [n \in ArtNodes |-> {}]
    /\ accepted = [n \in ArtNodes |-> {}]
    /\ work = [p \in ExchangeProcs |-> Free]
    /\ deaths = 0
    /\ uncharged = {}

Held(n, i) == artifacts[n][i] # Absent
Other(n) == CHOOSE m \in ArtNodes : m # n
Server(n) == <<n, "server">>
-----------------------------------------------------------------------------
\* The artifacts of an adapter's response: stored under a new id, charged next.
StoreOutput(n, s, i, c) ==
    LET p == <<n, "turn">> IN
    /\ work[p] = Free
    /\ ~ Held(n, i)
    /\ Size(c) <= MaxArtifactBytes(n)
    /\ artifacts' = [artifacts EXCEPT ![n][i] = [session |-> s, content |-> c]]
    /\ work' = [work EXCEPT ![p] = [pc |-> "charge", session |-> s, id |-> i,
                                    content |-> c, offer |-> 0]]
    /\ UNCHANGED <<charged, offers, ingested, accepted, deaths, uncharged>>

\* What is held under an id: its row, and its bytes (which have the row's hash).
get_artifact_metadata(n, i) == artifacts[n][i]
load_artifact_bytes(n, i) == artifacts[n][i].content

\* send_artifact_offer: an artifact of the session, with the hash and the size
\* its row has.  The bytes are encrypted for the key the contact row names; a
\* receiver that has another one cannot read them.
SendOffer(n, s, i, carried) ==
    /\ Held(n, i)
    /\ get_artifact_metadata(n, i).session = s
    /\ carried \in {load_artifact_bytes(n, i), Garbled}
    /\ Cardinality(offers) < MaxOffers
    /\ offers' = offers \cup
         {[number |-> Cardinality(offers) + 1, to |-> Other(n), session |-> s, id |-> i,
           claimed |-> get_artifact_metadata(n, i).content, carried |-> carried]}
    /\ UNCHANGED <<artifacts, charged, ingested, accepted, work, deaths, uncharged>>

\* What the receiver examines, in this order: the claimed size, the decryption,
\* the claimed hash, the size.
OfferAdmitted(n, o) ==
    /\ Size(o.claimed) <= MaxArtifactBytes(n)
    /\ o.carried # Garbled
    /\ o.carried = o.claimed
    /\ Size(o.carried) <= MaxArtifactBytes(n)

\* The event is stored; an offer that is not admitted ends here, acknowledged as
\* delivered.  An envelope that comes again is a duplicate and changes nothing.
IngestOffer(n, o) ==
    /\ o.to = n /\ o \notin ingested[n]
    /\ work[Server(n)] = Free
    /\ ingested' = [ingested EXCEPT ![n] = @ \cup {o}]
    /\ work' = IF OfferAdmitted(n, o)
               THEN [work EXCEPT ![Server(n)] = [pc |-> "store", session |-> o.session,
                         id |-> o.id, content |-> o.carried, offer |-> o.number]]
               ELSE work
    /\ UNCHANGED <<artifacts, charged, offers, accepted, deaths, uncharged>>

\* Faulty variant: an id that is taken is taken as stored.
store_artifact_any(n) ==
    LET job == work[Server(n)] IN
    /\ job.pc = "store"
    /\ artifacts' = IF Held(n, job.id) THEN artifacts
                    ELSE [artifacts EXCEPT ![n][job.id] =
                             [session |-> job.session, content |-> job.content]]
    /\ work' = [work EXCEPT ![Server(n)].pc = "charge"]
    /\ UNCHANGED <<charged, offers, ingested, accepted, deaths, uncharged>>

\* store_artifact under the offer's id: a row with the same hash is left as it
\* is, whatever its session; one with another hash is a conflict.
store_artifact(n) ==
    LET job == work[Server(n)] IN
    /\ job.pc = "store"
    /\ \/ /\ ~ Held(n, job.id)
          /\ artifacts' = [artifacts EXCEPT ![n][job.id] =
                              [session |-> job.session, content |-> job.content]]
          /\ work' = [work EXCEPT ![Server(n)].pc = "charge"]
       \/ /\ Held(n, job.id)
          /\ work' = [work EXCEPT ![Server(n)] =
                IF artifacts[n][job.id].content = job.content
                THEN [job EXCEPT !.pc = "charge"] ELSE Free]
          /\ UNCHANGED artifacts
    /\ UNCHANGED <<charged, offers, ingested, accepted, deaths, uncharged>>

\* Faulty variant: only artifacts that were received are charged.
ChargeReceived(p) ==
    LET job == work[p] IN
    /\ job.pc = "charge"
    /\ charged' = IF job.offer # 0
                  THEN [charged EXCEPT ![p[1]][job.session] = @ + Size(job.content)] ELSE charged
    /\ work' = [work EXCEPT ![p] = IF job.offer # 0 THEN [job EXCEPT !.pc = "accept"] ELSE Free]
    /\ UNCHANGED <<artifacts, offers, ingested, accepted, deaths, uncharged>>

\* increment_session_artifact_bytes, also for a row that was there before.
Charge(p) ==
    LET job == work[p] IN
    /\ job.pc = "charge"
    /\ charged' = [charged EXCEPT ![p[1]][job.session] = @ + Size(job.content)]
    /\ work' = [work EXCEPT ![p] = IF job.offer # 0 THEN [job EXCEPT !.pc = "accept"] ELSE Free]
    /\ UNCHANGED <<artifacts, offers, ingested, accepted, deaths, uncharged>>

\* The acceptance is stored as an event of this node and sent once.
SendAccept(n) ==
    LET job == work[Server(n)] IN
    /\ job.pc = "accept"
    /\ accepted' = [accepted EXCEPT ![n] = @ \cup {job.offer}]
    /\ work' = [work EXCEPT ![Server(n)] = Free]
    /\ UNCHANGED <<artifacts, charged, offers, ingested, deaths, uncharged>>

\* A process dies between two commits; nothing resumes what it was doing.
ExchangeDies(p) ==
    /\ work[p] # Free
    /\ deaths < MaxDeaths
    /\ deaths' = deaths + 1
    /\ work' = [work EXCEPT ![p] = Free]
    /\ uncharged' = IF work[p].pc = "charge" THEN uncharged \cup {<<p[1], work[p].id>>}
                    ELSE uncharged
    /\ UNCHANGED <<artifacts, charged, offers, ingested, accepted>>

ExchangeNext ==
    \/ \E n \in ArtNodes, s \in ArtSessions, i \in ArtIds :
          \/ \E c \in Contents : StoreOutput(n, s, i, c)
          \/ \E c \in Contents \cup {Garbled} : SendOffer(n, s, i, c)
    \/ \E n \in ArtNodes : \/ \E o \in offers : IngestOffer(n, o)
                        \/ store_artifact(n) \/ SendAccept(n)
    \/ \E p \in ExchangeProcs : Charge(p) \/ ExchangeDies(p)

ExchangeSpec == ExchangeInit /\ [][ExchangeNext]_exchangeVars
-----------------------------------------------------------------------------
ExchangeTypeOK ==
    /\ \A n \in ArtNodes, i \in ArtIds :
          artifacts[n][i] \in {Absent} \cup [session : ArtSessions, content : Contents]
    /\ \A n \in ArtNodes, s \in ArtSessions : charged[n][s] \in Nat
    /\ \A n \in ArtNodes : ingested[n] \subseteq offers
    /\ \A p \in ExchangeProcs : work[p].pc \in {"free", "store", "charge", "accept"}

\* An offer its receiver has accepted is an offer whose bytes the receiver
\* holds, under the id both sides use for it: two nodes that drew the same id
\* for different artifacts are told apart (store_artifact refuses the second),
\* and no later offer replaces what was accepted.
AcceptedIsHeld ==
    \A n \in ArtNodes : \A o \in offers :
        o.to = n /\ o.number \in accepted[n] =>
            Held(n, o.id) /\ load_artifact_bytes(n, o.id) = o.claimed

\* What a session is charged for covers everything the vault holds for it, so
\* that its artifact budget cannot be passed unseen: the two are written in
\* different commits, by the server for what it receives and by a turn for what
\* an adapter made, and only a process that dies in between leaves a gap.
BudgetSeesVault ==
    \A n \in ArtNodes, s \in ArtSessions :
        LET seen == {i \in ArtIds : /\ artifacts[n][i].session = s
                                    /\ <<n, i>> \notin uncharged
                                    /\ ~ \E p \in ExchangeProcs : p[1] = n /\ work[p].pc = "charge"
                                                          /\ work[p].id = i}
        IN charged[n][s] >= MapThenSumSet(LAMBDA i : Size(artifacts[n][i].content), seen)
=============================================================================
