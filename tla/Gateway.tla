------------------------------ MODULE Gateway ------------------------------
(***************************************************************************)
(* create_gateway_app: the proxy attempts and the agent card mirror of one *)
(* gateway process.                                                        *)
(***************************************************************************)
EXTENDS GatewayProxy, CardMirror

vars == <<proxyVars, mirrorVars>>

GatewayInit == ProxyInit /\ Init

GatewayNext ==
  \/ ProxyNext /\ UNCHANGED mirrorVars
  \/ MirrorNext /\ UNCHANGED proxyVars

Spec == GatewayInit /\ [][GatewayNext]_vars
FairSpec == Spec /\ ProxyFairness /\ MirrorFairness

Outcomes == {"forwarded", "unsupported_version", "unsupported_operation",
             "upstream_unavailable", "upstream_disconnected", "upstream_timeout",
             "client_disconnected"}

(* The state of the attempts and of the mirror is well formed.             *)
TypeOK ==
  /\ phase \in [Requests -> {"idle", "credentials", "sending", "reading", "yielded",
                             "closing", "done"}]
  /\ stream \in [Requests -> BOOLEAN]
  /\ verdict \in [Requests -> Outcomes]
  /\ tracker \in [Requests -> Outcomes \cup {"open"}]
  /\ records \in [Requests -> Nat]
  /\ upstream \in [Requests -> {"none", "open", "closed", "left_open"}]
  /\ origin \in [Requests -> {"live", "ended", "failed", "silent"}]
  /\ client \in [Requests -> {"here", "gone"}]
  /\ answer \in [Requests -> {"none", "refused", "502", "500", "started", "complete",
                              "broken"}]
  /\ read \in [Requests -> 0..MaxChunks] /\ sent \in [Requests -> 0..MaxChunks]
  /\ clock \in 0..MaxClock
  /\ until \in Seq(0..MaxClock)
  /\ cached \in [version : 0..Len(CardOf), expires : Nat]
  /\ waiters \in Seq(Callers)
  /\ task \in [Callers -> [phase : {"none", "error", "card", "waiting", "fetching",
                                    "reading"},
                           started : 0..MaxClock, hops : 0..MaxRedirects,
                           version : 0..Len(CardOf)]]

-----------------------------------------------------------------------------
(* Proxy attempts                                                          *)

(* Whatever interleaving of handler, generator, client and origin an       *)
(* attempt went through, complete() (sessions.py:126) reports it at most   *)
(* once and only when it is over, and what it reports is what happened: a  *)
(* refusal has not touched the upstream, an upstream that was not          *)
(* available has sent the client nothing, a broken stream was cut off for  *)
(* the reason given, and, if its client stayed, a forwarded one is         *)
(* complete to the last chunk.                                             *)
RecordIsTruthful ==
  \A r \in Requests :
    /\ records[r] <= 1
    /\ tracker[r] # "open" => phase[r] = "done" /\ upstream[r] # "open"
    /\ tracker[r] = "open" => records[r] = 0
    /\ tracker[r] \in {"unsupported_version", "unsupported_operation"} =>
         upstream[r] = "none" /\ answer[r] = "refused"
    /\ tracker[r] = "upstream_unavailable" => answer[r] = "502" /\ sent[r] = 0
    /\ tracker[r] = "upstream_disconnected" => origin[r] = "failed"
    /\ tracker[r] = "upstream_timeout" => origin[r] # "ended" /\ answer[r] = "broken"
    /\ tracker[r] = "client_disconnected" => client[r] = "gone"
    /\ tracker[r] = "forwarded" /\ client[r] = "here" =>
         answer[r] = "complete" /\ sent[r] = read[r]

(* A stream whose client has gone, or whose origin has ended, failed or    *)
(* fallen silent, is reported in the end and its upstream response is no   *)
(* longer being read (forward_body, app.py:218-245): no path out of the    *)
(* loop misses the finally block.                                          *)
StreamsEnd ==
  \A r \in Requests :
    (\/ phase[r] \in {"reading", "yielded"} /\ client[r] = "gone"
     \/ phase[r] = "reading" /\ origin[r] # "live")
      ~> (tracker[r] # "open" /\ upstream[r] # "open")

-----------------------------------------------------------------------------
(* The agent card                                                          *)

Answered(t) ==
  CASE t.phase = "card" -> [kind |-> "card", version |-> t.version]
    [] t.phase \in {"none", "error"} -> [kind |-> t.phase, version |-> 0]
    [] OTHER -> [kind |-> "pending", version |-> 0]

Promise == INSTANCE CardPromise WITH
  Horizon <- IF Ttl > FetchTimeout THEN Ttl - 1 ELSE FetchTimeout,
  PublicVersions <- {v \in 1..Len(CardOf) : Publishable(v)},
  served <- cached.version,
  reply <- [c \in Callers |-> Answered(task[c])]

(* The mirror implements CardPromise: each card public_card answers with   *)
(* is fit for the public, was the upstream's own no longer ago than the    *)
(* TTL (or the time of one fetch), and is not older than any card answered *)
(* before, by whichever task, with however many tasks at the lock and      *)
(* fetches failing or cancelled.                                           *)
CardsAsPromised == Promise!Spec

(* "Refreshing it once per TTL" (agent_card.py:100): a snapshot is         *)
(* replaced only by one whose fetch began after it had expired, and at     *)
(* most one task fetches at a time.                                        *)
OneRefreshPerTtl ==
  [][/\ cached' # cached =>
          \A c \in Holders : task[c].started >= cached.expires
     /\ \A c, d \in Callers : c \in Holders' /\ d \in Holders' => c = d]_vars

(* Every caller is answered, refused or gone in the end: a fetch that      *)
(* fails, hangs or is cancelled never keeps the lock (agent_card.py:106).  *)
CardRequestsEnd ==
  \A c \in Callers :
    task[c].phase \in {"waiting", "fetching", "reading"}
      ~> task[c].phase \in {"none", "error", "card"}
=============================================================================
