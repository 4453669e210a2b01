---------------------------- MODULE GatewayProxy ----------------------------
(***************************************************************************)
(* The data plane of kin_gateway/app.py: proxy_jsonrpc, proxy_rest and     *)
(* streaming_upstream_response forward an A2A request to the protected     *)
(* upstream with the gateway's own credential, and an                      *)
(* ExternalTaskSessionTracker (sessions.py) reports how it went.           *)
(*                                                                         *)
(* Attempts share no state; what interleaves within one are the handler,   *)
(* the stream generator forward_body, the client and the upstream origin.  *)
(* External, as app.py relies on them: httpx, and the ASGI server, which   *)
(* cancels the task of a response whose client has gone.  The task is then *)
(* either inside forward_body, awaiting a chunk, or outside it, handing a  *)
(* chunk to the client; a generator left at its yield is closed with       *)
(* GeneratorExit.                                                          *)
(***************************************************************************)
EXTENDS Integers

CONSTANTS Requests,        \* the proxy attempts
          CredentialMode,  \* "private", "header", or "custom" (injected)
          MaxChunks        \* bound on the chunks of a stream

ASSUME ProxyAssumption ==
  CredentialMode \in {"private", "header", "custom"} /\ MaxChunks \in Nat

VARIABLES phase,    \* where the attempt's task is
          stream,   \* the request is a stream or a subscription
          verdict,  \* forward_body's local variable outcome
          tracker,  \* the outcome complete() was called with, "open" before
          records,  \* how many records the observer has been given
          upstream, \* the attempt's httpx client
          origin,   \* what the origin will do next on an established stream
          client,   \* the external client
          answer,   \* what the client has been sent
          read, sent \* chunks taken from the origin, handed to the client

proxyVars == <<phase, stream, verdict, tracker, records, upstream, origin,
               client, answer, read, sent>>

Set(f, r, v) == f' = [f EXCEPT ![r] = v]

ProxyInit ==
  /\ phase = [r \in Requests |-> "idle"]
  /\ stream = [r \in Requests |-> FALSE]
  /\ verdict = [r \in Requests |-> "forwarded"]
  /\ tracker = [r \in Requests |-> "open"]
  /\ records = [r \in Requests |-> 0]
  /\ upstream = [r \in Requests |-> "none"]
  /\ origin = [r \in Requests |-> "live"]
  /\ client = [r \in Requests |-> "here"]
  /\ answer = [r \in Requests |-> "none"]
  /\ read = [r \in Requests |-> 0]
  /\ sent = [r \in Requests |-> 0]

-----------------------------------------------------------------------------
(* ExternalTaskSessionTracker.complete: only the first call counts.  The   *)
(* observer may fail, or be cancelled, which changes nothing else.         *)

Complete(r, outcome) ==
  \/ tracker[r] # "open" /\ UNCHANGED <<tracker, records>>
  \/ /\ tracker[r] = "open"
     /\ Set(tracker, r, outcome)
     /\ \E kept \in {0, 1} : records' = [records EXCEPT ![r] = @ + kept]

(* The attempt ends before or instead of an upstream response.             *)
EndWith(r, outcome, status) ==
  /\ Complete(r, outcome)
  /\ Set(phase, r, "done")
  /\ Set(answer, r, status)
  /\ UNCHANGED <<verdict, origin, client, read, sent>>

-----------------------------------------------------------------------------
(* The handlers up to the first upstream await                             *)

RestMethods == {"GET", "POST", "DELETE"}
RestPaths == {"message:send", "message:stream", "tasks", "tasks/id", "tasks/id:cancel",
              "tasks/id:subscribe", "tasks/id/pushNotificationConfigs",
              "extendedAgentCard", "other"}

(* GET tasks/[^/]+ matches every one-segment name, a subscription's too:   *)
(* proxy_rest asks for streams first.                                      *)
IsNonstreamingRest(op) ==
  op \in {<<"POST", "message:send">>, <<"GET", "tasks">>, <<"GET", "tasks/id">>,
          <<"GET", "tasks/id:cancel">>, <<"GET", "tasks/id:subscribe">>,
          <<"POST", "tasks/id:cancel">>}

IsStreamingRest(op) ==
  op \in {<<"POST", "message:stream">>, <<"GET", "tasks/id:subscribe">>,
          <<"POST", "tasks/id:subscribe">>}

IsKnownUnsupported(op) ==
  op[2] \in {"tasks/id/pushNotificationConfigs", "extendedAgentCard"}

(* _supports_a2a_version, then on to the upstream.                         *)
CheckVersion(r, isStream, versionOk) ==
  /\ Set(stream, r, isStream)
  /\ \/ /\ ~versionOk
        /\ EndWith(r, "unsupported_version", "refused")
        /\ UNCHANGED upstream
     \/ /\ versionOk
        /\ Set(phase, r, "credentials")
        /\ UNCHANGED <<verdict, tracker, records, upstream, origin, client, answer,
                       read, sent>>

ProxyJsonrpc(r) ==
  /\ phase[r] = "idle"
  /\ \E isStream, versionOk \in BOOLEAN : CheckVersion(r, isStream, versionOk)

ProxyRest(r) ==
  /\ phase[r] = "idle"
  /\ \E op \in RestMethods \X RestPaths, versionOk \in BOOLEAN :
       LET supported == /\ ~IsKnownUnsupported(op)
                        /\ IsStreamingRest(op) \/ IsNonstreamingRest(op)
       IN  \/ /\ ~supported
              /\ EndWith(r, "unsupported_operation", "refused")
              /\ UNCHANGED <<stream, upstream>>
           \/ supported /\ CheckVersion(r, IsStreamingRest(op), versionOk)

-----------------------------------------------------------------------------
(* The upstream call                                                       *)

(* headers_for: a private upstream needs nothing; a configured secret may  *)
(* be missing, empty or no header value; an injected provider may raise    *)
(* anything.                                                               *)
HeadersFor ==
  CASE CredentialMode = "private" -> {"ok"}
    [] CredentialMode = "header" -> {"ok", "credential_error"}
    [] CredentialMode = "custom" -> {"ok", "credential_error", "other_error"}

(* An exception the handler does not catch: the server answers 500.        *)
Unexpected(r) ==
  /\ Set(phase, r, "done")
  /\ Set(answer, r, "500")
  /\ UNCHANGED <<stream, verdict, tracker, records, origin, client, read, sent>>

Credentials(r) ==
  /\ phase[r] = "credentials"
  /\ \E result \in HeadersFor :
       \/ /\ result = "ok"
          /\ Set(phase, r, "sending")
          /\ Set(upstream, r, "open")
          /\ UNCHANGED <<stream, verdict, tracker, records, origin, client, answer,
                         read, sent>>
       \/ /\ result = "credential_error"
          /\ EndWith(r, "upstream_unavailable", "502")
          /\ UNCHANGED <<stream, upstream>>
       \/ /\ result = "other_error"
          /\ Unexpected(r)
          /\ UNCHANGED upstream

(* httpx.HTTPError: the client is closed and the attempt reported.         *)
SendFailed(r) ==
  /\ phase[r] = "sending"
  /\ Set(upstream, r, "closed")
  /\ EndWith(r, "upstream_unavailable", "502")
  /\ UNCHANGED stream

(* Any other exception: `async with` closes the client of a buffered call, *)
(* nothing closes the client of a stream.                                  *)
SendBroke(r) ==
  /\ phase[r] = "sending"
  /\ Unexpected(r)
  /\ Set(upstream, r, IF stream[r] THEN "left_open" ELSE "closed")

AnswerBuffered(r) ==
  /\ phase[r] = "sending" /\ ~stream[r]
  /\ Set(upstream, r, "closed")
  /\ EndWith(r, "forwarded", "complete")
  /\ UNCHANGED stream

(* The upstream response has started: StreamingResponse runs forward_body. *)
StartStream(r) ==
  /\ phase[r] = "sending" /\ stream[r]
  /\ Set(phase, r, "reading")
  /\ Set(answer, r, "started")
  /\ UNCHANGED <<stream, verdict, tracker, records, upstream, origin, client, read, sent>>

-----------------------------------------------------------------------------
(* forward_body                                                            *)

StreamVars(r) == UNCHANGED <<stream, tracker, records, upstream, origin, client>>

(* anext(iterator) gives a chunk, which is yielded to the server ...       *)
ReadChunk(r) ==
  /\ phase[r] = "reading" /\ origin[r] = "live"
  /\ read[r] < MaxChunks
  /\ Set(phase, r, "yielded")
  /\ Set(read, r, read[r] + 1)
  /\ StreamVars(r) /\ UNCHANGED <<verdict, answer, sent>>

(* ... which asks for the next one when the client has taken it.           *)
SendChunk(r) ==
  /\ phase[r] = "yielded" /\ client[r] = "here"
  /\ Set(phase, r, "reading")
  /\ Set(sent, r, sent[r] + 1)
  /\ StreamVars(r) /\ UNCHANGED <<verdict, answer, read>>

(* The loop ends or raises: on to the finally block.                       *)
Leave(r, outcome, status) ==
  /\ Set(phase, r, "closing")
  /\ Set(verdict, r, outcome)
  /\ Set(answer, r, status)
  /\ StreamVars(r) /\ UNCHANGED <<read, sent>>

StreamEnded(r) ==
  /\ phase[r] = "reading" /\ origin[r] = "ended"
  /\ Leave(r, "forwarded", IF client[r] = "here" THEN "complete" ELSE "broken")

(* Faulty variant: the failure of the origin ends the loop unnoticed.      *)
ReadFailedQuietly(r) ==
  /\ phase[r] = "reading" /\ origin[r] = "failed"
  /\ Leave(r, "forwarded", "broken")

ReadFailed(r) ==
  /\ phase[r] = "reading" /\ origin[r] = "failed"
  /\ Leave(r, "upstream_disconnected", "broken")

(* stream_read_timeout_seconds without a chunk                             *)
ReadTimedOut(r) ==
  /\ phase[r] = "reading" /\ origin[r] \in {"live", "silent"}
  /\ Leave(r, "upstream_timeout", "broken")

(* The cancellation reaches the generator as CancelledError.               *)
CancelledReading(r) ==
  /\ phase[r] = "reading" /\ client[r] = "gone"
  /\ Leave(r, "client_disconnected", "broken")

(* The cancellation reaches the server between two chunks: the generator   *)
(* is closed at its yield, and outcome keeps its first value.              *)
ClosedAtYield(r) ==
  /\ phase[r] = "yielded" /\ client[r] = "gone"
  /\ Leave(r, "forwarded", "broken")

(* Faulty variant: no finally, the report is made on the normal path only. *)
CleanupNormalOnly(r) ==
  /\ phase[r] = "closing"
  /\ Set(phase, r, "done")
  /\ \/ verdict[r] = "forwarded" /\ Set(upstream, r, "closed") /\ Complete(r, verdict[r])
     \/ verdict[r] # "forwarded" /\ UNCHANGED <<upstream, tracker, records>>
  /\ UNCHANGED <<stream, verdict, origin, client, answer, read, sent>>

(* finally: close the response and the client, then report.  Closing may   *)
(* raise, or be cancelled, after the response or the client; the report is *)
(* made all the same.                                                      *)
Cleanup(r) ==
  /\ phase[r] = "closing"
  /\ \E left \in {"closed", "left_open"} : Set(upstream, r, left)
  /\ Complete(r, verdict[r])
  /\ Set(phase, r, "done")
  /\ UNCHANGED <<stream, verdict, origin, client, answer, read, sent>>

-----------------------------------------------------------------------------
(* The client and the origin (external)                                    *)

ClientLeaves(r) ==
  /\ client[r] = "here" /\ phase[r] \notin {"idle", "done"}
  /\ Set(client, r, "gone")
  /\ UNCHANGED <<phase, stream, verdict, tracker, records, upstream, origin, answer,
                 read, sent>>

OriginTurns(r) ==
  /\ origin[r] = "live" /\ phase[r] \in {"reading", "yielded"}
  /\ \E o \in {"ended", "failed", "silent"} : Set(origin, r, o)
  /\ UNCHANGED <<phase, stream, verdict, tracker, records, upstream, client, answer,
                 read, sent>>

ProxyStep(r) ==
  \/ ProxyJsonrpc(r) \/ ProxyRest(r)
  \/ Credentials(r) \/ SendFailed(r) \/ SendBroke(r)
  \/ AnswerBuffered(r) \/ StartStream(r)
  \/ ReadChunk(r) \/ SendChunk(r)
  \/ StreamEnded(r) \/ ReadFailed(r) \/ ReadTimedOut(r)
  \/ CancelledReading(r) \/ ClosedAtYield(r) \/ Cleanup(r)
  \/ ClientLeaves(r) \/ OriginTurns(r)

ProxyNext == \E r \in Requests : ProxyStep(r)

(* The generator's own steps; the client is not assumed to read, nor the   *)
(* origin to write.                                                        *)
ProxyFairness ==
  \A r \in Requests :
    WF_proxyVars(StreamEnded(r) \/ ReadFailed(r) \/ ReadTimedOut(r)
                 \/ CancelledReading(r) \/ ClosedAtYield(r) \/ Cleanup(r))
=============================================================================
